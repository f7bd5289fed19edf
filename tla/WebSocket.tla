----------------------------- MODULE WebSocket -----------------------------
(***************************************************************************)
(* The websocket of a browser client, src/src/websocket.c, with the three  *)
(* callbacks of the proxy: requests and frames arrive in pieces, are       *)
(* parsed by a loop over ws_state, and are answered or forwarded, while    *)
(* the device sends data of its own and a static server its files.         *)
(*                                                                         *)
(* The input is a sequence of items, requests and frames, each of a number *)
(* of units that arrive one after the other; a unit is some bytes that no  *)
(* test of the parser tells apart.  The buffer of unread input is the part *)
(* between consumed and delivered.  A step of the loop is an action.  Any  *)
(* send may fail.  The texts of headers are left out.                      *)
(*                                                                         *)
(* Operators whose comment starts with (slip) are not part of the model:   *)
(* each is the definition that follows it with a plausible mistake, used   *)
(* to see that a property fails when the code is wrong in that way.        *)
(***************************************************************************)
EXTENDS HttpRequests, FiniteSets, SequencesExt

CONSTANTS
    Requests,   \* [kind, method, resource, upgrade, key, fold]; method "BAD": a field is
                \* missing; fold: a header line begins with a blank
    Frontends,  \* what the frontend option may be: "file", "http", or another
    Frames,     \* [kind, fin, op, masked, ext, body, utf8]: op "BAD" is any frame refused,
                \* utf8 is whether the payload by itself is UTF-8, perhaps cut at its end
    MaxRequests,\* bound on the requests a client sends
    MaxItems,   \* bound on the items a client sends
    MaxOut      \* bound on what is sent to the client

ASSUME RequestsAssumption ==
    Requests \subseteq [kind : {"request"}, method : {"GET", "HEAD", "POST", "BAD"},
                        resource : {"list", "page", "static", "dotted", "other"},
                        upgrade : BOOLEAN, key : BOOLEAN, fold : BOOLEAN]
ASSUME FramesAssumption ==
    Frames \subseteq [kind : {"frame"}, fin : BOOLEAN, masked : BOOLEAN,
                      op : {"TEXT", "BINARY", "CONTINUATION", "CLOSE", "PING", "PONG", "BAD"},
                      ext : {0, 1}, body : {0, 1}, utf8 : BOOLEAN]
\* Without a payload there is nothing to refuse.  Only a masked one is modelled: that
\* of a frame without a mask is not skipped by ws_read_frame, and is read as frames.
ASSUME PayloadsAssumption ==
    \A f \in Frames : (~f.utf8 => f.body = 1) /\ (f.body = 1 => f.masked)
ASSUME BoundsAssumption == {MaxRequests, MaxItems, MaxOut, MaxBlocks} \subseteq Nat

None == "none"      \* continued_opcode 0

VARIABLES
    state,          \* ws_state
    needed,         \* needed_length
    frameLength,
    continued,      \* continued_opcode
    data,           \* payloads of the message that is being received, by item number
    sentClose,
    secKey,         \* sec_key is set
    sent,           \* items the client has sent
    starts,         \* units before each of them, and before the next
    delivered,      \* units of them that were received
    consumed,       \* units of them before in_head
    handled,        \* items of them that on_http_request and on_frame got
    looping,        \* ws_recv_loop runs
    page,           \* the client has a page (iws->ipage)
    out,            \* what was sent to the client
    forwarded,      \* messages sent to the device
    frontend,       \* what the frontend option is
    servers,        \* items that static servers answer
    fault           \* what failed, if anything

parser == <<state, needed, frameLength, continued, data, sentClose, secKey>>
outside == <<frontend, servers, fault>>
vars == <<parser, sent, starts, delivered, consumed, handled, looping, page, out, forwarded, outside>>

Control == {"CLOSE", "PING", "PONG"}
Reply(what, of) == [op |-> what, of |-> of]

Init ==
    /\ state = "request"
    /\ needed = 0 /\ frameLength = 0 /\ continued = None /\ data = <<>>
    /\ sentClose = FALSE /\ secKey = FALSE
    /\ sent = <<>> /\ starts = <<0>> /\ delivered = 0 /\ consumed = 0 /\ handled = 0
    /\ looping = FALSE /\ page = FALSE
    /\ out = <<>> /\ forwarded = <<>>
    /\ frontend \in Frontends /\ servers = {} /\ fault = "none"

-----------------------------------------------------------------------------
(* The input.                                                                *)

\* A request is a line of two units and headers of one, and one more from a header
\* line that begins with a blank; a frame has a head of two, perhaps an extended
\* length, perhaps a mask and payload.
LineUnits == 2
HeadUnits == 2
FoldUnits(r) == IF r.fold THEN 1 ELSE 0
Units(item) ==
    IF item.kind = "request" THEN LineUnits + 1 + FoldUnits(item)
    ELSE HeadUnits + item.ext + item.body

\* The item that is parsed next, if the client has begun to send it, and the
\* units after in_head.
Current == sent[handled + 1]
Unread == delivered - consumed

\* in_head is at a header line that begins with a blank, in a request that was handled.
Astray ==
    /\ handled > 0 /\ sent[handled].kind = "request" /\ sent[handled].fold
    /\ consumed < starts[handled + 1]

\* What the loop does with the new state that a handler returns: goes on, unless
\* the connection ends or the input is used up.
GoesTo(new) ==
    /\ state' = new
    /\ looping' = (new \notin {"closed", "error"} /\ consumed' # delivered)

\* The handler returns -1: more input is needed.
Waits == looping' = FALSE

-----------------------------------------------------------------------------
(* What is sent.  What comes of it is a record of the variables it may change. *)

Replies == [out |-> out, forwarded |-> forwarded, sentClose |-> sentClose, fault |-> "none"]

\* send_data fails.
Broken == [Replies EXCEPT !.fault = "send"]

\* (slip) a pong may follow the close frame.
SendFrameAfterClose(r, op, of, utf8) ==
    IF \/ continued # None /\ op \notin Control /\ op # continued
       \/ continued = None /\ op = "TEXT" /\ ~utf8
    THEN [r EXCEPT !.fault = "refused"]
    ELSE [r EXCEPT !.out = Append(@, Reply(IF continued # None /\ op \notin Control
                                           THEN "CONTINUATION" ELSE op, of)),
                   !.sentClose = @ \/ op = "CLOSE"]

\* ws_send_frame with is_fin, as all callers have it.  continued_opcode is the
\* one that the receiving side set; a text that goes out as a continuation is not
\* tested for UTF-8.
SendFrame(r, op, of, utf8) ==
    IF \/ r.sentClose
       \/ continued # None /\ op \notin Control /\ op # continued
       \/ continued = None /\ op = "TEXT" /\ ~utf8
    THEN [r EXCEPT !.fault = "refused"]
    ELSE [r EXCEPT !.out = Append(@, Reply(IF continued # None /\ op \notin Control
                                           THEN "CONTINUATION" ELSE op, of)),
                   !.sentClose = (op = "CLOSE")]

-----------------------------------------------------------------------------
(* The client and the device.                                                *)

Upgraded == \E i \in 1..Len(out) : out[i].op = "UPGRADE"

\* The client sends a request as long as none of its requests asked for an
\* upgrade, and frames once the upgrade was answered.
ClientSends(item) ==
    /\ ~looping /\ state \notin {"closed", "error"}
    /\ Len(sent) < MaxItems
    /\ item.kind = "frame" <=> Upgraded
    /\ item.kind = "request" =>
        Len(sent) < MaxRequests /\ \A i \in 1..Len(sent) : ~sent[i].upgrade
    /\ sent' = Append(sent, item)
    /\ starts' = Append(starts, starts[Len(starts)] + Units(item))
    /\ UNCHANGED <<parser, delivered, consumed, handled, looping, page, out, forwarded, outside>>

\* ws_on_recv: the next n units arrive.
OnRecv(n) ==
    /\ ~looping /\ state \notin {"closed", "error"}
    /\ delivered + n <= starts[Len(starts)]
    /\ delivered' = delivered + n
    /\ looping' = TRUE
    /\ UNCHANGED <<parser, sent, starts, consumed, handled, page, out, forwarded, outside>>

\* Another client takes the page, or it goes.
LosesPage ==
    /\ ~looping /\ page
    /\ page' = FALSE
    /\ UNCHANGED <<parser, sent, starts, delivered, consumed, handled, looping, out, forwarded,
                   outside>>

\* iwdp_on_applicationSentData; when the frame cannot be sent the device's
\* connection is closed, and this client with it.
DeviceSendsData ==
    /\ ~looping /\ page /\ Upgraded /\ state \notin {"closed", "error"}
    /\ Len(out) < MaxOut
    /\ \E r \in {SendFrame(Replies, "TEXT", 0, utf8) : utf8 \in BOOLEAN} \cup {Broken} :
        /\ out' = r.out
        /\ state' = IF r.fault = "none" THEN state ELSE "closed"
    /\ UNCHANGED <<needed, frameLength, continued, data, sentClose, secKey, sent, starts,
                   delivered, consumed, handled, looping, page, forwarded, outside>>

\* iwdp_on_recv for a static server: what it sends goes to the client as it is;
\* if it cannot be sent the client is removed.
ServerSends(n) ==
    /\ ~looping /\ state \notin {"closed", "error"}
    /\ Len(out) < MaxOut
    /\ \/ out' = Append(out, Reply("RELAYED", n)) /\ UNCHANGED state
       \/ state' = "closed" /\ UNCHANGED out
    /\ UNCHANGED <<needed, frameLength, continued, data, sentClose, secKey, sent, starts, delivered,
                   consumed, handled, looping, page, forwarded, outside>>

\* iwdp_ifs_close: the client is closed with its server.
ServerEnds(n) ==
    /\ ~looping /\ state \notin {"closed", "error"}
    /\ state' = "closed" /\ servers' = servers \ {n}
    /\ UNCHANGED <<needed, frameLength, continued, data, sentClose, secKey, sent, starts, delivered,
                   consumed, handled, looping, page, out, forwarded, frontend, fault>>

-----------------------------------------------------------------------------
(* The handlers of ws_recv_loop.                                             *)

\* ws_recv_request: the line is read, its end is kept.
RecvRequest ==
    /\ looping /\ state = "request" /\ ~Astray
    /\ IF Unread < LineUnits THEN Waits /\ UNCHANGED <<state, consumed>>
       ELSE /\ consumed' = consumed + LineUnits - 1
            /\ GoesTo(IF Current.method = "BAD" THEN "error" ELSE "headers")
    /\ UNCHANGED <<needed, frameLength, continued, data, sentClose, secKey, sent, starts,
                   delivered, handled, page, out, forwarded, outside>>

\* The state after a request that is not a websocket's: only a static server has
\* it kept alive.
AfterRequest(o) == IF o.server THEN "request" ELSE "closed"

\* my->is_websocket after ws_read_headers; a key of an earlier request counts.
IsWebsocket(r) == r.upgrade /\ (r.key \/ secKey)

\* The replies, as those to item n.
Replied(replies, n) ==
    [i \in DOMAIN replies |->
        [field \in DOMAIN replies[i] \cup {"of"} |->
            IF field = "of" THEN n ELSE replies[i][field]]]

\* ws_recv_headers, with on_http_request, and on_upgrade for a websocket.  It waits
\* for all headers; at one that begins with a blank ws_read_headers breaks off, and
\* the rest stays in the buffer.
RecvHeaders ==
    /\ looping /\ state = "headers"
    /\ IF Unread < 2 + FoldUnits(Current)
       THEN Waits /\ UNCHANGED <<state, secKey, consumed, handled, page, out, servers, fault>>
       ELSE LET r == Current IN
            /\ consumed' = consumed + 2 /\ handled' = handled + 1
            /\ secKey' = (secKey \/ r.key)
            /\ \E o \in OnHttpRequest(r, IsWebsocket(r), frontend), upgrades \in BOOLEAN :
                /\ upgrades => IsWebsocket(r) /\ o.fault = "none"
                /\ out' = out \o Replied(o.replies, handled')
                           \o (IF upgrades THEN <<Reply("UPGRADE", handled')>> ELSE <<>>)
                /\ page' = o.page
                /\ servers' = IF o.server THEN servers \cup {handled'} ELSE servers
                /\ fault' = IF o.fault = "none" /\ IsWebsocket(r) /\ ~upgrades
                            THEN "send" ELSE o.fault
                /\ GoesTo(IF fault' # "none" THEN "error"
                          ELSE IF upgrades THEN "frame_length" ELSE AfterRequest(o))
    /\ UNCHANGED <<needed, frameLength, continued, data, sentClose, sent, starts, delivered,
                   forwarded, frontend>>

\* ws_recv_loop at the rest of such a request: for a frame, a blank is a reserved
\* flag; for a request, fields are missing, or it is handled as a request that
\* nobody sent.  (That it is folded again, or asks for an upgrade, is left out.)
RecvStray ==
    /\ looping /\ Astray
    /\ \/ /\ GoesTo("error")
          /\ UNCHANGED <<consumed, page, out, fault>>
       \/ /\ state = "request" /\ consumed' = starts[handled + 1]
          /\ \E r \in {q \in Requests : ~q.upgrade /\ ~q.key /\ ~q.fold /\ q.method # "BAD"} :
             \E o \in OnHttpRequest(r, FALSE, frontend) :
                /\ out' = out \o Replied(o.replies, 0)
                /\ page' = o.page /\ fault' = o.fault
                /\ GoesTo(IF o.fault # "none" THEN "error" ELSE AfterRequest(o))
    /\ UNCHANGED <<needed, frameLength, continued, data, sentClose, secKey, sent, starts,
                   delivered, handled, forwarded, frontend, servers>>

\* ws_read_frame_length refuses a frame by its head.
Refused(f) ==
    \/ f.op = "BAD"
    \/ f.op \in Control /\ (~f.fin \/ f.ext = 1)
    \/ f.op = "CONTINUATION" /\ continued = None
    \/ f.op \in {"TEXT", "BINARY"} /\ continued # None

\* needed_length, or 0 if the length of the frame can be read.
Needs(f) ==
    IF Unread < HeadUnits THEN HeadUnits
    ELSE IF Unread < HeadUnits + f.ext THEN HeadUnits + f.ext ELSE 0

\* (slip) without the extended length.
FrameLengthShort(f) == HeadUnits + f.body

\* frame_length.
FrameLength(f) == HeadUnits + f.ext + f.body

\* ws_recv_frame_length.
RecvFrameLength ==
    /\ looping /\ state = "frame_length" /\ ~Astray
    /\ IF Unread >= HeadUnits /\ Refused(Current)
       THEN /\ needed' = 0 /\ frameLength' = 0
            /\ UNCHANGED consumed /\ GoesTo("error")
       ELSE /\ needed' = Needs(Current)
            /\ frameLength' = IF needed' = 0 THEN FrameLength(Current) ELSE 0
            /\ UNCHANGED consumed
            /\ IF needed' # 0 THEN Waits /\ UNCHANGED state ELSE GoesTo("frame")
    /\ UNCHANGED <<continued, data, sentClose, secKey, sent, starts, delivered, handled, page,
                   out, forwarded, outside>>

\* A frame is sent, or the connection is broken.
Sends(op) == {SendFrame(Replies, op, handled + 1, TRUE), Broken}

\* iwdp_on_frame for the payloads of the message so far: what may come of it.  A
\* pong returns all the payloads; they may be too long if there is more than its own.
OnFrame(op, f, payloads) ==
    CASE op \in {"TEXT", "BINARY"} /\ ~f.fin -> {Replies}
      [] op \in {"TEXT", "BINARY"} /\ f.fin /\ f.masked /\ page ->
            {[Replies EXCEPT !.forwarded = Append(@, payloads)], Broken}
      [] op \in {"TEXT", "BINARY"} /\ f.fin /\ ~(f.masked /\ page) -> Sends("CLOSE")
      [] op = "CLOSE" -> Sends("CLOSE")
      [] op = "PING" -> Sends("PONG") \cup
            {[Replies EXCEPT !.fault = "refused"] : i \in 2..Len(payloads)}
      [] op = "PONG" -> {Replies}

\* (slip) the payloads stay until should_keep is false.
DataAfterKept(f, payloads) == payloads

\* The payloads that are kept.
DataAfter(f, payloads) == IF f.fin THEN <<>> ELSE payloads

\* (slip) continued_opcode is not cleared by the last frame.
ContinuedAfterStuck(f, op) == IF f.fin THEN continued ELSE op

\* continued_opcode after a frame.
ContinuedAfter(f, op) == IF f.fin THEN None ELSE op

\* ws_read_frame refuses the payload: each frame of a text is tested by itself, so
\* also one that begins inside a character.
NotText(f, op) == op = "TEXT" /\ ~f.utf8

\* ws_recv_frame, with ws_read_frame and on_frame.
RecvFrame ==
    /\ looping /\ state = "frame"
    /\ IF needed # 0 \/ frameLength = 0 \/ Unread < frameLength
       THEN /\ Waits
            /\ UNCHANGED <<state, continued, data, sentClose, consumed, handled, out,
                           forwarded, fault>>
       ELSE LET f == Current
                op == IF f.op = "CONTINUATION" THEN continued ELSE f.op
                payloads == Append(data, handled + 1) IN
            /\ consumed' = consumed + frameLength
            /\ IF NotText(f, op)
               THEN /\ GoesTo("error")
                    /\ UNCHANGED <<continued, data, sentClose, handled, out, forwarded, fault>>
               ELSE \E r \in OnFrame(op, f, payloads) :
                    /\ out' = r.out /\ sentClose' = r.sentClose /\ forwarded' = r.forwarded
                    /\ handled' = handled + 1 /\ fault' = r.fault
                    /\ IF r.fault = "none"
                       THEN /\ data' = DataAfter(f, payloads)
                            /\ continued' = ContinuedAfter(f, op)
                            /\ GoesTo(IF op = "CLOSE" THEN "closed" ELSE "frame_length")
                       ELSE /\ data' = payloads /\ UNCHANGED continued
                            /\ GoesTo("error")
    /\ UNCHANGED <<needed, frameLength, secKey, sent, starts, delivered, page, frontend, servers>>

Next ==
    \/ \E item \in Requests \cup Frames : ClientSends(item)
    \/ \E n \in 1..(MaxItems * (HeadUnits + 2)) : OnRecv(n)
    \/ LosesPage
    \/ DeviceSendsData
    \/ \E n \in servers : ServerSends(n) \/ ServerEnds(n)
    \/ RecvRequest \/ RecvHeaders \/ RecvStray \/ RecvFrameLength \/ RecvFrame

Spec == Init /\ [][Next]_vars

-----------------------------------------------------------------------------

\* However the input is cut, requests and frames are handled whole, each once and
\* in order, and as soon as the last unit of one is there; no unit of one is skipped or
\* read as another's.  The one exception is left out of unread here: what follows a
\* header that begins with a blank counts as handled with its request, while the code
\* reads it as a request or frame of its own (RecvStray).  The end of a request's line
\* is kept for its headers.  LineRead is how far in_head is from the start of an item.
LineRead == IF state = "headers" THEN LineUnits - 1 ELSE IF Astray THEN -1 ELSE 0
Framed == INSTANCE FramedStream WITH
    Sizes <- {Units(item) : item \in Requests \cup Frames},
    arrived <- delivered,
    unread <- IF state \in {"closed", "error"} THEN <<>>
              ELSE [i \in 1..(delivered - (consumed - LineRead)) |-> consumed - LineRead + i],
    busy <- looping,
    open <- state \notin {"closed", "error"}
FramedSpec == Framed!Spec

\* Those of the replies s that are to item n, in their order.
RepliesTo(s, n) ==
    LET upTo[i \in 0..Len(s)] ==
            IF i = 0 THEN <<>>
            ELSE IF s[i].of = n THEN Append(upTo[i - 1], s[i]) ELSE upTo[i - 1]
    IN  upTo[Len(s)]

\* What was sent to the client for its item n.
AnswerTo(n) == RepliesTo(out, n)

IsRequest(n) == sent[n].kind = "request"

\* Request n is a websocket's: it has a key, or an earlier one has.
AsksWebsocket(n) == sent[n].upgrade /\ \E i \in 1..n : IsRequest(i) /\ sent[i].key

\* Request n may be answered by a static server.
ForServer(n) == frontend = "http" /\ sent[n].resource \in {"page", "static"}

\* A status with all that it declares: nothing if the client asked for the head.
IsWhole(answer, method) ==
    /\ answer # <<>> /\ answer[1].op \in {"200", "403", "404", "500"}
    /\ \A i \in 2..Len(answer) : answer[i].op = "BLOCK"
    /\ Len(answer) - 1 + answer[1].body = IF method = "HEAD" THEN 0 ELSE answer[1].declares

\* A status and its content, or the data of a static server and nothing else; for a
\* websocket the upgrade, after a whole refusal if there is no such page.
IsAnswered(n) ==
    LET answer == AnswerTo(n) IN
    IF AsksWebsocket(n)
    THEN /\ answer # <<>> /\ Last(answer).op = "UPGRADE"
         /\ Len(answer) > 1 => IsWhole(Front(answer), sent[n].method)
    ELSE \/ IsWhole(answer, sent[n].method)
         \/ ForServer(n) /\ \A i \in 1..Len(answer) : answer[i].op = "RELAYED"

\* A request that was handled, on a connection that did not fail, has one answer and
\* a whole one.  Nothing is sent for what was not handled yet.  (What is sent for the
\* rest of a folded request, which nobody sent as a request, is no answer to one.)
AnswersWhole ==
    /\ \A i \in 1..Len(out) : out[i].of <= handled
    /\ state # "error" => \A n \in 1..handled : IsRequest(n) => IsAnswered(n)

IsData(i) == sent[i].kind = "frame" /\ sent[i].op \notin Control

\* After item n a message is open: the last data frame was not its last.
OpenAfter(n) ==
    \E i \in 1..n : IsData(i) /\ ~sent[i].fin /\ \A j \in (i + 1)..n : ~IsData(j)

\* The items of s are the frames of one message.
IsMessage(s) ==
    /\ \A i \in s : IsData(i) /\ (sent[i].fin <=> \A j \in s : j <= i)
    /\ \A i \in s : (sent[i].op # "CONTINUATION") <=> \A j \in s : i <= j
    /\ \A i, j \in s : \A k \in i..j : IsData(k) => k \in s

\* "wait for full data": what the device gets are messages of the client, each
\* whole, with its own payloads in their order, and the messages in the order in
\* which they were sent, whatever fragments, pings and errors come in between.
MessagesWhole ==
    /\ \A i \in 1..Len(forwarded) :
        /\ IsMessage({forwarded[i][j] : j \in 1..Len(forwarded[i])})
        /\ \A j \in 1..(Len(forwarded[i]) - 1) : forwarded[i][j] < forwarded[i][j + 1]
    /\ \A i \in 1..(Len(forwarded) - 1) : forwarded[i][1] < forwarded[i + 1][1]

\* Frame n is what a websocket client may send after those before it.
Permitted(n) ==
    LET f == sent[n] IN
    /\ f.op # "BAD"
    /\ f.op \in Control => f.fin /\ f.ext = 0
    /\ f.op = "CONTINUATION" => OpenAfter(n - 1)
    /\ f.op \in {"TEXT", "BINARY"} => ~OpenAfter(n - 1)

\* Frame n is of a text message, and its own payload is not UTF-8.
BadText(n) ==
    /\ ~sent[n].utf8
    /\ \E i \in 1..n : /\ sent[i].kind = "frame" /\ sent[i].op = "TEXT"
                      /\ \A j \in (i + 1)..n : sent[j].op = "CONTINUATION"

\* A control frame came between the fragments of a message.
Interrupted(n) == \E i \in 2..n : sent[i].kind = "frame" /\ sent[i].op \in Control /\ OpenAfter(i - 1)

\* A connection ends by an error only if its client sent what a client may not
\* send, if a close frame was sent to it before, or if a send, a file or a server
\* failed.  Three things count among them that a client may well send: a ping inside
\* a fragmented message, which then is lost and its rest refused, as the pong clears
\* continued_opcode and data; a text cut inside a character, as each fragment is
\* tested for UTF-8 by itself; and a header folded over two lines.
OnlyFaultsEnd ==
    state = "error" =>
        \/ sentClose
        \/ fault \in {"send", "file", "device", "server"}
        \/ \E i \in 1..Len(sent) : sent[i].kind = "request" /\ (sent[i].method = "BAD" \/ sent[i].fold)
        \/ \E i \in 1..Len(sent) :
            sent[i].kind = "frame" /\ (~Permitted(i) \/ Interrupted(i) \/ BadText(i))

\* No frame is sent after a close frame: neither data of the device, nor a pong,
\* nor another close frame.  (What a static server still sends is relayed.)
CloseIsLast ==
    \A i, j \in 1..Len(out) : i < j /\ out[i].op = "CLOSE" => out[j].op = "RELAYED"
=============================================================================
