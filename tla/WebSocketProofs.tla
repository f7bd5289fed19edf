--------------------------- MODULE WebSocketProofs ---------------------------
(***************************************************************************)
(* Theorems about the websocket of a client, for any requests and frames,  *)
(* however many and however cut.  Everything follows from one inductive    *)
(* invariant, IInv: the types; Position, where the parser is in the input; *)
(* Phase, that requests come first, then an upgrade, then frames; Closes;  *)
(* LengthRead, that the frame whose length was read was not refused;       *)
(* Fragments, which items the payloads in data are; Forwards; and Errors,  *)
(* that continued_opcode says whether a message is open unless a control   *)
(* frame came inside one.                                                  *)
(*                                                                         *)
(* The lemmas follow the model: the input, what is sent, the handlers that *)
(* read no item to its end, then requests, then frames; then FramedSpec;   *)
(* and at last the answers, with an invariant of their own, Answers, and   *)
(* lemmas about RepliesTo for every sequence.                              *)
(***************************************************************************)
EXTENDS WebSocket, SequenceTheorems, WellFoundedInduction, TLAPS

\* What may be sent to the client: frames and relayed data, or the head of an answer.
Outs == [op : {"UPGRADE", "CLOSE", "PONG", "TEXT", "CONTINUATION", "RELAYED", "BLOCK"}, of : Nat]
        \cup [op : {"200", "403", "404", "500"}, declares : Nat, body : {0, 1}, of : Nat]

\* The states of ws_recv_loop.
InRequest == state \in {"request", "headers"}
InFrame == state \in {"frame_length", "frame"}
Live == InRequest \/ InFrame

\* The types of the variables.
Types ==
    /\ state \in {"request", "headers", "frame_length", "frame", "closed", "error"}
    /\ needed \in Nat /\ frameLength \in Nat /\ continued \in {None, "TEXT", "BINARY"}
    /\ data \in Seq(Nat) /\ sentClose \in BOOLEAN /\ secKey \in BOOLEAN
    /\ sent \in Seq(Requests \cup Frames) /\ starts \in Seq(Nat)
    /\ delivered \in Nat /\ consumed \in Nat /\ handled \in Nat
    /\ page \in BOOLEAN /\ looping \in BOOLEAN /\ (looping => Live)
    /\ out \in Seq(Outs) /\ forwarded \in Seq(Seq(Nat))

\* The parser is at the start of an item, or at the end of its first line.
Position ==
    /\ Len(starts) = Len(sent) + 1
    /\ \A i \in 1..Len(sent) : starts[i + 1] = starts[i] + Units(sent[i])
    /\ handled <= Len(sent) /\ delivered <= starts[Len(sent) + 1]
    /\ Live => consumed = starts[handled + 1] + LineRead

\* Item i is a frame.
IsFrame(i) == sent[i].kind = "frame"

\* Requests come first, then one that asks for an upgrade, then frames.
Phase ==
    /\ Live => (Upgraded <=> InFrame)
    /\ ~Upgraded => /\ \A i \in 1..Len(sent) : ~IsFrame(i)
                    /\ \A i \in 1..(Len(sent) - 1) : ~sent[i].upgrade
    /\ InFrame => \A i \in (handled + 1)..Len(sent) : IsFrame(i)

\* A close frame is noted, and was not sent before the upgrade.
Closes ==
    /\ InRequest => ~sentClose
    /\ (\E i \in 1..Len(out) : out[i].op = "CLOSE") => sentClose
    /\ CloseIsLast

\* The frame whose length was read.
LengthRead ==
    state = "frame" =>
        /\ needed = 0 /\ handled < Len(sent) /\ ~Astray
        /\ ~Refused(Current) /\ frameLength = FrameLength(Current)

\* The items before the fragments that are kept.
Before == handled - Len(data)

\* The fragments that are kept are the last items that were handled, and begin a message.
Fragments ==
    /\ InRequest => data = <<>>
    /\ Live => /\ continued = None <=> data = <<>>
               /\ continued # None => continued = sent[Before + 1].op
               /\ Len(data) <= handled
               /\ \A k \in 1..Len(data) : data[k] = Before + k
               /\ \A i \in (Before + 1)..handled :
                    /\ IsData(i) /\ ~sent[i].fin
                    /\ sent[i].op # "CONTINUATION" <=> i = Before + 1

\* What was forwarded is before the fragments that are kept, and whole.
Forwards ==
    /\ \A i \in 1..Len(forwarded) :
        /\ forwarded[i] # <<>>
        /\ \A j \in 1..Len(forwarded[i]) : forwarded[i][j] \in 1..Len(sent)
        /\ Live => forwarded[i][1] <= Before
    /\ MessagesWhole

\* The client sent a frame that it may not send, a control frame inside a message, or
\* a frame of a text that is not UTF-8 by itself.
Trouble ==
    \E i \in 1..Len(sent) : IsFrame(i) /\ (~Permitted(i) \/ Interrupted(i) \/ BadText(i))

\* Without such trouble, continued_opcode says whether a message is open.
Errors ==
    /\ Live => Trouble \/ (OpenAfter(handled) <=> continued # None)
    /\ OnlyFaultsEnd

\* What is true of the connection.
Session == Types /\ Position /\ Phase /\ Closes /\ LengthRead /\ Fragments /\ Forwards /\ Errors

\* The items that static servers answer are numbers.
Served == servers \subseteq Nat

\* The inductive invariant.
IInv == Session /\ Served

-----------------------------------------------------------------------------
(* What a client sends.                                                      *)

\* An item is a request of three units, or of four if it is folded, or a frame of its
\* frame_length.
LEMMA Items ==
    ASSUME NEW item \in Requests \cup Frames
    PROVE  /\ item.kind \in {"request", "frame"}
           /\ item.kind = "request" =>
                /\ Units(item) = 3 + FoldUnits(item) /\ FoldUnits(item) \in {0, 1}
                /\ item.upgrade \in BOOLEAN /\ item.key \in BOOLEAN /\ item.fold \in BOOLEAN
           /\ item.kind = "frame" =>
                /\ Units(item) = FrameLength(item) /\ item.fin \in BOOLEAN
                /\ item.op \in {"TEXT", "BINARY", "CONTINUATION", "CLOSE", "PING", "PONG", "BAD"}
                /\ item.ext \in {0, 1} /\ item.body \in {0, 1} /\ item.utf8 \in BOOLEAN
           /\ Units(item) \in Nat
<1>1. CASE item \in Requests
  BY <1>1, RequestsAssumption DEF Units, LineUnits, FoldUnits
<1>2. CASE item \in Frames
  BY <1>2, FramesAssumption DEF Units, FrameLength, HeadUnits
<1> QED BY <1>1, <1>2

\* A sequence with one element more.
LEMMA SentOn ==
    ASSUME NEW T, NEW q \in Seq(T), NEW m \in T, NEW p, p = Append(q, m)
    PROVE  /\ p \in Seq(T) /\ Len(p) = Len(q) + 1 /\ Len(q) \in Nat
           /\ p[Len(q) + 1] = m /\ \A i \in 1..Len(q) : p[i] = q[i]
BY AppendProperties, LenProperties

\* What is said of the first items stays true when others follow.
LEMMA ItemsStay ==
    ASSUME NEW k \in Nat, \A i \in 1..k : sent'[i] = sent[i]
    PROVE  /\ \A i \in 1..k : IsFrame(i)' = IsFrame(i) /\ IsData(i)' = IsData(i)
           /\ \A i \in 0..k : OpenAfter(i)' = OpenAfter(i)
           /\ \A i \in 1..k : /\ Permitted(i)' = Permitted(i)
                              /\ Interrupted(i)' = Interrupted(i)
                              /\ BadText(i)' = BadText(i)
           /\ \A s \in SUBSET (1..k) : IsMessage(s) => IsMessage(s)'
<1>1. \A i \in 1..k : IsFrame(i)' = IsFrame(i) /\ IsData(i)' = IsData(i)
  BY DEF IsFrame, IsData
<1>2. ASSUME NEW n \in 0..k PROVE OpenAfter(n)' = OpenAfter(n)
  <2>1. \A i \in 1..n : i \in 1..k /\ \A j \in (i + 1)..n : j \in 1..k
    OBVIOUS
  <2> QED BY <1>1, <2>1 DEF OpenAfter
<1>3. ASSUME NEW n \in 1..k PROVE Permitted(n)' = Permitted(n)
  BY <1>2 DEF Permitted
<1>4. ASSUME NEW n \in 1..k PROVE Interrupted(n)' = Interrupted(n)
  <2>1. \A i \in 2..n : i \in 1..k /\ i - 1 \in 0..k
    OBVIOUS
  <2> QED BY <1>2, <2>1 DEF Interrupted
<1>5. ASSUME NEW s \in SUBSET (1..k), IsMessage(s) PROVE IsMessage(s)'
  <2>1. \A i, j \in s : \A m \in i..j : m \in 1..k
    OBVIOUS
  <2> QED BY <1>1, <1>5, <2>1 DEF IsMessage
<1>6. ASSUME NEW n \in 1..k PROVE BadText(n)' = BadText(n)
  <2>1. \A i \in 1..n : i \in 1..k /\ \A j \in (i + 1)..n : j \in 1..k
    OBVIOUS
  <2> QED BY <2>1 DEF BadText
<1> QED BY <1>1, <1>2, <1>3, <1>4, <1>5, <1>6

-----------------------------------------------------------------------------
(* What is kept when little changes.                                         *)

\* The items stay: what was forwarded and what went wrong is as it was.
LEMMA TroubleStays ==
    ASSUME Types, sent' = sent
    PROVE  /\ Trouble' = Trouble
           /\ \A i \in 0..Len(sent) : OpenAfter(i)' = OpenAfter(i)
<1>1. Len(sent) \in Nat /\ \A i \in 1..Len(sent) : sent'[i] = sent[i]
  BY LenProperties DEF Types
<1>2. /\ \A i \in 1..Len(sent) : IsFrame(i)' = IsFrame(i)
      /\ \A i \in 0..Len(sent) : OpenAfter(i)' = OpenAfter(i)
      /\ \A i \in 1..Len(sent) : /\ Permitted(i)' = Permitted(i)
                                 /\ Interrupted(i)' = Interrupted(i)
                                 /\ BadText(i)' = BadText(i)
  BY <1>1, ItemsStay
<1> QED BY <1>2 DEF Trouble

\* The messages forwarded are the client's, also when it sends more.
LEMMA ForwardsStay ==
    ASSUME Types, Forwards, forwarded' = forwarded, NEW k \in Nat, k = Len(sent),
           Len(sent') >= k, Len(sent') \in Nat, \A i \in 1..k : sent'[i] = sent[i],
           Live' => Live /\ Before <= Before', Before \in Int, Before' \in Int
    PROVE  Forwards'
<1>1. /\ \A s \in SUBSET (1..k) : IsMessage(s) => IsMessage(s)'
      /\ forwarded \in Seq(Seq(Nat))
  BY ItemsStay DEF Types
<1>2. ASSUME NEW i \in 1..Len(forwarded)
      PROVE  /\ forwarded[i] # <<>>
             /\ \A j \in 1..Len(forwarded[i]) : forwarded[i][j] \in 1..Len(sent')
             /\ Live' => forwarded[i][1] <= Before'
  <2>1. forwarded[i] \in Seq(Nat) /\ forwarded[i] # <<>>
    BY <1>1, ElementOfSeq DEF Forwards
  <2>2. forwarded[i][1] \in Nat
    BY <2>1
  <2> QED BY <2>1, <2>2 DEF Forwards
<1>3. ASSUME NEW i \in 1..Len(forwarded), NEW s, s = {forwarded[i][j] : j \in 1..Len(forwarded[i])}
      PROVE  IsMessage(s)'
  <2>1. s \in SUBSET (1..k)
    BY <1>3 DEF Forwards
  <2>2. IsMessage(s)
    BY <1>3 DEF Forwards, MessagesWhole
  <2> QED BY <1>1, <2>1, <2>2
<1>4. ASSUME NEW i \in 1..Len(forwarded)
      PROVE  IsMessage({forwarded[i][j] : j \in 1..Len(forwarded[i])})'
  <2>1. PICK s : s = {forwarded[i][j] : j \in 1..Len(forwarded[i])}
    OBVIOUS
  <2>2. s = {forwarded'[i][j] : j \in 1..Len(forwarded'[i])}
    BY <2>1
  <2>3. IsMessage(s)'
    BY <1>3, <2>1
  <2> QED BY <2>2, <2>3
<1>5. MessagesWhole'
  BY <1>4 DEF Forwards, MessagesWhole
<1> QED BY <1>2, <1>5 DEF Forwards

-----------------------------------------------------------------------------
(* The client and the device.                                                *)

\* The types as numbers and lengths.
LEMMA Facts ==
    ASSUME Types, Position
    PROVE  /\ Len(sent) \in Nat /\ Len(out) \in Nat /\ Len(data) \in Nat
           /\ Len(forwarded) \in Nat /\ Len(starts) = Len(sent) + 1
           /\ \A i \in 1..Len(sent) : sent[i] \in Requests \cup Frames
           /\ \A i \in 1..(Len(sent) + 1) : starts[i] \in Nat
           /\ handled \in 0..Len(sent) /\ Before \in Int
<1>1. /\ Len(sent) \in Nat /\ Len(out) \in Nat /\ Len(data) \in Nat /\ Len(forwarded) \in Nat
      /\ \A i \in 1..Len(sent) : sent[i] \in Requests \cup Frames
      /\ \A i \in 1..Len(starts) : starts[i] \in Nat
  BY LenProperties, ElementOfSeq DEF Types
<1>2. Len(starts) = Len(sent) + 1 /\ handled <= Len(sent) /\ handled \in Nat
  BY DEF Types, Position
<1>3. Before \in Int
  BY <1>1, <1>2 DEF Before
<1> QED BY <1>1, <1>2, <1>3

\* What the client sends comes after where the parser is.
LEMMA SendsBehind ==
    ASSUME Types, Position, NEW item \in Requests \cup Frames, ClientSends(item)
    PROVE  /\ Astray' <=> Astray
           /\ starts'[handled' + 1] = starts[handled + 1] /\ handled' = handled
<1>1. /\ Len(sent) \in Nat /\ Len(starts) = Len(sent) + 1 /\ handled \in 0..Len(sent)
      /\ sent \in Seq(Requests \cup Frames) /\ starts \in Seq(Nat)
      /\ starts[Len(starts)] \in Nat /\ Units(item) \in Nat
  BY Facts, Items DEF Types
<1>2. /\ sent' = Append(sent, item) /\ handled' = handled /\ consumed' = consumed
      /\ starts' = Append(starts, starts[Len(starts)] + Units(item))
  BY DEF ClientSends
<1>3. \A i \in 1..Len(sent) : sent'[i] = sent[i]
  BY <1>1, <1>2, SentOn
<1>4. \A i \in 1..Len(starts) : starts'[i] = starts[i]
  <2>1. starts[Len(starts)] + Units(item) \in Nat
    BY <1>1
  <2> QED BY <2>1, <1>1, <1>2, SentOn
<1>5. handled + 1 \in 1..Len(starts) /\ (handled > 0 => handled \in 1..Len(sent))
  BY <1>1
<1> QED BY <1>2, <1>3, <1>4, <1>5 DEF Astray

\* The client sends a request or a frame.
LEMMA StepClientSends ==
    ASSUME Session, NEW item \in Requests \cup Frames, ClientSends(item)
    PROVE  Session'
<1>1. Types /\ Position /\ Phase /\ Closes /\ LengthRead /\ Fragments /\ Forwards /\ Errors
  BY DEF Session
<1>2. PICK k : k = Len(sent)
  OBVIOUS
<1>3. /\ k \in Nat /\ Len(starts) = k + 1 /\ handled \in 0..k /\ starts[k + 1] \in Nat
      /\ sent \in Seq(Requests \cup Frames) /\ starts \in Seq(Nat) /\ Before \in Int
  BY <1>1, <1>2, Facts DEF Types
<1>4. /\ UNCHANGED <<state, needed, frameLength, continued, data, sentClose, secKey, delivered,
                     consumed, handled, looping, page, out, forwarded, fault>>
      /\ sent' = Append(sent, item)
      /\ starts' = Append(starts, starts[k + 1] + Units(item))
      /\ state \notin {"closed", "error"}
      /\ item.kind = "frame" <=> Upgraded
      /\ item.kind = "request" => \A i \in 1..k : ~sent[i].upgrade
  BY <1>2, <1>3 DEF ClientSends, parser, outside
<1>5. /\ item.kind \in {"request", "frame"} /\ Units(item) \in Nat
      /\ starts[k + 1] + Units(item) \in Nat
  BY <1>3, Items
<1>6. /\ sent' \in Seq(Requests \cup Frames) /\ Len(sent') = k + 1
      /\ sent'[k + 1] = item /\ \A i \in 1..k : sent'[i] = sent[i]
  BY <1>2, <1>3, <1>4, SentOn
<1>7. /\ starts' \in Seq(Nat) /\ Len(starts') = k + 2
      /\ starts'[k + 2] = starts[k + 1] + Units(item)
      /\ \A i \in 1..(k + 1) : starts'[i] = starts[i]
  BY <1>3, <1>4, <1>5, SentOn
<1>8. Types'
  BY <1>1, <1>4, <1>6, <1>7 DEF Types, Live, InRequest, InFrame
<1>17. Astray' <=> Astray
  BY <1>1, SendsBehind
<1>9. Position'
  <2>1. \A i \in 1..k : starts[i + 1] = starts[i] + Units(sent[i])
    BY <1>1, <1>2 DEF Position
  <2>2. \A i \in 1..(k + 1) : starts'[i + 1] = starts'[i] + Units(sent'[i])
    <3>1. ASSUME NEW i \in 1..k PROVE starts'[i + 1] = starts'[i] + Units(sent'[i])
      <4>1. i + 1 \in 1..(k + 1) /\ i \in 1..(k + 1) /\ sent'[i] = sent[i]
        BY <1>3, <1>6
      <4>2. starts'[i + 1] = starts[i + 1] /\ starts'[i] = starts[i]
        BY <4>1, <1>7
      <4> QED BY <2>1, <4>1, <4>2
    <3>2. starts'[(k + 1) + 1] = starts'[k + 1] + Units(sent'[k + 1])
      BY <1>3, <1>6, <1>7
    <3> QED BY <3>1, <3>2, <1>3
  <2>3. delivered <= starts[k + 1] /\ (Live => consumed = starts[handled + 1] + LineRead)
    BY <1>1, <1>2 DEF Position
  <2>4. handled + 1 \in 1..(k + 1) /\ delivered \in Nat
    BY <1>1, <1>3 DEF Types
  <2>5. delivered' <= starts'[k + 2]
    BY <2>3, <2>4, <1>3, <1>4, <1>5, <1>7
  <2>6. Live' => consumed' = starts'[handled' + 1] + LineRead'
    BY <2>3, <2>4, <1>4, <1>7, <1>17 DEF Live, InRequest, InFrame, LineRead, LineUnits
  <2>7. \A i \in 1..(k + 1) : starts'[i + 1] = starts'[i] + Units(sent[i])'
    BY <2>2 DEF Units, LineUnits, HeadUnits, FoldUnits
  <2> QED BY <2>5, <2>6, <2>7, <1>3, <1>4, <1>6, <1>7 DEF Position
<1>10. Phase'
  <2>1. Upgraded' <=> Upgraded
    BY <1>4 DEF Upgraded
  <2>2. Live => (Upgraded <=> InFrame)
    BY <1>1 DEF Phase
  <2>3. ASSUME ~Upgraded PROVE \A i \in 1..(k + 1) : ~IsFrame(i)'
    BY <2>3, <1>1, <1>2, <1>3, <1>4, <1>6 DEF Phase, IsFrame
  <2>4. ASSUME ~Upgraded PROVE \A i \in 1..k : ~sent'[i].upgrade
    BY <2>4, <1>4, <1>5, <1>6
  <2>5. ASSUME InFrame PROVE \A i \in (handled + 1)..(k + 1) : IsFrame(i)'
    BY <2>5, <2>2, <1>1, <1>2, <1>3, <1>4, <1>6 DEF Phase, IsFrame, Live
  <2> QED BY <2>1, <2>2, <2>3, <2>4, <2>5, <1>3, <1>4, <1>6
          DEF Phase, Live, InRequest, InFrame
<1>11. Closes'
  BY <1>1, <1>4 DEF Closes, InRequest, CloseIsLast
<1>12. LengthRead'
  <2>1. ASSUME state = "frame"
        PROVE  /\ needed = 0 /\ handled < k /\ ~Astray /\ ~Refused(Current)
               /\ frameLength = FrameLength(Current) /\ Current' = Current
    BY <2>1, <1>1, <1>2, <1>3, <1>4, <1>6 DEF LengthRead, Current
  <2> QED BY <2>1, <1>3, <1>4, <1>6, <1>17 DEF LengthRead, Refused, FrameLength, HeadUnits
<1>13. \A i \in 1..k : IsFrame(i)' = IsFrame(i) /\ IsData(i)' = IsData(i)
  BY <1>3, <1>6, ItemsStay
<1>14. Fragments'
  <2>1. ASSUME Live, NEW i \in (Before + 1)..handled PROVE i \in 1..k
    <3>1. Len(data) \in Nat /\ Len(data) <= handled
      BY <2>1, <1>1, Facts DEF Fragments
    <3> QED BY <3>1, <1>3 DEF Before
  <2>2. Before' = Before
    BY <1>4 DEF Before
  <2>3. ASSUME Live, continued # None PROVE continued = sent'[Before + 1].op
    <3>1. data # <<>> /\ data \in Seq(Nat) /\ continued = sent[Before + 1].op
      BY <2>3, <1>1 DEF Fragments, Types
    <3>2. Len(data) \in Nat /\ Len(data) # 0
      BY <3>1, EmptySeq
    <3>3. Before + 1 \in (Before + 1)..handled
      BY <3>2, <1>3 DEF Before
    <3> QED BY <3>1, <3>3, <2>1, <2>3, <1>6
  <2> QED BY <2>1, <2>2, <2>3, <1>1, <1>4, <1>6, <1>13 DEF Fragments, Live, InRequest, InFrame
<1>15. Forwards'
  <2>1. Before' = Before /\ Live' = Live
    BY <1>4 DEF Before, Live, InRequest, InFrame
  <2>2. /\ Types /\ Forwards /\ forwarded' = forwarded /\ k = Len(sent)
        /\ Len(sent') >= k /\ Len(sent') \in Nat
    BY <1>1, <1>2, <1>3, <1>4, <1>6
  <2>3. /\ Live' => Live /\ Before <= Before'
        /\ Before \in Int /\ Before' \in Int
    BY <2>1, <1>3
  <2> QED BY <2>2, <2>3, <1>3, <1>6, ForwardsStay
<1>16. Errors'
  <2>1. /\ \A i \in 0..k : OpenAfter(i)' = OpenAfter(i)
        /\ \A i \in 1..k : /\ Permitted(i)' = Permitted(i)
                           /\ Interrupted(i)' = Interrupted(i)
                           /\ BadText(i)' = BadText(i)
    BY <1>3, <1>6, ItemsStay
  <2>2. ASSUME Trouble PROVE Trouble'
    <3>1. PICK i \in 1..k : IsFrame(i) /\ (~Permitted(i) \/ Interrupted(i) \/ BadText(i))
      BY <2>2, <1>2, <1>3, <1>6 DEF Trouble
    <3>2. /\ IsFrame(i)' /\ (~Permitted(i)' \/ Interrupted(i)' \/ BadText(i)')
          /\ i \in 1..Len(sent')
      BY <2>1, <1>3, <1>6, <1>13, <3>1
    <3> QED BY <3>2 DEF Trouble
  <2> QED BY <2>1, <2>2, <1>1, <1>3, <1>4 DEF Errors, OnlyFaultsEnd, Live, InRequest, InFrame
<1> QED BY <1>8, <1>9, <1>10, <1>11, <1>12, <1>14, <1>15, <1>16 DEF Session

\* What may come of a frame that is sent, whatever its payload.
Attempts(op, of) == {SendFrame(Replies, op, of, utf8) : utf8 \in BOOLEAN} \cup {Broken}

\* A frame that is sent is noted if it closes, and none is sent after that.
LEMMA FrameSent ==
    ASSUME Types, NEW op \in {"TEXT", "CLOSE", "PONG"}, NEW of \in Nat, NEW r \in Attempts(op, of)
    PROVE  /\ r.forwarded = forwarded
           /\ \/ /\ r.fault \in {"send", "refused"} /\ r.out = out /\ r.sentClose = sentClose
                 /\ r.fault = "refused" => sentClose \/ op = "TEXT"
              \/ /\ r.fault = "none" /\ ~sentClose /\ r.sentClose = (op = "CLOSE")
                 /\ \E m \in Outs : /\ r.out = Append(out, m)
                                    /\ IF op = "TEXT" THEN m.op \in {"TEXT", "CONTINUATION"}
                                       ELSE m.op = op
<1>1. CASE r = Broken
  BY <1>1 DEF Broken, Replies
<1>2. ASSUME NEW utf8 \in BOOLEAN, r = SendFrame(Replies, op, of, utf8)
      PROVE  /\ r.forwarded = forwarded
             /\ \/ /\ r.fault \in {"send", "refused"} /\ r.out = out /\ r.sentClose = sentClose
                   /\ r.fault = "refused" => sentClose \/ op = "TEXT"
                \/ /\ r.fault = "none" /\ ~sentClose /\ r.sentClose = (op = "CLOSE")
                   /\ \E m \in Outs : /\ r.out = Append(out, m)
                                      /\ IF op = "TEXT" THEN m.op \in {"TEXT", "CONTINUATION"}
                                         ELSE m.op = op
  <2>1. PICK refused \in BOOLEAN :
            refused <=> \/ Replies.sentClose
                        \/ continued # None /\ op \notin Control /\ op # continued
                        \/ continued = None /\ op = "TEXT" /\ ~utf8
    OBVIOUS
  <2>2. PICK m : m = Reply(IF continued # None /\ op \notin Control THEN "CONTINUATION" ELSE op, of)
    OBVIOUS
  <2>3. m \in Outs /\ IF op = "TEXT" THEN m.op \in {"TEXT", "CONTINUATION"} ELSE m.op = op
    BY <2>2 DEF Reply, Outs, Control
  <2>4. Replies.sentClose = sentClose /\ sentClose \in BOOLEAN
    BY DEF Replies, Types
  <2>5. CASE refused
    <3>1. r = [Replies EXCEPT !.fault = "refused"]
      BY <1>2, <2>1, <2>5 DEF SendFrame
    <3>2. sentClose \/ op = "TEXT"
      BY <2>1, <2>4, <2>5 DEF Control
    <3> QED BY <3>1, <3>2 DEF Replies
  <2>6. CASE ~refused
    <3>1. r = [Replies EXCEPT !.out = Append(@, m), !.sentClose = (op = "CLOSE")]
      BY <1>2, <2>1, <2>2, <2>6 DEF SendFrame
    <3>2. ~sentClose
      BY <2>1, <2>4, <2>6
    <3>3. r.forwarded = forwarded /\ r.fault = "none" /\ r.out = Append(out, m)
      BY <3>1 DEF Replies
    <3>4. r.sentClose = (op = "CLOSE")
      BY <3>1 DEF Replies
    <3> QED BY <3>2, <3>3, <3>4, <2>3
  <2> QED BY <2>5, <2>6
<1> QED BY <1>1, <1>2 DEF Attempts

\* What is sent before a close frame, or relayed after it, leaves it the last.
LEMMA ClosesKept ==
    ASSUME Types, Closes, NEW m \in Outs, out' = Append(out, m),
           ~sentClose \/ m.op = "RELAYED", sentClose \/ m.op = "CLOSE" => sentClose',
           InRequest' => ~sentClose'
    PROVE  Closes'
<1>1. /\ out' \in Seq(Outs) /\ Len(out') = Len(out) + 1 /\ Len(out) \in Nat
      /\ out'[Len(out) + 1] = m /\ \A i \in 1..Len(out) : out'[i] = out[i]
  BY SentOn DEF Types
<1>2. /\ (\E i \in 1..Len(out) : out[i].op = "CLOSE") => sentClose
      /\ \A i, j \in 1..Len(out) : i < j /\ out[i].op = "CLOSE" => out[j].op = "RELAYED"
  BY DEF Closes, CloseIsLast
<1>3. \A i \in 1..Len(out') : i \in 1..Len(out) \/ i = Len(out) + 1
  BY <1>1
<1>4. (\E i \in 1..Len(out') : out'[i].op = "CLOSE") => sentClose'
  BY <1>1, <1>2, <1>3
<1>5. ASSUME NEW i \in 1..Len(out'), NEW j \in 1..Len(out'), i < j, out'[i].op = "CLOSE"
      PROVE  out'[j].op = "RELAYED"
  <2>1. i \in 1..Len(out) /\ out[i].op = "CLOSE"
    BY <1>1, <1>3, <1>5
  <2>2. sentClose
    BY <2>1, <1>2
  <2> QED BY <2>1, <2>2, <1>1, <1>2, <1>3, <1>5
<1> QED BY <1>4, <1>5 DEF Closes, CloseIsLast

\* A message more that is no upgrade changes nothing else.
LEMMA MessageSent ==
    ASSUME Session, NEW m \in Outs, out' = Append(out, m), m.op # "UPGRADE", m.op # "CLOSE",
           ~sentClose \/ m.op = "RELAYED",
           UNCHANGED <<parser, sent, starts, delivered, consumed, handled, looping, page,
                       forwarded, fault>>
    PROVE  Session'
<1>1. Types /\ Position /\ Phase /\ Closes /\ LengthRead /\ Fragments /\ Forwards /\ Errors
  BY DEF Session
<1>2. UNCHANGED <<state, needed, frameLength, continued, data, sentClose, secKey, sent, starts,
                  delivered, consumed, handled, looping, page, forwarded, fault>>
  BY DEF parser
<1>3. /\ out' \in Seq(Outs) /\ Len(out') = Len(out) + 1 /\ Len(out) \in Nat
      /\ out'[Len(out) + 1] = m /\ \A i \in 1..Len(out) : out'[i] = out[i]
  BY <1>1, SentOn DEF Types
<1>4. Types'
  BY <1>1, <1>2, <1>3 DEF Types, Live, InRequest, InFrame
<1>5. Position'
  BY <1>1, <1>2 DEF Position, Live, InRequest, InFrame, LineRead, Astray, LineUnits, Units, HeadUnits,
                    FoldUnits
<1>6. Phase'
  <2>1. Upgraded' <=> Upgraded
    <3>1. \A i \in 1..Len(out') : i \in 1..Len(out) \/ i = Len(out) + 1
      BY <1>3
    <3>2. \A i \in 1..Len(out) : i \in 1..Len(out')
      BY <1>3
    <3> QED BY <3>1, <3>2, <1>3 DEF Upgraded
  <2> QED BY <2>1, <1>1, <1>2 DEF Phase, Live, InRequest, InFrame, IsFrame
<1>7. Closes'
  BY <1>1, <1>2, ClosesKept DEF InRequest, Closes
<1>8. LengthRead'
  BY <1>1, <1>2 DEF LengthRead, Astray, Refused, Current, FrameLength, HeadUnits
<1>9. Fragments'
  BY <1>1, <1>2 DEF Fragments, Before, Live, InRequest, InFrame, IsData
<1>10. Forwards'
  <2>1. Len(sent) \in Nat /\ Before \in Int /\ Before' = Before /\ Live' = Live
    BY <1>1, <1>2, Facts DEF Before, Live, InRequest, InFrame
  <2> QED BY <2>1, <1>1, <1>2, ForwardsStay
<1>11. Errors'
  <2>1. Trouble' = Trouble /\ OpenAfter(handled)' = OpenAfter(handled)
    BY <1>1, <1>2, Facts, TroubleStays DEF Trouble, OpenAfter, IsData
  <2> QED BY <2>1, <1>1, <1>2 DEF Errors, OnlyFaultsEnd, Live, InRequest, InFrame, Permitted,
          Interrupted, BadText, OpenAfter, IsData
<1> QED BY <1>4, <1>5, <1>6, <1>7, <1>8, <1>9, <1>10, <1>11 DEF Session

\* The connection is closed: what was sent and received stays as it is.
LEMMA Closing ==
    ASSUME Session, state' = "closed", ~looping,
           UNCHANGED <<needed, frameLength, continued, data, sentClose, secKey, sent, starts,
                       delivered, consumed, handled, looping, page, out, forwarded>>
    PROVE  Session'
<1>1. Types /\ Position /\ Phase /\ Closes /\ Forwards
  BY DEF Session
<1>2. ~Live' /\ ~InRequest' /\ ~InFrame'
  BY DEF Live, InRequest, InFrame
<1>3. Types'
  BY <1>1 DEF Types
<1>4. Position'
  BY <1>1, <1>2 DEF Position, Units, LineUnits, HeadUnits, FoldUnits
<1>5. Phase'
  BY <1>1, <1>2 DEF Phase, Upgraded, IsFrame
<1>6. Closes'
  BY <1>1, <1>2 DEF Closes, CloseIsLast
<1>7. LengthRead' /\ Fragments' /\ Errors'
  BY <1>2 DEF LengthRead, Fragments, Errors, OnlyFaultsEnd
<1>8. Forwards'
  <2>1. Len(sent) \in Nat /\ Before \in Int /\ Before' = Before
    BY <1>1, Facts DEF Before
  <2> QED BY <2>1, <1>1, <1>2, ForwardsStay
<1> QED BY <1>3, <1>4, <1>5, <1>6, <1>7, <1>8 DEF Session

\* A unit is received, or the page goes.
LEMMA Receiving ==
    ASSUME Session, Types', delivered' <= starts[Len(starts)],
           UNCHANGED <<parser, sent, starts, consumed, handled, out, forwarded, fault>>
    PROVE  Session'
<1>1. Types /\ Position /\ Phase /\ Closes /\ LengthRead /\ Fragments /\ Forwards /\ Errors
  BY DEF Session
<1>2. UNCHANGED <<state, needed, frameLength, continued, data, sentClose, secKey, sent, starts,
                  consumed, handled, out, forwarded, fault>>
  BY DEF parser
<1>3. Position'
  BY <1>1, <1>2 DEF Position, Live, InRequest, InFrame, LineRead, Astray, LineUnits, Units, HeadUnits,
                    FoldUnits
<1>4. Phase'
  BY <1>1, <1>2 DEF Phase, Live, InRequest, InFrame, Upgraded, IsFrame
<1>5. Closes'
  BY <1>1, <1>2 DEF Closes, CloseIsLast, InRequest
<1>6. LengthRead'
  BY <1>1, <1>2 DEF LengthRead, Astray, Refused, Current, FrameLength, HeadUnits
<1>7. Fragments'
  BY <1>1, <1>2 DEF Fragments, Before, Live, InRequest, InFrame, IsData
<1>8. Forwards'
  <2>1. Len(sent) \in Nat /\ Before \in Int /\ Before' = Before /\ Live' = Live
    BY <1>1, <1>2, Facts DEF Before, Live, InRequest, InFrame
  <2> QED BY <2>1, <1>1, <1>2, ForwardsStay
<1>9. Errors'
  <2>1. Trouble' = Trouble /\ OpenAfter(handled)' = OpenAfter(handled)
    BY <1>1, <1>2, Facts, TroubleStays DEF OpenAfter, IsData
  <2> QED BY <2>1, <1>1, <1>2 DEF Errors, OnlyFaultsEnd, Live, InRequest, InFrame, Permitted,
          Interrupted, BadText, OpenAfter, IsData
<1> QED BY <1>3, <1>4, <1>5, <1>6, <1>7, <1>8, <1>9 DEF Session

-----------------------------------------------------------------------------
(* The handlers that read no item to its end.                                *)

\* What is not read belongs to an item that the client has begun to send.
LEMMA CurrentSent ==
    ASSUME Types, Position, Live, ~Astray, Unread >= 1
    PROVE  /\ handled < Len(sent) /\ handled + 1 \in 1..Len(sent)
           /\ Current \in Requests \cup Frames
           /\ starts[handled + 2] = starts[handled + 1] + Units(Current)
<1>1. /\ Len(sent) \in Nat /\ Len(starts) = Len(sent) + 1 /\ handled \in 0..Len(sent)
      /\ \A i \in 1..Len(sent) : sent[i] \in Requests \cup Frames
      /\ \A i \in 1..(Len(sent) + 1) : starts[i] \in Nat
  BY Facts
<1>2. /\ consumed = starts[handled + 1] + LineRead /\ delivered <= starts[Len(sent) + 1]
      /\ \A i \in 1..Len(sent) : starts[i + 1] = starts[i] + Units(sent[i])
  BY DEF Position
<1>3. LineRead \in Nat /\ delivered \in Nat /\ consumed \in Nat
  BY DEF LineRead, LineUnits, Types
<1>4. handled # Len(sent)
  <2> SUFFICES ASSUME handled = Len(sent) PROVE FALSE
    OBVIOUS
  <2>1. starts[Len(sent) + 1] \in Nat
    BY <1>1
  <2>2. consumed >= delivered
    BY <2>1, <1>2, <1>3
  <2> QED BY <2>2, <1>3 DEF Unread
<1>5. handled + 1 \in 1..Len(sent) /\ handled < Len(sent) /\ (handled + 1) + 1 = handled + 2
  BY <1>1, <1>4
<1> QED BY <1>1, <1>2, <1>5 DEF Current

\* The state moves on, and no item is handled.
LEMMA Moves ==
    ASSUME Session, Types', Live, LengthRead', OnlyFaultsEnd',
           UNCHANGED <<continued, data, sentClose, sent, starts, delivered, handled, out, forwarded>>,
           Live' => consumed' = starts[handled + 1] + LineRead',
           InRequest' => InRequest, InFrame' => InFrame
    PROVE  Session'
<1>1. Types /\ Position /\ Phase /\ Closes /\ Fragments /\ Forwards /\ Errors
  BY DEF Session
<1>2. Live' => (InRequest' <=> InRequest) /\ (InFrame' <=> InFrame)
  BY DEF Live, InRequest, InFrame
<1>3. Position'
  BY <1>1 DEF Position, Units, LineUnits, HeadUnits, FoldUnits
<1>4. Phase'
  <2>1. Upgraded' <=> Upgraded
    BY DEF Upgraded
  <2> QED BY <2>1, <1>1, <1>2 DEF Phase, IsFrame
<1>5. Closes'
  BY <1>1 DEF Closes, CloseIsLast
<1>6. Fragments'
  BY <1>1 DEF Fragments, Before, IsData
<1>7. Forwards'
  <2>1. Len(sent) \in Nat /\ Before \in Int /\ Before' = Before
    BY <1>1, Facts DEF Before
  <2> QED BY <2>1, <1>1, ForwardsStay
<1>8. Errors'
  <2>1. Trouble' = Trouble /\ OpenAfter(handled)' = OpenAfter(handled)
    BY <1>1, Facts, TroubleStays DEF OpenAfter, IsData
  <2> QED BY <2>1, <1>1 DEF Errors
<1> QED BY <1>3, <1>4, <1>5, <1>6, <1>7, <1>8 DEF Session

\* The loop waits for more.
LEMMA Waiting ==
    ASSUME Session, looping' = FALSE,
           UNCHANGED <<parser, sent, starts, delivered, consumed, handled, page, out, forwarded,
                       fault>>
    PROVE  Session'
<1>1. Types'
  BY DEF Session, Types, parser
<1>2. delivered' <= starts[Len(starts)]
  BY Facts DEF Session, Position
<1> QED BY <1>1, <1>2, Receiving

\* The line of a request is read.
LEMMA StepRecvRequest ==
    ASSUME Session, RecvRequest
    PROVE  Session'
<1>1. Types /\ Position /\ Phase /\ Errors
  BY DEF Session
<1>2. /\ state = "request" /\ Live /\ InRequest /\ ~Astray
      /\ UNCHANGED <<needed, frameLength, continued, data, sentClose, secKey, sent, starts,
                     delivered, handled, page, out, forwarded, fault>>
  BY DEF RecvRequest, outside, Live, InRequest
<1>3. CASE Unread < LineUnits
  BY <1>2, <1>3, Waiting DEF RecvRequest, Waits, parser
<1>4. CASE ~(Unread < LineUnits)
  <2>1. /\ consumed' = consumed + 1
        /\ state' = IF Current.method = "BAD" THEN "error" ELSE "headers"
        /\ looping' = (state' # "error" /\ consumed' # delivered)
    BY <1>2, <1>4 DEF RecvRequest, GoesTo, LineUnits
  <2>2. Unread >= 1
    BY <1>1, <1>4 DEF Types, Unread, LineUnits
  <2>3. handled + 1 \in 1..Len(sent) /\ Current \in Requests \cup Frames
    BY <2>2, <1>1, <1>2, CurrentSent
  <2>4. Types'
    <3>1. state' \in {"error", "headers"} /\ consumed' \in Nat
      BY <1>1, <2>1 DEF Types
    <3>2. looping' \in BOOLEAN /\ (looping' => state' # "error")
      BY <2>1
    <3> QED BY <3>1, <3>2, <1>1, <1>2 DEF Types, Live, InRequest
  <2>5. LengthRead'
    BY <2>1 DEF LengthRead
  <2>6. OnlyFaultsEnd'
    <3>1. SUFFICES ASSUME Current.method = "BAD"
                   PROVE  \E i \in 1..Len(sent) :
                            /\ sent[i].kind = "request"
                            /\ sent[i].method = "BAD" \/ sent[i].fold
      BY <1>2, <2>1 DEF OnlyFaultsEnd
    <3>2. ~IsFrame(handled + 1)
      BY <2>3, <1>1, <1>2 DEF Phase, InFrame
    <3>3. Current.kind = "request"
      BY <3>2, <2>3, Items DEF IsFrame, Current
    <3> QED BY <3>1, <3>3, <2>3 DEF Current
  <2>7. Live' => consumed' = starts[handled + 1] + LineRead'
    <3>1. consumed = starts[handled + 1] + 0 /\ starts[handled + 1] \in Nat
      <4>1. consumed = starts[handled + 1] + LineRead /\ LineRead = 0
        BY <1>1, <1>2 DEF Position, LineRead
      <4>2. handled + 1 \in 1..(Len(sent) + 1)
        BY <1>1, Facts
      <4> QED BY <4>1, <4>2, <1>1, Facts
    <3> QED BY <3>1, <2>1 DEF LineRead, LineUnits, Live, InRequest, InFrame
  <2>8. InFrame' => InFrame
    BY <2>1 DEF InFrame
  <2> QED BY <2>4, <2>5, <2>6, <2>7, <2>8, <1>2, Moves
<1> QED BY <1>3, <1>4

\* A frame that is refused is not permitted, or the client was in trouble before.
LEMMA RefusedIsTrouble ==
    ASSUME Types, Phase, Errors, InFrame, handled + 1 \in 1..Len(sent),
           Current \in Requests \cup Frames, Refused(Current)
    PROVE  Trouble
<1>1. IsFrame(handled + 1) /\ Current = sent[handled + 1] /\ handled \in Nat
  BY DEF Phase, Current, Types
<1>2. /\ Current.fin \in BOOLEAN /\ Current.ext \in {0, 1}
      /\ Current.op \in {"TEXT", "BINARY", "CONTINUATION", "CLOSE", "PING", "PONG", "BAD"}
  BY <1>1, Items DEF IsFrame
<1>3. SUFFICES ASSUME OpenAfter(handled) <=> continued # None
               PROVE  ~Permitted(handled + 1)
  BY <1>1 DEF Errors, Trouble, Live
<1>4. (handled + 1) - 1 = handled
  BY <1>1
<1>5. /\ Current.op = "CONTINUATION" /\ continued = None => ~OpenAfter((handled + 1) - 1)
      /\ Current.op \in {"TEXT", "BINARY"} /\ continued # None => OpenAfter((handled + 1) - 1)
  BY <1>3, <1>4
<1> QED BY <1>1, <1>2, <1>5 DEF Permitted, Refused

\* The length of a frame is read, or the frame is refused.
LEMMA StepRecvFrameLength ==
    ASSUME Session, RecvFrameLength
    PROVE  Session'
<1>1. Types /\ Position /\ Phase /\ Errors
  BY DEF Session
<1>2. /\ state = "frame_length" /\ Live /\ InFrame /\ ~InRequest /\ ~Astray
      /\ UNCHANGED <<continued, data, sentClose, secKey, sent, starts, delivered, consumed, handled,
                     page, out, forwarded, fault>>
  BY DEF RecvFrameLength, outside, Live, InFrame, InRequest
<1>3. /\ delivered \in Nat /\ consumed \in Nat /\ delivered - consumed \in Int
      /\ continued \in {None, "TEXT", "BINARY"}
  BY <1>1 DEF Types
<1>4. consumed = starts[handled + 1] + 0
  BY <1>1, <1>2 DEF Position, LineRead
<1>5. ASSUME Unread >= HeadUnits
      PROVE  /\ handled < Len(sent) /\ handled + 1 \in 1..Len(sent)
             /\ Current \in Requests \cup Frames /\ Current.ext \in {0, 1} /\ Current.body \in {0, 1}
  <2>1. Unread >= 1
    BY <1>3, <1>5 DEF HeadUnits, Unread
  <2>2. handled < Len(sent) /\ handled + 1 \in 1..Len(sent) /\ Current \in Requests \cup Frames
    BY <2>1, <1>1, <1>2, CurrentSent
  <2>3. IsFrame(handled + 1)
    BY <2>2, <1>1, <1>2, Facts DEF Phase
  <2> QED BY <2>2, <2>3, Items DEF IsFrame, Current
<1>6. CASE Unread >= HeadUnits /\ Refused(Current)
  <2>1. needed' = 0 /\ frameLength' = 0 /\ state' = "error" /\ looping' = FALSE
    BY <1>6 DEF RecvFrameLength, GoesTo
  <2>2. Types'
    BY <1>1, <1>2, <2>1 DEF Types
  <2>3. Trouble
    BY <1>1, <1>2, <1>5, <1>6, RefusedIsTrouble
  <2>4. OnlyFaultsEnd'
    <3>1. Trouble'
      BY <2>3, <1>1, <1>2, TroubleStays
    <3> QED BY <3>1 DEF OnlyFaultsEnd, Trouble, IsFrame
  <2>5. LengthRead' /\ ~Live' /\ ~InRequest' /\ ~InFrame'
    BY <2>1 DEF LengthRead, Live, InRequest, InFrame
  <2> QED BY <2>2, <2>4, <2>5, <1>2, Moves
<1>7. CASE ~(Unread >= HeadUnits /\ Refused(Current))
  <2>1. /\ needed' = Needs(Current)
        /\ frameLength' = IF needed' = 0 THEN FrameLength(Current) ELSE 0
        /\ IF needed' # 0 THEN Waits /\ UNCHANGED state ELSE GoesTo("frame")
    BY <1>7 DEF RecvFrameLength
  <2>2. needed' \in Nat /\ (needed' = 0 => Unread >= HeadUnits)
    <3>1. CASE Unread < HeadUnits
      BY <3>1, <2>1 DEF Needs, HeadUnits
    <3>2. CASE Unread >= HeadUnits
      BY <3>2, <2>1, <1>5 DEF Needs, HeadUnits
    <3> QED BY <3>1, <3>2, <1>3 DEF HeadUnits, Unread
  <2>3. frameLength' \in Nat
    BY <2>1, <2>2, <1>5 DEF FrameLength, HeadUnits
  <2>4. /\ state' = IF needed' # 0 THEN "frame_length" ELSE "frame"
        /\ looping' \in BOOLEAN
    BY <2>1, <1>2 DEF GoesTo, Waits
  <2>5. Types'
    BY <2>2, <2>3, <2>4, <1>1, <1>2 DEF Types, Live, InRequest, InFrame
  <2>6. LengthRead'
    <3>1. SUFFICES ASSUME needed' = 0
                   PROVE  /\ handled < Len(sent) /\ ~Astray' /\ ~Refused(Current)'
                          /\ frameLength' = FrameLength(Current)'
      BY <2>4, <1>2 DEF LengthRead
    <3>2. /\ handled < Len(sent) /\ ~Refused(Current) /\ frameLength' = FrameLength(Current)
      BY <3>1, <2>1, <2>2, <1>5, <1>7
    <3>3. Current' = Current /\ continued' = continued /\ ~Astray'
      BY <1>2 DEF Current, Astray
    <3> QED BY <3>2, <3>3 DEF Refused, FrameLength, HeadUnits
  <2>7. OnlyFaultsEnd'
    BY <2>4 DEF OnlyFaultsEnd
  <2>8. consumed' = starts[handled + 1] + LineRead'
    BY <2>4, <1>2, <1>4 DEF LineRead, Astray
  <2>9. ~InRequest'
    BY <2>4 DEF InRequest
  <2> QED BY <2>5, <2>6, <2>7, <2>8, <2>9, <1>2, Moves
<1> QED BY <1>6, <1>7

-----------------------------------------------------------------------------
(* What comes of a request.                                                  *)

\* What is sent for a request, and what may come of it.
Statuses == [op : {"200", "403", "404", "500"}, declares : Nat, body : {0, 1}]
Blocks == [op : {"BLOCK"}]
Faults == {"none", "send", "file", "device", "server"}
Outcomes == [replies : Seq(Statuses \cup Blocks), fault : Faults, server : BOOLEAN, page : BOOLEAN]

\* A status is sent whole, or nothing of it.
LEMMA StatusOutcomes ==
    ASSUME NEW reply \in Statuses
    PROVE  Sending(reply) \subseteq Outcomes
<1>1. <<reply>> \in Seq(Statuses \cup Blocks) /\ <<>> \in Seq(Statuses \cup Blocks)
  OBVIOUS
<1>2. Outcome(<<reply>>, "none") \in Outcomes
  BY <1>1 DEF Outcome, Outcomes, Faults
<1>3. Outcome(<<>>, "send") \in Outcomes
  BY <1>1 DEF Outcome, Outcomes, Faults
<1> QED BY <1>2, <1>3 DEF Sending

\* A text is one status with its content.
LEMMA SendHttpOutcomes ==
    ASSUME NEW isHead \in BOOLEAN, NEW status \in {"200", "403", "404", "500"}
    PROVE  Sending(SendHttp(isHead, status)) \subseteq Outcomes
<1>1. SendHttp(isHead, status) \in Statuses
  BY DEF SendHttp, Statuses
<1> QED BY <1>1, StatusOutcomes

\* A file is a status and blocks, whatever its size.
LEMMA FileOutcomes ==
    ASSUME NEW isHead \in BOOLEAN, NEW size \in Nat
    PROVE  SendFile(isHead, size) \subseteq Outcomes
<1>1. PICK head : head = [op |-> "200", declares |-> size, body |-> 0]
  OBVIOUS
<1>2. /\ head \in Statuses \cup Blocks /\ <<head>> \in Seq(Statuses \cup Blocks)
      /\ <<>> \in Seq(Statuses \cup Blocks)
  BY <1>1 DEF Statuses
<1>3. Outcome(<<>>, "send") \in Outcomes /\ Outcome(<<head>>, "none") \in Outcomes
  BY <1>2 DEF Outcome, Outcomes, Faults
<1>4. ASSUME NEW n \in 0..(MaxBlocks + 1)
      PROVE  Outcome(<<head>> \o [i \in 1..n |-> [op |-> "BLOCK"]], FaultOfBlocks(size, n))
                \in Outcomes
  <2>1. [op |-> "BLOCK"] \in Statuses \cup Blocks
    BY DEF Blocks
  <2>2. n \in Nat
    BY BoundsAssumption
  <2>3. PICK q : q = [i \in 1..n |-> [op |-> "BLOCK"]]
    OBVIOUS
  <2>4. q \in Seq(Statuses \cup Blocks)
    BY <2>1, <2>2, <2>3
  <2>5. PICK p : p = <<head>> \o q
    OBVIOUS
  <2>6. p \in Seq(Statuses \cup Blocks)
    BY <1>2, <2>4, <2>5, ConcatProperties
  <2>7. FaultOfBlocks(size, n) \in Faults
    BY DEF FaultOfBlocks, Faults
  <2>8. Outcome(p, FaultOfBlocks(size, n)) \in Outcomes
    BY <2>6, <2>7 DEF Outcome, Outcomes
  <2> QED BY <2>3, <2>5, <2>8
<1>5. SendFile(isHead, size) \subseteq
          {Outcome(<<>>, "send"), Outcome(<<head>>, "none")} \cup
          {Outcome(<<head>> \o [i \in 1..n |-> [op |-> "BLOCK"]], FaultOfBlocks(size, n)) :
           n \in 0..(MaxBlocks + 1)}
  BY <1>1 DEF SendFile
<1> QED BY <1>3, <1>4, <1>5

\* Whatever comes of a request, the replies are statuses and blocks.
LEMMA RequestOutcomes ==
    ASSUME NEW r, NEW isWebsocket, NEW f
    PROVE  OnHttpRequest(r, isWebsocket, f) \subseteq Outcomes
<1>1. PICK isHead \in BOOLEAN : isHead = (r.method = "HEAD")
  OBVIOUS
<1>2. /\ NotFound(isHead) \subseteq Outcomes /\ NotFound(FALSE) \subseteq Outcomes
      /\ OnListRequest(isHead) \subseteq Outcomes
      /\ Sending(SendHttp(isHead, "403")) \subseteq Outcomes
      /\ Sending(SendHttp(isHead, "500")) \subseteq Outcomes
  BY SendHttpOutcomes DEF NotFound, OnListRequest
<1>3. <<>> \in Seq(Statuses \cup Blocks)
  OBVIOUS
<1>4. OnDevtoolsRequest \subseteq Outcomes
  <2>1. [Outcome(<<>>, "none") EXCEPT !.page = TRUE] \in Outcomes
    BY <1>3 DEF Outcome, Outcomes, Faults
  <2>2. Outcome(<<>>, "device") \in Outcomes
    BY <1>3 DEF Outcome, Outcomes, Faults
  <2> QED BY <1>2, <2>1, <2>2 DEF OnDevtoolsRequest
<1>5. UNION {SendFile(isHead, size) : size \in 0..MaxBlocks} \subseteq Outcomes
  BY FileOutcomes, BoundsAssumption
<1>6. OnStaticRequestForFile(isHead, r.resource) \subseteq Outcomes
  BY <1>2, <1>5 DEF OnStaticRequestForFile
<1>7. OnStaticRequestForHttp(isHead, r.resource) \subseteq Outcomes
  <2>1. ASSUME NEW fault1 \in {"none", "server"}
        PROVE  [Outcome(<<>>, fault1) EXCEPT !.server = TRUE] \in Outcomes
    BY <1>3 DEF Outcome, Outcomes, Faults
  <2> QED BY <1>2, <2>1 DEF OnStaticRequestForHttp
<1>8. OnStaticRequest(isHead, r.resource, f) \subseteq Outcomes
  BY <1>2, <1>6, <1>7 DEF OnStaticRequest
<1>9. OnPlainRequest(isHead, r.resource, f) \subseteq Outcomes
  BY <1>2, <1>8 DEF OnPlainRequest
<1> QED BY <1>1, <1>2, <1>4, <1>9 DEF OnHttpRequest

\* What is sent for a request is neither an upgrade nor a close frame.
LEMMA RepliedTypes ==
    ASSUME NEW n \in Nat, NEW q \in Seq(Statuses \cup Blocks)
    PROVE  /\ Replied(q, n) \in Seq(Outs)
           /\ \A i \in 1..Len(Replied(q, n)) : Replied(q, n)[i].op \notin {"UPGRADE", "CLOSE"}
<1>1. Len(q) \in Nat /\ DOMAIN q = 1..Len(q) /\ \A i \in 1..Len(q) : q[i] \in Statuses \cup Blocks
  BY ElementOfSeq, LenProperties
<1>2. ASSUME NEW r \in Statuses \cup Blocks,
             NEW m, m = [field \in DOMAIN r \cup {"of"} |-> IF field = "of" THEN n
                                                              ELSE r[field]]
      PROVE  m \in Outs /\ m.op \notin {"UPGRADE", "CLOSE"}
  <2>1. CASE r \in Statuses
    <3>1. DOMAIN r = {"op", "declares", "body"}
      BY <2>1 DEF Statuses
    <3>2. m = [op |-> r.op, declares |-> r.declares, body |-> r.body, of |-> n]
      BY <3>1, <1>2
    <3> QED BY <2>1, <3>2 DEF Statuses, Outs
  <2>2. CASE r \in Blocks
    <3>1. DOMAIN r = {"op"}
      BY <2>2 DEF Blocks
    <3>2. m = [op |-> r.op, of |-> n]
      BY <3>1, <1>2
    <3> QED BY <2>2, <3>2 DEF Blocks, Outs
  <2> QED BY <2>1, <2>2
<1>3. ASSUME NEW i \in 1..Len(q)
      PROVE  Replied(q, n)[i] \in Outs /\ Replied(q, n)[i].op \notin {"UPGRADE", "CLOSE"}
  <2>1. Replied(q, n)[i] = [field \in DOMAIN q[i] \cup {"of"} |->
                            IF field = "of" THEN n ELSE q[i][field]]
    BY <1>1 DEF Replied
  <2> QED BY <2>1, <1>1, <1>2
<1>4. Replied(q, n) = [i \in 1..Len(q) |-> Replied(q, n)[i]]
  BY <1>1 DEF Replied
<1> QED BY <1>1, <1>3, <1>4

\* The values of a sequence.
Values(s) == {s[i] : i \in 1..Len(s)}

\* One sequence after another has the values of both.
LEMMA ValuesOfConcat ==
    ASSUME NEW o \in Seq(Outs), NEW q \in Seq(Outs), NEW s, s = o \o q
    PROVE  s \in Seq(Outs) /\ Values(s) = Values(o) \cup Values(q)
<1>1. /\ s \in Seq(Outs) /\ Len(s) = Len(o) + Len(q) /\ Len(o) \in Nat /\ Len(q) \in Nat
      /\ \A i \in 1..Len(s) : s[i] = IF i <= Len(o) THEN o[i] ELSE q[i - Len(o)]
  BY ConcatProperties, LenProperties
<1>2. ASSUME NEW v \in Values(s) PROVE v \in Values(o) \cup Values(q)
  <2>1. PICK i \in 1..Len(s) : v = s[i]
    BY <1>2 DEF Values
  <2>2. CASE i <= Len(o)
    BY <2>1, <2>2, <1>1 DEF Values
  <2>3. CASE ~(i <= Len(o))
    <3>1. i - Len(o) \in 1..Len(q) /\ v = q[i - Len(o)]
      BY <2>1, <2>3, <1>1
    <3> QED BY <3>1 DEF Values
  <2> QED BY <2>2, <2>3
<1>3. ASSUME NEW v \in Values(o) PROVE v \in Values(s)
  <2>1. PICK i \in 1..Len(o) : v = o[i]
    BY <1>3 DEF Values
  <2>2. i \in 1..Len(s) /\ s[i] = v
    BY <2>1, <1>1
  <2> QED BY <2>2 DEF Values
<1>4. ASSUME NEW v \in Values(q) PROVE v \in Values(s)
  <2>1. PICK i \in 1..Len(q) : v = q[i]
    BY <1>4 DEF Values
  <2>2. Len(o) + i \in 1..Len(s) /\ ~(Len(o) + i <= Len(o)) /\ (Len(o) + i) - Len(o) = i
    BY <1>1
  <2>3. s[Len(o) + i] = v
    BY <2>1, <2>2, <1>1
  <2> QED BY <2>2, <2>3 DEF Values
<1> QED BY <1>1, <1>2, <1>3, <1>4

\* The request that is handled when the end of its headers is there.
LEMMA HeadersRead ==
    ASSUME Session, state = "headers", ~(Unread < 2 + FoldUnits(Current))
    PROVE  /\ handled + 1 \in 1..Len(sent) /\ handled \in Nat
           /\ IsRequest(handled + 1) /\ Current = sent[handled + 1]
           /\ Current.upgrade \in BOOLEAN /\ Current.key \in BOOLEAN /\ Current.fold \in BOOLEAN
           /\ consumed = starts[handled + 1] + 1 /\ starts[handled + 1] \in Nat
           /\ starts[handled + 2] = starts[handled + 1] + (3 + FoldUnits(Current))
           /\ starts[handled + 2] \in Nat /\ FoldUnits(Current) \in {0, 1}
<1>1. Types /\ Position /\ Phase
  BY DEF Session
<1>2. Live /\ ~Upgraded
  BY <1>1 DEF Live, InRequest, InFrame, Phase
<1>3. /\ Len(sent) \in Nat /\ handled \in 0..Len(sent)
      /\ \A i \in 1..(Len(sent) + 1) : starts[i] \in Nat
  BY <1>1, Facts
<1>4. consumed = starts[handled + 1] + 1 /\ starts[handled + 1] \in Nat /\ ~Astray
  <2>1. handled + 1 \in 1..(Len(sent) + 1)
    BY <1>3
  <2> QED BY <2>1, <1>1, <1>2, <1>3 DEF Position, LineRead, LineUnits, Astray
<1>5. FoldUnits(Current) \in {0, 1}
  BY DEF FoldUnits
<1>6. /\ handled < Len(sent) /\ handled + 1 \in 1..Len(sent) /\ Current \in Requests \cup Frames
      /\ starts[handled + 2] = starts[handled + 1] + Units(Current)
  <2>1. Unread >= 1
    BY <1>1, <1>5 DEF Types, Unread
  <2> QED BY <2>1, <1>1, <1>2, <1>4, CurrentSent
<1>7. Current.kind = "request"
  <2>1. ~IsFrame(handled + 1)
    BY <1>1, <1>2, <1>6 DEF Phase
  <2> QED BY <2>1, <1>6, Items DEF IsFrame, Current
<1>8. starts[handled + 2] \in Nat
  <2>1. handled + 2 \in 1..(Len(sent) + 1)
    BY <1>3, <1>6
  <2> QED BY <2>1, <1>3
<1> QED BY <1>3, <1>4, <1>5, <1>6, <1>7, <1>8, Items DEF IsRequest, Current

\* The request is handled, and was not the last before an upgrade.
LEMMA StepRecvHeaders ==
    ASSUME Session, RecvHeaders
    PROVE  Session'
<1>1. Types /\ Position /\ Phase /\ Closes /\ Fragments /\ Forwards /\ Errors
  BY DEF Session
<1>2. /\ state = "headers" /\ Live /\ InRequest /\ ~InFrame /\ ~Upgraded /\ ~sentClose
      /\ UNCHANGED <<needed, frameLength, continued, data, sentClose, sent, starts,
                     delivered, forwarded>>
  BY <1>1 DEF RecvHeaders, Live, InRequest, InFrame, Phase, Closes
<1>3. /\ Len(sent) \in Nat /\ handled \in 0..Len(sent) /\ Before \in Int
      /\ \A i \in 1..(Len(sent) + 1) : starts[i] \in Nat
  BY <1>1, Facts
<1>4. CASE Unread < 2 + FoldUnits(Current)
  BY <1>2, <1>4, Waiting DEF RecvHeaders, Waits, parser, outside
<1>5. CASE ~(Unread < 2 + FoldUnits(Current))
  <2>1. /\ handled + 1 \in 1..Len(sent) /\ handled < Len(sent) /\ Current = sent[handled + 1]
        /\ Current.key \in BOOLEAN /\ Current.fold \in BOOLEAN
        /\ consumed = starts[handled + 1] + 1 /\ starts[handled + 1] \in Nat
        /\ starts[handled + 2] = starts[handled + 1] + (3 + FoldUnits(Current))
        /\ starts[handled + 2] \in Nat /\ FoldUnits(Current) \in {0, 1}
        /\ Current.kind = "request"
    BY <1>2, <1>3, <1>5, HeadersRead DEF IsRequest
  <2>2. Current \in Requests \cup Frames
    BY <2>1, <1>1, Facts
  <2>3. consumed' = consumed + 2 /\ handled' = handled + 1 /\ secKey' = (secKey \/ Current.key)
    BY <1>5 DEF RecvHeaders
  <2>4. PICK o \in OnHttpRequest(Current, IsWebsocket(Current), frontend), upgrades \in BOOLEAN :
            /\ upgrades => IsWebsocket(Current) /\ o.fault = "none"
            /\ out' = out \o Replied(o.replies, handled')
                       \o (IF upgrades THEN <<Reply("UPGRADE", handled')>> ELSE <<>>)
            /\ page' = o.page
            /\ fault' = IF o.fault = "none" /\ IsWebsocket(Current) /\ ~upgrades
                        THEN "send" ELSE o.fault
            /\ GoesTo(IF fault' # "none" THEN "error"
                      ELSE IF upgrades THEN "frame_length" ELSE AfterRequest(o))
    BY <1>5 DEF RecvHeaders
  <2>5. /\ o.replies \in Seq(Statuses \cup Blocks) /\ o.fault \in Faults /\ o.page \in BOOLEAN
    BY <2>4, RequestOutcomes DEF Outcomes
  <2>6. fault' \in Faults /\ (upgrades => fault' = "none")
    BY <2>4, <2>5 DEF Faults
  <2>7. /\ state' \in {"error", "frame_length", "request", "closed"}
        /\ state' = "frame_length" <=> upgrades
        /\ state' = "error" => fault' # "none"
        /\ looping' \in BOOLEAN /\ (looping' => state' \notin {"closed", "error"})
    BY <2>4, <2>6 DEF GoesTo, AfterRequest
  <2>8. PICK q, u : /\ q = Replied(o.replies, handled')
                    /\ u = IF upgrades THEN <<Reply("UPGRADE", handled')>> ELSE <<>>
    OBVIOUS
  <2>9. q \in Seq(Outs) /\ \A i \in 1..Len(q) : q[i].op \notin {"UPGRADE", "CLOSE"}
    <3>1. handled' \in Nat
      BY <2>3, <1>3
    <3> QED BY <3>1, <2>5, <2>8, RepliedTypes
  <2>10. /\ u \in Seq(Outs) /\ (\A i \in 1..Len(u) : u[i].op = "UPGRADE")
         /\ (1 \in 1..Len(u) <=> upgrades)
    <3>1. Reply("UPGRADE", handled') \in Outs /\ Reply("UPGRADE", handled').op = "UPGRADE"
      BY <2>3, <1>3 DEF Reply, Outs
    <3>2. CASE upgrades
      BY <3>1, <3>2, <2>8
    <3>3. CASE ~upgrades
      BY <3>3, <2>8
    <3> QED BY <3>2, <3>3
  <2>11. out' \in Seq(Outs) /\ Values(out') = Values(out) \cup Values(q) \cup Values(u)
    <3>1. PICK p, first, s : p = out' /\ first = out /\ s = first \o q
      OBVIOUS
    <3>2. first \in Seq(Outs) /\ p = s \o u
      BY <3>1, <2>4, <2>8, <1>1 DEF Types
    <3>3. q \in Seq(Outs) /\ u \in Seq(Outs) /\ s = first \o q
      BY <3>1, <2>9, <2>10
    <3>4. s \in Seq(Outs) /\ Values(s) = Values(first) \cup Values(q)
      BY <3>2, <3>3, ValuesOfConcat
    <3>5. p \in Seq(Outs) /\ Values(p) = Values(s) \cup Values(u)
      BY <3>2, <3>3, <3>4, ValuesOfConcat
    <3>6. Values(out') = Values(p) /\ Values(out) = Values(first)
      BY <3>1 DEF Values
    <3> QED BY <3>1, <3>4, <3>5, <3>6
  <2>12. Upgraded' <=> upgrades
    <3>1. Upgraded' <=> \E m \in Values(out') : m.op = "UPGRADE"
      BY DEF Upgraded, Values
    <3>2. \A m \in Values(out) \cup Values(q) : m.op # "UPGRADE"
      BY <2>9, <1>2 DEF Values, Upgraded
    <3>3. upgrades <=> \E m \in Values(u) : m.op = "UPGRADE"
      BY <2>10 DEF Values
    <3> QED BY <3>1, <3>2, <3>3, <2>11
  <2>13. \A i \in 1..Len(out') : out'[i].op # "CLOSE"
    <3>1. \A m \in Values(out) \cup Values(q) \cup Values(u) : m.op # "CLOSE"
      BY <2>9, <2>10, <1>1, <1>2 DEF Values, Closes
    <3> QED BY <3>1, <2>11 DEF Values
  <2>14. Types'
    <3>1. consumed' \in Nat /\ handled' \in Nat /\ page' \in BOOLEAN
      BY <2>3, <2>4, <2>5, <1>1 DEF Types
    <3>2. secKey' \in BOOLEAN
      BY <2>1, <2>3, <1>1 DEF Types
    <3> QED BY <3>1, <3>2, <2>7, <2>11, <1>1, <1>2 DEF Types, Live, InRequest, InFrame
  <2>15. Position'
    <3>1. starts[handled + 2] = consumed' + FoldUnits(Current)
      BY <2>1, <2>3
    <3>2. consumed' \in Nat /\ handled' + 1 = handled + 2
      BY <2>1, <2>3, <1>3
    <3>3. sent'[handled'] = Current /\ starts'[handled' + 1] = starts[handled + 2] /\ handled' > 0
      BY <3>2, <2>1, <2>3, <1>2, <1>3
    <3>4. Astray' <=> Current.fold
      BY <3>1, <3>2, <3>3, <2>1 DEF Astray, FoldUnits
    <3>5. LineRead' = 0 - FoldUnits(Current)
      <4>1. CASE Astray'
        BY <3>4, <4>1, <2>7 DEF LineRead, FoldUnits
      <4>2. CASE ~Astray'
        BY <3>4, <4>2, <2>7 DEF LineRead, FoldUnits
      <4> QED BY <4>1, <4>2
    <3>6. consumed' = starts'[handled' + 1] + LineRead'
      BY <3>1, <3>2, <3>3, <3>5, <2>1
    <3>7. handled' <= Len(sent)
      BY <2>1, <2>3, <1>3
    <3> QED BY <3>6, <3>7, <1>1, <1>2 DEF Position, Units, LineUnits, HeadUnits, FoldUnits
  <2>16. Phase'
    <3>1. Live' => (Upgraded' <=> InFrame')
      BY <2>7, <2>12 DEF Live, InRequest, InFrame
    <3>2. /\ \A i \in 1..Len(sent) : ~IsFrame(i)
          /\ \A i \in 1..(Len(sent) - 1) : ~sent[i].upgrade
      BY <1>1, <1>2 DEF Phase
    <3>3. ASSUME InFrame' PROVE handled + 1 = Len(sent)
      <4>1. upgrades /\ sent[handled + 1].upgrade
        BY <3>3, <2>4, <2>7 DEF InFrame, IsWebsocket, Current
      <4> QED BY <4>1, <3>2, <2>1, <1>3
    <3>4. InFrame' => \A i \in (handled' + 1)..Len(sent) : IsFrame(i)
      BY <3>3, <2>3, <1>3
    <3> QED BY <3>1, <3>2, <3>4, <1>2 DEF Phase, IsFrame
  <2>17. Closes'
    BY <2>13, <1>2 DEF Closes, CloseIsLast
  <2>18. LengthRead'
    BY <2>7 DEF LengthRead
  <2>19. data = <<>> /\ Len(data) = 0 /\ continued = None
    BY <1>1, <1>2 DEF Fragments
  <2>20. Before' = handled + 1 /\ Before = handled
    BY <2>3, <2>19, <1>2, <1>3 DEF Before
  <2>21. Fragments'
    BY <2>3, <2>19, <2>20, <1>2, <1>3 DEF Fragments
  <2>22. Forwards'
    <3>1. Before <= Before' /\ Before' \in Int
      BY <2>20, <1>3
    <3> QED BY <3>1, <1>1, <1>2, <1>3, ForwardsStay
  <2>23. Errors'
    <3>1. ~OpenAfter(handled + 1)
      BY <2>1, <1>1, <1>2, <1>3 DEF OpenAfter, IsData, Phase, IsFrame
    <3>2. ~OpenAfter(handled)'
      BY <3>1, <2>3, <1>2 DEF OpenAfter, IsData
    <3>3. OnlyFaultsEnd'
      BY <2>6, <2>7 DEF OnlyFaultsEnd, Faults
    <3> QED BY <3>2, <3>3, <2>19, <1>2 DEF Errors
  <2> QED BY <2>14, <2>15, <2>16, <2>17, <2>18, <2>21, <2>22, <2>23 DEF Session
<1> QED BY <1>4, <1>5

\* The rest of a folded request is refused, or handled as another request.
LEMMA StepRecvStray ==
    ASSUME Session, RecvStray
    PROVE  Session'
<1>1. Types /\ Position /\ Phase /\ Closes /\ Fragments /\ Forwards /\ Errors
  BY DEF Session
<1>2. /\ looping /\ Astray /\ Live
      /\ UNCHANGED <<needed, frameLength, continued, data, sentClose, secKey, sent, starts,
                     delivered, handled, forwarded>>
  BY <1>1 DEF RecvStray, Types
<1>3. /\ Len(sent) \in Nat /\ handled \in 0..Len(sent) /\ Before \in Int
      /\ \A i \in 1..(Len(sent) + 1) : starts[i] \in Nat
  BY <1>1, Facts
<1>4. OnlyFaultsEnd'
  <2>1. handled \in 1..Len(sent) /\ sent'[handled].kind = "request" /\ sent'[handled].fold
    BY <1>2, <1>3 DEF Astray
  <2> QED BY <2>1, <1>2 DEF OnlyFaultsEnd
<1>5. CASE GoesTo("error") /\ UNCHANGED <<consumed, page, out, fault>>
  <2>1. state' = "error" /\ looping' = FALSE
    BY <1>5 DEF GoesTo
  <2>2. Types'
    BY <2>1, <1>1, <1>2, <1>5 DEF Types
  <2>3. LengthRead' /\ ~Live' /\ ~InRequest' /\ ~InFrame'
    BY <2>1 DEF LengthRead, Live, InRequest, InFrame
  <2> QED BY <2>2, <2>3, <1>2, <1>4, <1>5, Moves
<1>6. CASE ~(GoesTo("error") /\ UNCHANGED <<consumed, page, out, fault>>)
  <2>1. /\ state = "request" /\ consumed' = starts[handled + 1]
        /\ \E r \in Requests : \E o \in OnHttpRequest(r, FALSE, frontend) :
              /\ out' = out \o Replied(o.replies, 0)
              /\ page' = o.page /\ fault' = o.fault
              /\ GoesTo(IF o.fault # "none" THEN "error" ELSE AfterRequest(o))
    BY <1>6 DEF RecvStray
  <2>2. InRequest /\ ~InFrame /\ ~Upgraded /\ ~sentClose
    BY <2>1, <1>1, <1>2 DEF InRequest, InFrame, Phase, Closes
  <2>22. PICK w \in BOOLEAN : w = FALSE
    OBVIOUS
  <2>3. PICK r \in Requests : \E o \in OnHttpRequest(r, w, frontend) :
              /\ out' = out \o Replied(o.replies, 0)
              /\ page' = o.page /\ fault' = o.fault
              /\ GoesTo(IF o.fault # "none" THEN "error" ELSE AfterRequest(o))
    BY <2>1, <2>22
  <2>4. PICK o \in OnHttpRequest(r, w, frontend) :
              /\ out' = out \o Replied(o.replies, 0)
              /\ page' = o.page /\ fault' = o.fault
              /\ GoesTo(IF o.fault # "none" THEN "error" ELSE AfterRequest(o))
    BY <2>3
  <2>5. o.replies \in Seq(Statuses \cup Blocks) /\ o.page \in BOOLEAN
    BY <2>4, RequestOutcomes DEF Outcomes
  <2>6. /\ state' \in {"error", "request", "closed"}
        /\ looping' \in BOOLEAN /\ (looping' => state' = "request")
    BY <2>4 DEF GoesTo, AfterRequest
  <2>7. PICK q, s : q = Replied(o.replies, 0) /\ s = out \o q
    OBVIOUS
  <2>8. q \in Seq(Outs) /\ \A i \in 1..Len(q) : q[i].op \notin {"UPGRADE", "CLOSE"}
    BY <2>5, <2>7, RepliedTypes
  <2>9. out' = s /\ s \in Seq(Outs) /\ Values(s) = Values(out) \cup Values(q)
    BY <2>4, <2>7, <2>8, <1>1, ValuesOfConcat DEF Types
  <2>10. \A i \in 1..Len(out') : out'[i].op \notin {"UPGRADE", "CLOSE"}
    <3>1. \A m \in Values(out) \cup Values(q) : m.op \notin {"UPGRADE", "CLOSE"}
      BY <2>2, <2>8, <1>1 DEF Values, Upgraded, Closes
    <3> QED BY <3>1, <2>9 DEF Values
  <2>11. handled + 1 \in 1..(Len(sent) + 1) /\ starts[handled + 1] \in Nat
    BY <1>3
  <2>12. Types'
    BY <2>1, <2>4, <2>5, <2>6, <2>9, <2>11, <1>1, <1>2 DEF Types, Live, InRequest
  <2>13. Position'
    <3>1. consumed' = starts'[handled' + 1] /\ ~Astray'
      BY <2>1, <2>11, <1>2 DEF Astray
    <3>2. LineRead' = 0
      BY <3>1, <2>6 DEF LineRead
    <3>3. consumed' = starts'[handled' + 1] + LineRead'
      BY <3>1, <3>2, <2>11, <1>2
    <3> QED BY <3>3, <1>1, <1>2 DEF Position, Units, LineUnits, HeadUnits, FoldUnits
  <2>14. ~InFrame' /\ ~Upgraded'
    BY <2>6, <2>10 DEF InFrame, Upgraded
  <2>15. Phase'
    <3>1. /\ \A i \in 1..Len(sent) : ~IsFrame(i)
          /\ \A i \in 1..(Len(sent) - 1) : ~sent[i].upgrade
      BY <2>2, <1>1 DEF Phase
    <3> QED BY <3>1, <2>14, <1>2 DEF Phase, IsFrame
  <2>16. Closes'
    BY <2>2, <2>10, <1>2 DEF Closes, CloseIsLast
  <2>17. LengthRead'
    BY <2>6 DEF LengthRead
  <2>18. Before' = Before
    BY <1>2 DEF Before
  <2>19. Fragments'
    BY <2>2, <2>18, <1>1, <1>2 DEF Fragments, IsData
  <2>20. Forwards'
    BY <2>18, <1>1, <1>2, <1>3, ForwardsStay
  <2>21. Errors'
    <3>1. Trouble' = Trouble /\ OpenAfter(handled)' = OpenAfter(handled)
      BY <1>1, <1>2, <1>3, TroubleStays DEF OpenAfter, IsData
    <3> QED BY <3>1, <1>1, <1>2, <1>4 DEF Errors
  <2> QED BY <2>12, <2>13, <2>15, <2>16, <2>17, <2>19, <2>20, <2>21 DEF Session
<1> QED BY <1>5, <1>6

-----------------------------------------------------------------------------
(* What comes of a frame.                                                    *)

\* After a data frame a message is open unless it was its last; other frames
\* change nothing.
LEMMA OpenAfterNext ==
    ASSUME NEW n \in Nat \ {0}
    PROVE  /\ IsData(n) => (OpenAfter(n) <=> ~sent[n].fin)
           /\ ~IsData(n) => (OpenAfter(n) <=> OpenAfter(n - 1))
<1>1. \A i \in 1..n : i = n \/ i \in 1..(n - 1)
  OBVIOUS
<1>2. \A i \in 1..(n - 1) : i \in 1..n /\ n \in (i + 1)..n
  OBVIOUS
<1>3. \A i \in 1..n : \A j \in (i + 1)..n : j = n \/ j \in (i + 1)..(n - 1)
  OBVIOUS
<1>4. \A i \in 1..n : \A j \in (i + 1)..(n - 1) : j \in (i + 1)..n
  OBVIOUS
<1>5. n \in 1..n /\ \A j \in (n + 1)..n : FALSE
  OBVIOUS
<1>6. ASSUME IsData(n), OpenAfter(n) PROVE ~sent[n].fin
  <2>1. PICK i \in 1..n : IsData(i) /\ ~sent[i].fin /\ \A j \in (i + 1)..n : ~IsData(j)
    BY <1>6 DEF OpenAfter
  <2>2. i = n
    BY <2>1, <1>1, <1>2, <1>6
  <2> QED BY <2>1, <2>2
<1>7. ASSUME IsData(n), ~sent[n].fin PROVE OpenAfter(n)
  BY <1>5, <1>7 DEF OpenAfter
<1>8. ASSUME ~IsData(n), OpenAfter(n) PROVE OpenAfter(n - 1)
  <2>1. PICK i \in 1..n : IsData(i) /\ ~sent[i].fin /\ \A j \in (i + 1)..n : ~IsData(j)
    BY <1>8 DEF OpenAfter
  <2>2. i \in 1..(n - 1)
    BY <2>1, <1>1, <1>8
  <2> QED BY <2>1, <2>2, <1>4 DEF OpenAfter
<1>9. ASSUME ~IsData(n), OpenAfter(n - 1) PROVE OpenAfter(n)
  <2>1. PICK i \in 1..(n - 1) : /\ IsData(i) /\ ~sent[i].fin
                                /\ \A j \in (i + 1)..(n - 1) : ~IsData(j)
    BY <1>9 DEF OpenAfter
  <2>2. i \in 1..n /\ \A j \in (i + 1)..n : ~IsData(j)
    BY <2>1, <1>2, <1>3, <1>9
  <2> QED BY <2>1, <2>2 DEF OpenAfter
<1> QED BY <1>6, <1>7, <1>8, <1>9

\* A control frame inside a message is the trouble that OnlyFaultsEnd names.
LEMMA ControlInside ==
    ASSUME handled \in Nat, handled + 1 \in 1..Len(sent), IsFrame(handled + 1),
           sent[handled + 1].op \in Control, OpenAfter(handled)
    PROVE  Trouble
<1>1. PICK i \in 1..handled : IsData(i)
  BY DEF OpenAfter
<1>2. handled + 1 \in 2..(handled + 1) /\ (handled + 1) - 1 = handled
  BY <1>1
<1>3. Interrupted(handled + 1)
  BY <1>2 DEF Interrupted, IsFrame
<1> QED BY <1>3 DEF Trouble

\* The opcode of the message that a frame belongs to.
OpcodeOf(f) == IF f.op = "CONTINUATION" THEN continued ELSE f.op

\* The frame that is handled was not refused.
LEMMA FrameHandled ==
    ASSUME Session, state = "frame"
    PROVE  /\ InFrame /\ Live /\ ~InRequest /\ Upgraded
           /\ handled < Len(sent) /\ handled + 1 \in 1..Len(sent) /\ handled \in Nat
           /\ IsFrame(handled + 1) /\ Current = sent[handled + 1]
           /\ Current.fin \in BOOLEAN
           /\ OpcodeOf(Current) \in {"TEXT", "BINARY", "CLOSE", "PING", "PONG"}
           /\ OpcodeOf(Current) \in Control <=> Current.op \in Control
           /\ Current.op \in Control => Current.fin /\ OpcodeOf(Current) = Current.op
           /\ Current.op \notin Control =>
                (Current.op # "CONTINUATION" <=> continued = None)
           /\ frameLength \in Nat /\ consumed + frameLength = starts[handled + 2]
           /\ starts[handled + 2] \in Nat /\ ~Astray
<1>1. Types /\ Position /\ Phase /\ LengthRead
  BY DEF Session
<1>2. InFrame /\ Live /\ ~InRequest /\ Upgraded
  BY <1>1 DEF InFrame, Live, InRequest, Phase
<1>3. /\ Len(sent) \in Nat /\ handled \in 0..Len(sent) /\ handled < Len(sent)
      /\ \A i \in 1..Len(sent) : sent[i] \in Requests \cup Frames
      /\ \A i \in 1..(Len(sent) + 1) : starts[i] \in Nat
  BY <1>1, Facts DEF LengthRead
<1>4. handled + 1 \in 1..Len(sent) /\ (handled + 1) + 1 = handled + 2
  BY <1>3
<1>5. /\ IsFrame(handled + 1) /\ Current = sent[handled + 1] /\ Current \in Requests \cup Frames
      /\ starts[handled + 2] = starts[handled + 1] + Units(Current)
  BY <1>1, <1>2, <1>3, <1>4 DEF Phase, Current, Position
<1>6. /\ Current.fin \in BOOLEAN /\ Units(Current) = FrameLength(Current)
      /\ Current.op \in {"TEXT", "BINARY", "CONTINUATION", "CLOSE", "PING", "PONG", "BAD"}
  BY <1>5, Items DEF IsFrame
<1>7. ~Refused(Current) /\ frameLength = FrameLength(Current) /\ frameLength \in Nat
  BY <1>1 DEF LengthRead, Types
<1>8. continued \in {None, "TEXT", "BINARY"}
  BY <1>1 DEF Types
<1>9. /\ OpcodeOf(Current) \in {"TEXT", "BINARY", "CLOSE", "PING", "PONG"}
      /\ OpcodeOf(Current) \in Control <=> Current.op \in Control
      /\ Current.op \in Control => Current.fin /\ OpcodeOf(Current) = Current.op
      /\ Current.op \notin Control => (Current.op # "CONTINUATION" <=> continued = None)
  BY <1>6, <1>7, <1>8 DEF Refused, OpcodeOf, Control, None
<1>10. consumed + frameLength = starts[handled + 2] /\ starts[handled + 2] \in Nat
  <2>1. consumed = starts[handled + 1] + 0 /\ starts[handled + 1] \in Nat
    BY <1>1, <1>2, <1>3, <1>4 DEF Position, LineRead, LengthRead
  <2>2. starts[handled + 2] = starts[handled + 1] + frameLength
    BY <1>5, <1>6, <1>7
  <2> QED BY <2>1, <2>2, <1>7
<1>11. ~Astray
  BY <1>1 DEF LengthRead
<1> QED BY <1>2, <1>3, <1>4, <1>5, <1>6, <1>7, <1>9, <1>10, <1>11

\* What may come of a frame: what is forwarded ends a message, and a frame is
\* refused only if a close frame was sent, or a ping came inside a message.
FrameOutcome(r, op, fin, payloads) ==
    /\ r.fault \in {"none", "send", "refused"}
    /\ \/ r.forwarded = forwarded
       \/ r.forwarded = Append(forwarded, payloads) /\ op \notin Control /\ fin
    /\ \/ r.out = out /\ r.sentClose = sentClose
       \/ /\ ~sentClose /\ r.fault = "none"
          /\ \E m \in Outs : /\ r.out = Append(out, m) /\ m.op \in {"CLOSE", "PONG"}
                             /\ r.sentClose = (m.op = "CLOSE")
    /\ r.fault = "refused" =>
        \/ sentClose /\ r.sentClose = sentClose
        \/ op = "PING" /\ Len(payloads) >= 2

\* What OnFrame returns is such an outcome.
LEMMA FrameOutcomes ==
    ASSUME Types, NEW f, f.fin \in BOOLEAN, NEW payloads \in Seq(Nat),
           NEW op \in {"TEXT", "BINARY", "CLOSE", "PING", "PONG"}, NEW r \in OnFrame(op, f, payloads)
    PROVE  FrameOutcome(r, op, f.fin, payloads)
<1>1. ASSUME r = Replies PROVE FrameOutcome(r, op, f.fin, payloads)
  BY <1>1 DEF Replies, FrameOutcome
<1>2. ASSUME NEW reply \in {"CLOSE", "PONG"}, r \in Sends(reply)
      PROVE  FrameOutcome(r, op, f.fin, payloads)
  <2>1. PICK of : of = handled + 1
    OBVIOUS
  <2>4. of \in Nat /\ reply \in {"TEXT", "CLOSE", "PONG"}
    BY <2>1 DEF Types
  <2>2. r \in Attempts(reply, of)
    BY <1>2, <2>1 DEF Sends, Attempts
  <2>3. /\ r.forwarded = forwarded
        /\ \/ /\ r.fault \in {"send", "refused"} /\ r.out = out /\ r.sentClose = sentClose
              /\ r.fault = "refused" => sentClose \/ reply = "TEXT"
           \/ /\ r.fault = "none" /\ ~sentClose /\ r.sentClose = (reply = "CLOSE")
              /\ \E m \in Outs : /\ r.out = Append(out, m)
                                 /\ IF reply = "TEXT" THEN m.op \in {"TEXT", "CONTINUATION"}
                                    ELSE m.op = reply
    BY <2>2, <2>4, FrameSent
  <2> QED BY <2>3 DEF FrameOutcome
<1>3. CASE op \in {"TEXT", "BINARY"} /\ ~f.fin
  <2>1. r = Replies
    BY <1>3 DEF OnFrame
  <2> QED BY <2>1, <1>1
<1>4. CASE op \in {"TEXT", "BINARY"} /\ f.fin /\ f.masked /\ page
  <2>1. r \in {[Replies EXCEPT !.forwarded = Append(@, payloads)], Broken}
    BY <1>4 DEF OnFrame
  <2>2. CASE r = Broken
    BY <2>2 DEF Broken, Replies, FrameOutcome
  <2>3. CASE r = [Replies EXCEPT !.forwarded = Append(@, payloads)]
    <3>1. /\ r.forwarded = Append(forwarded, payloads) /\ r.out = out /\ r.sentClose = sentClose
          /\ r.fault = "none"
      BY <2>3 DEF Replies
    <3> QED BY <3>1, <1>4 DEF FrameOutcome, Control
  <2> QED BY <2>1, <2>2, <2>3
<1>5. CASE op \in {"TEXT", "BINARY"} /\ f.fin /\ ~(f.masked /\ page)
  <2>1. r \in Sends("CLOSE")
    BY <1>5 DEF OnFrame
  <2> QED BY <2>1, <1>2
<1>6. CASE op = "CLOSE"
  <2>1. r \in Sends("CLOSE")
    BY <1>6 DEF OnFrame
  <2> QED BY <2>1, <1>2
<1>7. CASE op = "PING"
  <2>1. r \in Sends("PONG") \cup {[Replies EXCEPT !.fault = "refused"] : i \in 2..Len(payloads)}
    BY <1>7 DEF OnFrame
  <2>2. CASE r \in Sends("PONG")
    BY <2>2, <1>2
  <2>3. CASE r \in {[Replies EXCEPT !.fault = "refused"] : i \in 2..Len(payloads)}
    <3>1. r = [Replies EXCEPT !.fault = "refused"] /\ \E i \in 2..Len(payloads) : TRUE
      BY <2>3
    <3>2. Len(payloads) >= 2
      BY <3>1, LenProperties
    <3>3. r.forwarded = forwarded /\ r.out = out /\ r.sentClose = sentClose /\ r.fault = "refused"
      BY <3>1 DEF Replies
    <3> QED BY <3>2, <3>3, <1>7 DEF FrameOutcome
  <2> QED BY <2>1, <2>2, <2>3
<1>8. CASE op = "PONG"
  <2>1. r = Replies
    BY <1>8 DEF OnFrame
  <2> QED BY <2>1, <1>1
<1> QED BY <1>3, <1>4, <1>5, <1>6, <1>7, <1>8

\* The fragments that are kept and the frame that ends them are one message.
LEMMA FragmentsAreMessage ==
    ASSUME Session, state = "frame", Current.op \notin Control, Current.fin
    PROVE  IsMessage((Before + 1)..(handled + 1))
<1>1. Types /\ Position /\ Fragments
  BY DEF Session
<1>2. /\ Live /\ handled \in Nat /\ Current = sent[handled + 1] /\ IsFrame(handled + 1)
      /\ Current.op # "CONTINUATION" <=> continued = None
  BY FrameHandled
<1>3. /\ Len(data) \in Nat /\ Len(data) <= handled /\ Before = handled - Len(data)
      /\ continued = None <=> data = <<>>
      /\ \A i \in (Before + 1)..handled :
            IsData(i) /\ ~sent[i].fin /\ (sent[i].op # "CONTINUATION" <=> i = Before + 1)
  BY <1>1, <1>2, Facts DEF Fragments, Before
<1>4. /\ Before \in Nat /\ Before <= handled /\ (Before = handled <=> continued = None)
  BY <1>1, <1>2, <1>3, EmptySeq DEF Types
<1>5. PICK s : s = (Before + 1)..(handled + 1)
  OBVIOUS
<1>6. /\ \A i \in s : i = handled + 1 \/ i \in (Before + 1)..handled
      /\ handled + 1 \in s /\ Before + 1 \in s
      /\ \A i \in s : Before + 1 <= i /\ i <= handled + 1 /\ i \in Int
      /\ \A i, j \in s : \A k \in i..j : k \in s
  BY <1>2, <1>4, <1>5
<1>7. IsData(handled + 1) /\ sent[handled + 1].fin
  BY <1>2 DEF IsData, IsFrame
<1>8. ASSUME NEW i \in s PROVE IsData(i) /\ (sent[i].fin <=> \A j \in s : j <= i)
  <2>1. CASE i = handled + 1
    BY <2>1, <1>6, <1>7
  <2>2. CASE i # handled + 1
    <3>1. i \in (Before + 1)..handled /\ ~(handled + 1 <= i)
      BY <2>2, <1>2, <1>4, <1>6
    <3> QED BY <3>1, <1>3, <1>6
  <2> QED BY <2>1, <2>2
<1>9. ASSUME NEW i \in s PROVE (sent[i].op # "CONTINUATION") <=> \A j \in s : i <= j
  <2>1. (\A j \in s : i <= j) <=> i = Before + 1
    BY <1>4, <1>6
  <2>2. CASE i = handled + 1
    <3>1. i = Before + 1 <=> continued = None
      BY <2>2, <1>2, <1>4
    <3> QED BY <3>1, <2>1, <2>2, <1>2
  <2>3. CASE i # handled + 1
    <3>1. i \in (Before + 1)..handled
      BY <2>3, <1>6
    <3> QED BY <3>1, <2>1, <1>3
  <2> QED BY <2>2, <2>3
<1>10. IsMessage(s)
  BY <1>6, <1>8, <1>9 DEF IsMessage
<1> QED BY <1>5, <1>10

\* A ping that is refused, or a control frame that ends a message, is trouble.
LEMMA OpenAfterHandled ==
    ASSUME Session, state = "frame"
    PROVE  /\ Current.op \notin Control => (OpenAfter(handled + 1) <=> ~Current.fin)
           /\ Current.op \in Control => Trouble \/ ~OpenAfter(handled + 1)
           /\ Current.op \in Control /\ data # <<>> => Trouble
<1>1. /\ Live /\ handled \in Nat /\ Current = sent[handled + 1] /\ IsFrame(handled + 1)
      /\ handled + 1 \in 1..Len(sent)
  BY FrameHandled
<1>2. /\ Trouble \/ (OpenAfter(handled) <=> continued # None)
      /\ continued = None <=> data = <<>>
  BY <1>1 DEF Session, Errors, Fragments
<1>3. handled + 1 \in Nat \ {0} /\ (handled + 1) - 1 = handled
  BY <1>1
<1>4. IsData(handled + 1) <=> Current.op \notin Control
  BY <1>1 DEF IsData, IsFrame
<1>5. /\ IsData(handled + 1) => (OpenAfter(handled + 1) <=> ~sent[handled + 1].fin)
      /\ ~IsData(handled + 1) => (OpenAfter(handled + 1) <=> OpenAfter((handled + 1) - 1))
  BY <1>3, OpenAfterNext
<1>6. Current.op \in Control /\ OpenAfter(handled) => Trouble
  BY <1>1, ControlInside
<1> QED BY <1>1, <1>2, <1>3, <1>4, <1>5, <1>6

\* A frame of a text is refused for its payload, which is not UTF-8 by itself.
LEMMA StepBadText ==
    ASSUME Session, RecvFrame, ~(needed # 0 \/ frameLength = 0 \/ Unread < frameLength),
           NotText(Current, OpcodeOf(Current))
    PROVE  Session'
<1>1. /\ Types /\ Fragments /\ state = "frame"
  BY DEF Session, RecvFrame
<1>2. /\ state' = "error" /\ looping' = FALSE /\ consumed' = consumed + frameLength
      /\ UNCHANGED <<needed, frameLength, continued, data, sentClose, secKey, sent, starts,
                     delivered, handled, page, out, forwarded, fault>>
  BY DEF RecvFrame, GoesTo, OpcodeOf
<1>3. /\ Live /\ handled \in Nat /\ handled + 1 \in 1..Len(sent) /\ IsFrame(handled + 1)
      /\ Current = sent[handled + 1] /\ frameLength \in Nat
  BY <1>1, FrameHandled
<1>4. BadText(handled + 1)
  <2>1. ~sent[handled + 1].utf8
    BY <1>3 DEF NotText
  <2>2. CASE Current.op = "TEXT"
    <3>1. handled + 1 \in 1..(handled + 1) /\ \A j \in ((handled + 1) + 1)..(handled + 1) : FALSE
      BY <1>3
    <3> QED BY <2>1, <2>2, <3>1, <1>3 DEF BadText, IsFrame
  <2>3. CASE Current.op = "CONTINUATION" /\ continued = "TEXT"
    <3>1. /\ data # <<>> /\ data \in Seq(Nat) /\ sent[Before + 1].op = "TEXT"
          /\ Len(data) <= handled
          /\ \A i \in (Before + 1)..handled :
                IsData(i) /\ (sent[i].op # "CONTINUATION" <=> i = Before + 1)
      BY <2>3, <1>1, <1>3 DEF Fragments, Types, None
    <3>2. Len(data) \in Nat /\ Len(data) # 0
      BY <3>1, EmptySeq
    <3>3. Before \in Nat /\ Before < handled
      BY <3>1, <3>2, <1>3 DEF Before
    <3>4. Before + 1 \in 1..(handled + 1) /\ Before + 1 \in (Before + 1)..handled
      BY <3>3, <1>3
    <3>5. ASSUME NEW j \in ((Before + 1) + 1)..(handled + 1) PROVE sent[j].op = "CONTINUATION"
      <4>1. j = handled + 1 \/ (j \in (Before + 1)..handled /\ j # Before + 1)
        BY <3>3, <1>3
      <4> QED BY <4>1, <3>1, <2>3, <1>3
    <3> QED BY <2>1, <3>1, <3>4, <3>5 DEF BadText, IsData
  <2> QED BY <2>2, <2>3 DEF NotText, OpcodeOf
<1>5. Types'
  <2>1. consumed' \in Nat
    BY <1>1, <1>2, <1>3 DEF Types
  <2> QED BY <2>1, <1>1, <1>2 DEF Types
<1>6. OnlyFaultsEnd'
  <2>1. Trouble
    BY <1>3, <1>4 DEF Trouble
  <2>2. Trouble'
    BY <2>1, <1>1, <1>2, TroubleStays
  <2> QED BY <2>2 DEF OnlyFaultsEnd, Trouble, IsFrame
<1>7. LengthRead' /\ ~Live' /\ ~InRequest' /\ ~InFrame'
  BY <1>2 DEF LengthRead, Live, InRequest, InFrame
<1> QED BY <1>2, <1>3, <1>5, <1>6, <1>7, Moves

\* A frame is handled.
LEMMA StepRecvFrame ==
    ASSUME Session, RecvFrame
    PROVE  Session'
<1>1. Types /\ Position /\ Phase /\ Closes /\ LengthRead /\ Fragments /\ Forwards /\ Errors
  BY DEF Session
<1>2. /\ state = "frame"
      /\ UNCHANGED <<needed, frameLength, secKey, sent, starts, delivered, page>>
  BY DEF RecvFrame
<1>3. CASE needed # 0 \/ frameLength = 0 \/ Unread < frameLength
  <2>1. UNCHANGED <<state, continued, data, sentClose, consumed, handled, out, forwarded, fault>>
    BY <1>3 DEF RecvFrame
  <2>2. looping' = FALSE
    BY <1>3 DEF RecvFrame, Waits
  <2> QED BY <2>1, <2>2, <1>2, Waiting DEF parser
<1>4. CASE /\ ~(needed # 0 \/ frameLength = 0 \/ Unread < frameLength)
           /\ NotText(Current, OpcodeOf(Current))
  BY <1>4, StepBadText
<1>5. CASE /\ ~(needed # 0 \/ frameLength = 0 \/ Unread < frameLength)
           /\ ~NotText(Current, OpcodeOf(Current))
  <2>1. PICK f, op, payloads : /\ f = Current /\ op = OpcodeOf(f)
                               /\ payloads = Append(data, handled + 1)
    OBVIOUS
  <2>2. PICK r \in OnFrame(op, f, payloads) :
            /\ out' = r.out /\ sentClose' = r.sentClose /\ forwarded' = r.forwarded
            /\ consumed' = consumed + frameLength /\ handled' = handled + 1
            /\ fault' = r.fault
            /\ IF r.fault = "none"
               THEN /\ data' = DataAfter(f, payloads)
                    /\ continued' = ContinuedAfter(f, op)
                    /\ GoesTo(IF op = "CLOSE" THEN "closed" ELSE "frame_length")
               ELSE /\ data' = payloads /\ UNCHANGED continued
                    /\ GoesTo("error")
    BY <2>1, <1>5 DEF RecvFrame, OpcodeOf
  <2>3. /\ InFrame /\ Live /\ ~InRequest /\ Upgraded
        /\ handled < Len(sent) /\ handled + 1 \in 1..Len(sent) /\ handled \in Nat
        /\ IsFrame(handled + 1) /\ f = sent[handled + 1] /\ f.fin \in BOOLEAN
        /\ op \in {"TEXT", "BINARY", "CLOSE", "PING", "PONG"}
        /\ op \in Control <=> f.op \in Control
        /\ f.op \in Control => f.fin /\ op = f.op
        /\ f.op \notin Control => (f.op # "CONTINUATION" <=> continued = None)
        /\ frameLength \in Nat /\ consumed + frameLength = starts[handled + 2]
        /\ starts[handled + 2] \in Nat
    BY <2>1, <1>2, FrameHandled
  <2>4. /\ Len(sent) \in Nat /\ Len(data) \in Nat /\ Before = handled - Len(data) /\ Before \in Int
        /\ Len(data) <= handled /\ (continued = None <=> data = <<>>)
        /\ \A k \in 1..Len(data) : data[k] = Before + k
    BY <2>3, <1>1, Facts DEF Before, Fragments
  <2>5. /\ payloads \in Seq(Nat) /\ Len(payloads) = Len(data) + 1 /\ payloads # <<>>
        /\ \A k \in 1..Len(payloads) : payloads[k] = Before + k
    <3>1. data \in Seq(Nat) /\ handled + 1 \in Nat /\ payloads = Append(data, handled + 1)
      BY <2>1, <2>3, <1>1 DEF Types
    <3>2. /\ payloads \in Seq(Nat) /\ Len(payloads) = Len(data) + 1
          /\ payloads[Len(data) + 1] = handled + 1
          /\ \A i \in 1..Len(data) : payloads[i] = data[i]
      BY <3>1, SentOn
    <3>3. ASSUME NEW k \in 1..Len(payloads) PROVE payloads[k] = Before + k
      <4>1. CASE k \in 1..Len(data)
        BY <4>1, <3>2, <2>4
      <4>2. CASE k = Len(data) + 1
        <5>1. Before + k = handled + 1
          BY <4>2, <2>3, <2>4
        <5> QED BY <5>1, <4>2, <3>2
      <4> QED BY <4>1, <4>2, <3>2, <2>4
    <3>4. payloads # <<>>
      BY <3>2, <2>4
    <3> QED BY <3>2, <3>3, <3>4
  <2>6. FrameOutcome(r, op, f.fin, payloads)
    BY <2>3, <2>5, <1>1, FrameOutcomes
  <2>7. /\ state' \in {"closed", "frame_length", "error"}
        /\ state' = "frame_length" <=> r.fault = "none" /\ op # "CLOSE"
        /\ state' = "error" <=> r.fault # "none"
        /\ looping' \in BOOLEAN /\ (looping' => state' = "frame_length")
    BY <2>2 DEF GoesTo
  <2>8. /\ r.fault = "none" => /\ data' = IF f.fin THEN <<>> ELSE payloads
                               /\ continued' = IF f.fin THEN None ELSE op
        /\ r.fault # "none" => data' = payloads /\ continued' = continued
    BY <2>2 DEF DataAfter, ContinuedAfter
  <2>9. ~InRequest' /\ (Live' <=> state' = "frame_length") /\ (InFrame' <=> Live')
    BY <2>7 DEF InRequest, InFrame, Live
  <2>10. /\ f.op \notin Control => (OpenAfter(handled + 1) <=> ~f.fin)
         /\ f.op \in Control => Trouble \/ ~OpenAfter(handled + 1)
         /\ f.op \in Control /\ data # <<>> => Trouble
    BY <2>1, <1>2, OpenAfterHandled
  <2>11. Closes' /\ out' \in Seq(Outs) /\ sentClose' \in BOOLEAN /\ Upgraded'
    <3>1. CASE out' = out /\ sentClose' = sentClose
      <4>1. Closes'
        BY <3>1, <2>9, <1>1 DEF Closes, CloseIsLast
      <4>2. Upgraded'
        BY <3>1, <2>3 DEF Upgraded
      <4> QED BY <4>1, <4>2, <3>1, <1>1 DEF Types
    <3>2. CASE /\ ~sentClose
               /\ \E m \in Outs : /\ out' = Append(out, m) /\ m.op \in {"CLOSE", "PONG"}
                                  /\ sentClose' = (m.op = "CLOSE")
      <4>1. PICK m \in Outs : /\ out' = Append(out, m) /\ m.op \in {"CLOSE", "PONG"}
                              /\ sentClose' = (m.op = "CLOSE")
        BY <3>2
      <4>2. sentClose \/ m.op = "CLOSE" => sentClose'
        BY <4>1, <3>2
      <4>3. Closes'
        BY <4>1, <4>2, <3>2, <2>9, <1>1, ClosesKept
      <4>4. /\ out' \in Seq(Outs) /\ Len(out') = Len(out) + 1 /\ Len(out) \in Nat
            /\ \A i \in 1..Len(out) : out'[i] = out[i]
        BY <4>1, <1>1, SentOn DEF Types
      <4>5. Upgraded'
        BY <4>4, <2>3 DEF Upgraded
      <4> QED BY <4>1, <4>3, <4>4, <4>5
    <3> QED BY <3>1, <3>2, <2>2, <2>6 DEF FrameOutcome
  <2>12. Types'
    <3>1. forwarded' \in Seq(Seq(Nat))
      <4>1. CASE forwarded' = forwarded
        BY <4>1, <1>1 DEF Types
      <4>2. CASE forwarded' = Append(forwarded, payloads)
        BY <4>2, <2>5, <1>1, AppendProperties DEF Types
      <4> QED BY <4>1, <4>2, <2>2, <2>6 DEF FrameOutcome
    <3>2. data' \in Seq(Nat)
      <4>1. <<>> \in Seq(Nat)
        OBVIOUS
      <4> QED BY <4>1, <2>5, <2>8
    <3>3. continued' \in {None, "TEXT", "BINARY"}
      BY <2>3, <2>8, <1>1 DEF Types, Control
    <3>4. consumed' \in Nat /\ handled' \in Nat
      BY <2>2, <2>3
    <3> QED BY <3>1, <3>2, <3>3, <3>4, <2>7, <2>9, <2>11, <1>1, <1>2 DEF Types
  <2>13. Position'
    <3>1. handled' <= Len(sent) /\ handled' + 1 = handled + 2
      BY <2>2, <2>3, <2>4
    <3>2. Live' => consumed' = starts'[handled' + 1] + LineRead'
      <4>1. consumed' = starts'[handled' + 1] /\ consumed' \in Nat
        BY <3>1, <2>2, <2>3, <1>2
      <4>2. Live' => LineRead' = 0
        BY <4>1, <2>7, <2>9 DEF LineRead, Astray
      <4> QED BY <4>1, <4>2
    <3> QED BY <3>1, <3>2, <1>1, <1>2 DEF Position, Units, LineUnits, HeadUnits, FoldUnits
  <2>14. Phase'
    <3>1. \A i \in (handled' + 1)..Len(sent) : IsFrame(i)
      <4>1. \A i \in (handled' + 1)..Len(sent) : i \in (handled + 1)..Len(sent)
        BY <2>2, <2>3, <2>4
      <4> QED BY <4>1, <2>3, <1>1 DEF Phase
    <3> QED BY <3>1, <2>9, <2>11, <1>2 DEF Phase, IsFrame
  <2>15. LengthRead'
    BY <2>7 DEF LengthRead
  <2>16. ASSUME Live'
         PROVE  /\ r.fault = "none" /\ op # "CLOSE"
                /\ IF f.fin THEN data' = <<>> /\ continued' = None /\ Before' = handled + 1
                   ELSE /\ data' = payloads /\ continued' = op /\ Before' = Before
                        /\ f.op \notin Control
    <3>1. r.fault = "none" /\ op # "CLOSE"
      BY <2>16, <2>7, <2>9
    <3>2. CASE f.fin
      BY <3>1, <3>2, <2>2, <2>3, <2>8 DEF Before
    <3>3. CASE ~f.fin
      <4>1. data' = payloads /\ continued' = op /\ f.op \notin Control
        BY <3>1, <3>3, <2>3, <2>8
      <4>2. Before' = (handled + 1) - (Len(data) + 1)
        BY <4>1, <2>2, <2>5 DEF Before
      <4> QED BY <3>1, <3>3, <4>1, <4>2, <2>3, <2>4
    <3> QED BY <3>1, <3>2, <3>3
  <2>17. Fragments'
    <3>1. SUFFICES ASSUME Live'
                   PROVE  /\ continued' = None <=> data' = <<>>
                          /\ continued' # None => continued' = sent'[Before' + 1].op
                          /\ Len(data') <= handled'
                          /\ \A k \in 1..Len(data') : data'[k] = Before' + k
                          /\ \A i \in (Before' + 1)..handled' :
                                /\ IsData(i)' /\ ~sent'[i].fin
                                /\ sent'[i].op # "CONTINUATION" <=> i = Before' + 1
      BY <2>9 DEF Fragments
    <3>2. CASE f.fin
      <4>1. Len(data') = 0 /\ data' = <<>> /\ continued' = None
        BY <3>1, <3>2, <2>16
      <4>2. Before' = handled'
        BY <3>1, <3>2, <2>2, <2>16
      <4>3. /\ \A k \in 1..Len(data') : FALSE
            /\ \A i \in (Before' + 1)..handled' : FALSE
            /\ Len(data') <= handled'
        BY <4>1, <4>2, <2>2, <2>3
      <4> QED BY <4>1, <4>3
    <3>3. CASE ~f.fin
      <4>1. data' = payloads /\ continued' = op /\ Before' = Before /\ f.op \notin Control
        BY <3>1, <3>3, <2>16
      <4>2. continued' # None /\ data' # <<>>
        BY <4>1, <2>3, <2>5 DEF None, Control
      <4>3. Len(data') <= handled'
        BY <4>1, <2>2, <2>3, <2>4, <2>5
      <4>4. ASSUME NEW i \in (Before + 1)..(handled + 1)
            PROVE  /\ IsData(i) /\ ~sent[i].fin
                   /\ sent[i].op # "CONTINUATION" <=> i = Before + 1
        <5>1. CASE i = handled + 1
          <6>1. i = Before + 1 <=> continued = None
            BY <5>1, <2>3, <2>4, <1>1, EmptySeq DEF Types
          <6> QED BY <6>1, <5>1, <4>1, <3>3, <2>3 DEF IsData, IsFrame
        <5>2. CASE i \in (Before + 1)..handled
          BY <5>2, <2>3, <1>1 DEF Fragments
        <5> QED BY <5>1, <5>2, <2>3, <2>4
      <4>5. \A i \in (Before' + 1)..handled' : i \in (Before + 1)..(handled + 1)
        BY <4>1, <2>2
      <4>6. \A k \in 1..Len(data') : data'[k] = Before' + k
        BY <4>1, <2>5
      <4>7. continued' = sent'[Before' + 1].op
        <5>1. CASE f.op = "CONTINUATION"
          BY <5>1, <4>1, <2>1, <2>3, <1>1, <1>2 DEF Fragments, OpcodeOf
        <5>2. CASE f.op # "CONTINUATION"
          <6>1. Before = handled
            BY <5>2, <4>1, <2>3, <2>4, <1>1, EmptySeq DEF Types
          <6> QED BY <6>1, <5>2, <4>1, <2>1, <2>3, <1>2 DEF OpcodeOf
        <5> QED BY <5>1, <5>2
      <4> QED BY <4>1, <4>2, <4>3, <4>4, <4>5, <4>6, <4>7, <1>2 DEF IsData
    <3> QED BY <3>2, <3>3, <2>3
  <2>18. Before' \in Int /\ (Live' => Before <= Before')
    <3>1. Before' \in Int
      BY <2>2, <2>3, <2>12, LenProperties DEF Before, Types
    <3> QED BY <3>1, <2>3, <2>4, <2>16
  <2>19. Forwards'
    <3>1. CASE forwarded' = forwarded
      BY <3>1, <2>3, <2>4, <2>18, <1>1, <1>2, ForwardsStay
    <3>2. CASE forwarded' = Append(forwarded, payloads) /\ f.op \notin Control /\ f.fin
      <4>1. /\ forwarded' \in Seq(Seq(Nat)) /\ Len(forwarded') = Len(forwarded) + 1
            /\ Len(forwarded) \in Nat /\ forwarded'[Len(forwarded) + 1] = payloads
            /\ \A i \in 1..Len(forwarded) : forwarded'[i] = forwarded[i]
        <5>1. forwarded \in Seq(Seq(Nat)) /\ payloads \in Seq(Nat)
          BY <2>5, <1>1 DEF Types
        <5> QED BY <5>1, <3>2, SentOn
      <4>2. \A i \in 1..Len(forwarded') : i \in 1..Len(forwarded) \/ i = Len(forwarded) + 1
        BY <4>1
      <4>3. Live' => Before' = handled + 1
        BY <3>2, <2>16
      <4>4. ASSUME NEW i \in 1..Len(forwarded)
            PROVE  /\ forwarded[i] # <<>> /\ forwarded[i][1] \in Nat /\ forwarded[i][1] <= Before
                   /\ \A j \in 1..Len(forwarded[i]) : forwarded[i][j] \in 1..Len(sent)
                   /\ IsMessage({forwarded[i][j] : j \in 1..Len(forwarded[i])})
                   /\ \A j \in 1..(Len(forwarded[i]) - 1) : forwarded[i][j] < forwarded[i][j + 1]
        <5>1. forwarded[i] \in Seq(Nat) /\ forwarded[i] # <<>>
          BY <1>1, ElementOfSeq DEF Forwards, Types
        <5>2. forwarded[i][1] \in Nat
          BY <5>1
        <5> QED BY <5>1, <5>2, <2>3, <1>1 DEF Forwards, MessagesWhole
      <4>5. /\ payloads[1] = Before + 1 /\ (Live' => payloads[1] <= Before')
            /\ \A j \in 1..Len(payloads) : payloads[j] \in 1..Len(sent)
            /\ \A j \in 1..(Len(payloads) - 1) : payloads[j] < payloads[j + 1]
        <5>1. /\ payloads[1] = Before + 1
              /\ \A j \in 1..Len(payloads) : payloads[j] = Before + j
          BY <2>4, <2>5
        <5>2. Live' => payloads[1] <= Before'
          BY <5>1, <4>3, <2>3, <2>4
        <5>3. ASSUME NEW j \in 1..Len(payloads) PROVE Before + j \in 1..Len(sent)
          <6>1. j \in Nat /\ 1 <= j /\ j <= Len(data) + 1 /\ 0 <= Before
            BY <2>3, <2>4, <2>5
          <6>2. Before + j <= handled + 1 /\ handled + 1 <= Len(sent)
            BY <6>1, <2>3, <2>4
          <6>3. Before + j \in Int /\ 1 <= Before + j
            BY <6>1, <2>4
          <6>4. Before + j <= Len(sent)
            BY <6>2, <6>3, <2>3, <2>4
          <6> QED BY <6>3, <6>4, <2>4
        <5>4. ASSUME NEW j \in 1..(Len(payloads) - 1) PROVE payloads[j] < payloads[j + 1]
          <6>1. j \in 1..Len(payloads) /\ j + 1 \in 1..Len(payloads) /\ Before + j < Before + (j + 1)
            BY <2>4, <2>5
          <6>2. payloads[j] = Before + j /\ payloads[j + 1] = Before + (j + 1)
            BY <6>1, <5>1
          <6> QED BY <6>1, <6>2
        <5> QED BY <5>1, <5>2, <5>3, <5>4
      <4>6. IsMessage({payloads[j] : j \in 1..Len(payloads)})
        <5>1. {payloads[j] : j \in 1..Len(payloads)} = (Before + 1)..(handled + 1)
          <6>1. \A j \in 1..Len(payloads) : payloads[j] \in (Before + 1)..(handled + 1)
            BY <2>3, <2>4, <2>5
          <6>2. ASSUME NEW i \in (Before + 1)..(handled + 1)
                PROVE  i \in {payloads[j] : j \in 1..Len(payloads)}
            <7>1. i - Before \in 1..Len(payloads) /\ Before + (i - Before) = i
              BY <2>3, <2>4, <2>5
            <7>2. payloads[i - Before] = i
              BY <7>1, <2>5
            <7> QED BY <7>1, <7>2
          <6> QED BY <6>1, <6>2
        <5>2. IsMessage((Before + 1)..(handled + 1))
          BY <3>2, <2>1, <1>2, FragmentsAreMessage
        <5> QED BY <5>1, <5>2
      <4>7. ASSUME NEW i \in 1..Len(forwarded')
            PROVE  /\ forwarded'[i] # <<>>
                   /\ \A j \in 1..Len(forwarded'[i]) : forwarded'[i][j] \in 1..Len(sent')
                   /\ Live' => forwarded'[i][1] <= Before'
                   /\ \A j \in 1..(Len(forwarded'[i]) - 1) :
                         forwarded'[i][j] < forwarded'[i][j + 1]
        <5>1. CASE i \in 1..Len(forwarded)
          <6>1. PICK m : m = forwarded[i]
            OBVIOUS
          <6>2. forwarded'[i] = m
            BY <6>1, <5>1, <4>1
          <6>3. /\ m # <<>> /\ m[1] \in Nat /\ m[1] <= Before
                /\ \A j \in 1..Len(m) : m[j] \in 1..Len(sent)
                /\ \A j \in 1..(Len(m) - 1) : m[j] < m[j + 1]
            BY <6>1, <5>1, <4>4
          <6>4. Live' => m[1] <= Before'
            BY <6>3, <2>4, <2>18
          <6> QED BY <6>2, <6>3, <6>4, <1>2
        <5>2. CASE i = Len(forwarded) + 1
          BY <5>2, <4>1, <4>5, <2>5, <1>2
        <5> QED BY <5>1, <5>2, <4>2
      <4>8. ASSUME NEW i \in 1..Len(forwarded')
            PROVE  IsMessage({forwarded[i][j] : j \in 1..Len(forwarded[i])})'
        <5>1. PICK s : s = {forwarded'[i][j] : j \in 1..Len(forwarded'[i])}
          OBVIOUS
        <5>2. IsMessage(s)
          <6>1. CASE i \in 1..Len(forwarded)
            BY <6>1, <5>1, <4>1, <4>4
          <6>2. CASE i = Len(forwarded) + 1
            BY <6>2, <5>1, <4>1, <4>6
          <6> QED BY <6>1, <6>2, <4>2
        <5>3. IsMessage(s)'
          BY <5>2, <1>2 DEF IsMessage, IsData
        <5> QED BY <5>1, <5>3
      <4>9. ASSUME NEW i \in 1..(Len(forwarded') - 1)
            PROVE  forwarded'[i][1] < forwarded'[i + 1][1]
        <5>1. i \in 1..Len(forwarded) /\ i + 1 \in 1..Len(forwarded')
          BY <4>1
        <5>2. CASE i + 1 \in 1..Len(forwarded)
          <6>1. i \in 1..(Len(forwarded) - 1)
            BY <5>1, <5>2, <4>1
          <6>2. forwarded[i][1] < forwarded[i + 1][1]
            BY <6>1, <1>1 DEF Forwards, MessagesWhole
          <6>3. forwarded'[i] = forwarded[i] /\ forwarded'[i + 1] = forwarded[i + 1]
            BY <5>1, <5>2, <4>1
          <6> QED BY <6>2, <6>3
        <5>3. CASE i + 1 = Len(forwarded) + 1
          <6>1. forwarded'[i] = forwarded[i] /\ forwarded'[i + 1] = payloads
            BY <5>1, <5>3, <4>1
          <6>2. forwarded[i][1] \in Nat /\ forwarded[i][1] <= Before /\ payloads[1] = Before + 1
            BY <5>1, <4>4, <4>5
          <6> QED BY <6>1, <6>2, <2>4
        <5> QED BY <5>1, <5>2, <5>3, <4>2
      <4>10. MessagesWhole'
        BY <4>7, <4>8, <4>9 DEF MessagesWhole
      <4> QED BY <4>7, <4>10 DEF Forwards
    <3> QED BY <3>1, <3>2, <2>2, <2>3, <2>6 DEF FrameOutcome
  <2>20. Errors'
    <3>1. Trouble' = Trouble
      BY <1>1, <1>2, TroubleStays
    <3>2. OpenAfter(handled)' <=> OpenAfter(handled + 1)
      BY <2>2, <1>2 DEF OpenAfter, IsData
    <3>3. ASSUME Live' PROVE Trouble \/ (OpenAfter(handled + 1) <=> continued' # None)
      <4>1. CASE f.op \in Control
        BY <4>1, <3>3, <2>3, <2>10, <2>16
      <4>2. CASE f.op \notin Control
        <5>1. op # None
          BY <2>3 DEF None
        <5> QED BY <5>1, <4>2, <3>3, <2>3, <2>10, <2>16
      <4> QED BY <4>1, <4>2
    <3>4. ASSUME state' = "error" PROVE sentClose' \/ fault' = "send" \/ Trouble
      <4>1. CASE r.fault = "send"
        BY <4>1, <2>2
      <4>2. CASE r.fault = "refused" /\ sentClose /\ r.sentClose = sentClose
        BY <4>2, <2>2
      <4>3. CASE op = "PING" /\ Len(payloads) >= 2
        <5>1. data # <<>>
          BY <4>3, <2>4, <2>5, EmptySeq
        <5>2. f.op \in Control
          BY <4>3, <2>3 DEF Control
        <5> QED BY <5>1, <5>2, <2>10
      <4> QED BY <4>1, <4>2, <4>3, <3>4, <2>6, <2>7 DEF FrameOutcome
    <3>5. OnlyFaultsEnd'
      BY <3>1, <3>4 DEF OnlyFaultsEnd, Trouble, IsFrame
    <3> QED BY <3>1, <3>2, <3>3, <3>5 DEF Errors
  <2> QED BY <2>11, <2>12, <2>13, <2>14, <2>15, <2>17, <2>19, <2>20 DEF Session
<1> QED BY <1>3, <1>4, <1>5

-----------------------------------------------------------------------------
(* The invariant.                                                            *)

\* A client that was accepted has sent and got nothing.
LEMMA InitialInvariant ==
    ASSUME Init
    PROVE  IInv
<1>1. /\ state = "request" /\ needed = 0 /\ frameLength = 0 /\ continued = None /\ data = <<>>
      /\ sentClose = FALSE /\ secKey = FALSE /\ sent = <<>> /\ starts = <<0>>
      /\ delivered = 0 /\ consumed = 0 /\ handled = 0 /\ looping = FALSE /\ page = FALSE
      /\ out = <<>> /\ forwarded = <<>>
  BY DEF Init
<1>2. /\ Len(sent) = 0 /\ Len(out) = 0 /\ Len(data) = 0 /\ Len(forwarded) = 0
      /\ Len(starts) = 1 /\ starts[1] = 0 /\ starts \in Seq(Nat)
      /\ sent \in Seq(Requests \cup Frames) /\ data \in Seq(Nat) /\ out \in Seq(Outs)
      /\ forwarded \in Seq(Seq(Nat))
  BY <1>1
<1>3. InRequest /\ Live /\ ~InFrame
  BY <1>1 DEF InRequest, InFrame, Live
<1>4. \A i \in 1..0 : FALSE
  OBVIOUS
<1>5. Types
  BY <1>1, <1>2, <1>3 DEF Types
<1>6. Position
  BY <1>1, <1>2, <1>4 DEF Position, LineRead, Astray
<1>7. Phase
  BY <1>1, <1>2, <1>3, <1>4 DEF Phase, Upgraded
<1>8. Closes
  BY <1>1, <1>2, <1>4 DEF Closes, CloseIsLast
<1>9. LengthRead
  BY <1>1 DEF LengthRead
<1>10. Fragments
  BY <1>1, <1>2, <1>4 DEF Fragments, Before
<1>11. Forwards
  BY <1>1, <1>2, <1>4 DEF Forwards, MessagesWhole
<1>12. Errors
  BY <1>1, <1>4 DEF Errors, OpenAfter, OnlyFaultsEnd
<1>13. Served
  BY DEF Init, Served
<1> QED BY <1>5, <1>6, <1>7, <1>8, <1>9, <1>10, <1>11, <1>12, <1>13 DEF IInv, Session

\* Another unit, and the client, the device or a static server.
LEMMA StepOthers ==
    ASSUME IInv, \/ \E n \in 1..(MaxItems * (HeadUnits + 2)) : OnRecv(n)
                 \/ LosesPage \/ DeviceSendsData
                 \/ \E n \in servers : ServerSends(n) \/ ServerEnds(n)
    PROVE  Session'
<1>1. Types /\ Position /\ Session
  BY DEF IInv, Session
<1>2. ASSUME NEW n \in 1..(MaxItems * (HeadUnits + 2)), OnRecv(n) PROVE Session'
  <2>1. /\ delivered' = delivered + n /\ looping' = TRUE /\ state \notin {"closed", "error"}
        /\ delivered + n <= starts[Len(starts)]
        /\ UNCHANGED <<parser, sent, starts, consumed, handled, page, out, forwarded, fault>>
    BY <1>2 DEF OnRecv, outside
  <2>2. n \in Nat
    BY BoundsAssumption DEF HeadUnits
  <2>3. Types'
    <3>1. delivered' \in Nat
      BY <2>1, <2>2, <1>1 DEF Types
    <3>2. Live'
      BY <2>1, <1>1 DEF Types, Live, InRequest, InFrame, parser
    <3> QED BY <3>1, <3>2, <2>1, <1>1 DEF Types, parser
  <2> QED BY <2>1, <2>3, <1>1, Receiving
<1>3. ASSUME LosesPage PROVE Session'
  <2>1. page' = FALSE /\ UNCHANGED <<parser, sent, starts, delivered, consumed, handled, looping,
                                     out, forwarded, fault>>
    BY <1>3 DEF LosesPage, outside
  <2>2. Types'
    BY <2>1, <1>1 DEF Types, parser, Live, InRequest, InFrame
  <2>3. delivered' <= starts[Len(starts)]
    BY <2>1, <1>1, Facts DEF Position
  <2> QED BY <2>1, <2>2, <2>3, <1>1, Receiving
<1>4. ASSUME DeviceSendsData PROVE Session'
  <2>6. PICK r \in Attempts("TEXT", 0) :
            out' = r.out /\ state' = IF r.fault = "none" THEN state ELSE "closed"
    BY <1>4 DEF DeviceSendsData, Attempts
  <2>2. /\ ~looping
        /\ UNCHANGED <<needed, frameLength, continued, data, sentClose, secKey, sent, starts,
                       delivered, consumed, handled, looping, page, forwarded, fault>>
    BY <1>4 DEF DeviceSendsData, outside
  <2>3. \/ r.fault \in {"send", "refused"} /\ r.out = out
        \/ /\ r.fault = "none" /\ ~sentClose
           /\ \E m \in Outs : r.out = Append(out, m) /\ m.op \in {"TEXT", "CONTINUATION"}
    BY <2>6, <1>1, FrameSent
  <2>4. CASE r.fault \in {"send", "refused"} /\ r.out = out
    <3>1. state' = "closed" /\ out' = out
      BY <2>6, <2>4
    <3> QED BY <3>1, <2>2, <1>1, Closing
  <2>5. CASE /\ r.fault = "none" /\ ~sentClose
             /\ \E m \in Outs : r.out = Append(out, m) /\ m.op \in {"TEXT", "CONTINUATION"}
    <3>1. PICK m \in Outs : r.out = Append(out, m) /\ m.op \in {"TEXT", "CONTINUATION"}
      BY <2>5
    <3>2. /\ out' = Append(out, m) /\ m.op # "UPGRADE" /\ m.op # "CLOSE" /\ ~sentClose
          /\ state' = state
      BY <3>1, <2>6, <2>5
    <3> QED BY <3>2, <2>2, <1>1, MessageSent DEF parser
  <2> QED BY <2>3, <2>4, <2>5
<1>5. ASSUME NEW n \in servers, ServerSends(n) PROVE Session'
  <2>1. /\ ~looping
        /\ \/ out' = Append(out, Reply("RELAYED", n)) /\ UNCHANGED state
           \/ state' = "closed" /\ UNCHANGED out
        /\ UNCHANGED <<needed, frameLength, continued, data, sentClose, secKey, sent, starts,
                       delivered, consumed, handled, looping, page, forwarded, fault>>
    BY <1>5 DEF ServerSends, outside
  <2>2. CASE state' = "closed" /\ UNCHANGED out
    BY <2>1, <2>2, <1>1, Closing
  <2>3. CASE out' = Append(out, Reply("RELAYED", n)) /\ UNCHANGED state
    <3>1. PICK m : m = Reply("RELAYED", n)
      OBVIOUS
    <3>2. m \in Outs /\ m.op = "RELAYED"
      BY <3>1 DEF Reply, Outs, IInv, Served
    <3>3. out' = Append(out, m) /\ m.op # "UPGRADE" /\ m.op # "CLOSE"
      BY <3>1, <3>2, <2>3
    <3> QED BY <3>2, <3>3, <2>1, <2>3, <1>1, MessageSent DEF parser
  <2> QED BY <2>1, <2>2, <2>3
<1>6. ASSUME NEW n \in servers, ServerEnds(n) PROVE Session'
  <2>1. /\ state' = "closed" /\ ~looping
        /\ UNCHANGED <<needed, frameLength, continued, data, sentClose, secKey, sent, starts,
                       delivered, consumed, handled, looping, page, out, forwarded>>
    BY <1>6 DEF ServerEnds
  <2> QED BY <2>1, <1>1, Closing
<1> QED BY <1>2, <1>3, <1>4, <1>5, <1>6

\* Any step.
LEMMA InvariantStep ==
    ASSUME IInv, [Next]_vars
    PROVE  IInv'
<1>1. Session /\ Served /\ Types /\ Position
  BY DEF IInv, Session
<1>2. CASE UNCHANGED vars
  <2>1. UNCHANGED <<parser, sent, starts, delivered, consumed, handled, looping, page, out,
                    forwarded, servers, fault>>
    BY <1>2 DEF vars, outside
  <2>2. Types'
    BY <2>1, <1>1 DEF Types, parser, Live, InRequest, InFrame
  <2>3. delivered' <= starts[Len(starts)]
    BY <2>1, <1>1, Facts DEF Position
  <2>4. Session'
    BY <2>1, <2>2, <2>3, <1>1, Receiving
  <2> QED BY <2>1, <2>4, <1>1 DEF IInv, Served
<1>3. CASE Next
  <2>1. Session'
    <3>1. ASSUME NEW item \in Requests \cup Frames, ClientSends(item) PROVE Session'
      BY <3>1, <1>1, StepClientSends
    <3> QED BY <3>1, <1>1, <1>3, StepOthers, StepRecvRequest, StepRecvHeaders,
               StepRecvStray, StepRecvFrameLength, StepRecvFrame DEF Next, IInv
  <2>2. servers' \subseteq servers \cup {handled'}
    <3>1. ASSUME NEW item \in Requests \cup Frames, ClientSends(item) PROVE servers' = servers
      BY <3>1 DEF ClientSends, outside
    <3>2. ASSUME NEW n \in 1..(MaxItems * (HeadUnits + 2)), OnRecv(n) PROVE servers' = servers
      BY <3>2 DEF OnRecv, outside
    <3>3. LosesPage \/ DeviceSendsData => servers' = servers
      BY DEF LosesPage, DeviceSendsData, outside
    <3>4. ASSUME NEW n \in servers, ServerSends(n) \/ ServerEnds(n) PROVE servers' \subseteq servers
      BY <3>4 DEF ServerSends, ServerEnds, outside
    <3>5. RecvRequest \/ RecvStray \/ RecvFrameLength \/ RecvFrame => servers' = servers
      BY DEF RecvRequest, RecvStray, RecvFrameLength, RecvFrame, outside
    <3>6. ASSUME RecvHeaders PROVE servers' \subseteq servers \cup {handled'}
      BY <3>6 DEF RecvHeaders
    <3> QED BY <3>1, <3>2, <3>3, <3>4, <3>5, <3>6, <1>3 DEF Next
  <2>3. handled' \in Nat
    BY <2>1 DEF Session, Types
  <2> QED BY <2>1, <2>2, <2>3, <1>1 DEF IInv, Served
<1> QED BY <1>2, <1>3

\* The parser is always between two units of one item, the fragments that are kept
\* begin a message, and continued_opcode says so unless a control frame came inside
\* one (ws_recv_loop and its handlers).
THEOREM Inductive == Spec => []IInv
<1>1. Init => IInv
  BY InitialInvariant
<1>2. IInv /\ [Next]_vars => IInv'
  BY InvariantStep
<1> QED BY <1>1, <1>2, PTL DEF Spec

\* No frame follows a close frame: sent_close of ws_send_frame.
THEOREM NothingAfterClose == Spec => []CloseIsLast
<1>1. IInv => CloseIsLast
  BY DEF IInv, Session, Closes
<1> QED BY <1>1, Inductive, PTL

\* The device gets whole messages in their order: should_keep of on_frame and the
\* data that ws_recv_frame keeps.
THEOREM MessagesAreWhole == Spec => []MessagesWhole
<1>1. IInv => MessagesWhole
  BY DEF IInv, Session, Forwards
<1> QED BY <1>1, Inductive, PTL

\* A connection fails only by a fault or by what its client sent (ws_recv_loop's
\* error state): an item it may not send, a control frame inside a message, a frame of
\* a text that is not UTF-8 by itself, or a folded header.
THEOREM ErrorsHaveCauses == Spec => []OnlyFaultsEnd
<1>1. IInv => OnlyFaultsEnd
  BY DEF IInv, Session, Errors
<1> QED BY <1>1, Inductive, PTL

-----------------------------------------------------------------------------
(* The input as a stream of packets.                                         *)

\* Nothing is read, and no item handled, before it has arrived.
Behind == Live => consumed <= delivered /\ (Astray => starts[handled + 1] <= delivered)

\* The first unit of the item that is parsed next, and its units.
From == consumed - LineRead
Rest == IF state \in {"closed", "error"} THEN <<>> ELSE [i \in 1..(delivered - From) |-> From + i]

\* The terms of FramedStream; Live is what it calls open.
LEMMA FramedTerms ==
    ASSUME Types, Position
    PROVE  /\ Framed!BytesSent = starts[Len(sent) + 1] /\ starts[Len(sent) + 1] \in Nat
           /\ \A m, n : Framed!Span(m, n) = [i \in 1..(n - m) |-> m + i]
           /\ Live <=> state \notin {"closed", "error"}
           /\ Live => /\ From = starts[handled + 1] /\ From \in Nat
                      /\ Rest = Framed!Span(From, delivered) /\ delivered \in Nat
           /\ \A k \in 1..Len(sent) : Framed!SizeOf(k) = Units(sent[k])
<1>1. /\ Len(sent) \in Nat /\ Len(starts) = Len(sent) + 1 /\ handled \in 0..Len(sent)
      /\ \A i \in 1..(Len(sent) + 1) : starts[i] \in Nat
      /\ \A i \in 1..Len(sent) : sent[i] \in Requests \cup Frames
  BY Facts
<1>2. Framed!BytesSent = starts[Len(sent) + 1] /\ starts[Len(sent) + 1] \in Nat
  BY <1>1 DEF Framed!BytesSent
<1>3. \A m, n : Framed!Span(m, n) = [i \in 1..(n - m) |-> m + i]
  BY DEF Framed!Span
<1>4. Live <=> state \notin {"closed", "error"}
  BY DEF Types, Live, InRequest, InFrame
<1>5. LineRead \in Int
  BY DEF LineRead, LineUnits
<1>6. ASSUME Live
      PROVE  /\ From = starts[handled + 1] /\ From \in Nat
             /\ Rest = Framed!Span(From, delivered) /\ delivered \in Nat
  <2>1. handled + 1 \in 1..(Len(sent) + 1)
    BY <1>1
  <2>2. starts[handled + 1] \in Nat /\ consumed = starts[handled + 1] + LineRead
    BY <1>1, <1>6, <2>1 DEF Position
  <2>3. From = starts[handled + 1]
    BY <1>5, <2>2 DEF From
  <2> QED BY <1>3, <1>4, <1>6, <2>2, <2>3 DEF Rest, Types
<1>7. ASSUME NEW k \in 1..Len(sent) PROVE Framed!SizeOf(k) = Units(sent[k])
  <2>1. starts[k + 1] = starts[k] + Units(sent[k]) /\ starts[k] \in Nat /\ Units(sent[k]) \in Nat
    BY <1>1, Items DEF Position
  <2> QED BY <2>1 DEF Framed!SizeOf
<1> QED BY <1>2, <1>3, <1>4, <1>6, <1>7

\* What is left of a sequence without its first k elements.
LEMMA Tails ==
    ASSUME NEW s \in Seq(Nat), NEW k \in Nat, k <= Len(s)
    PROVE  /\ SubSeq(s, k + 1, Len(s)) \in Seq(Nat)
           /\ Len(SubSeq(s, k + 1, Len(s))) = Len(s) - k
           /\ \A i \in 1..(Len(s) - k) : SubSeq(s, k + 1, Len(s))[i] = s[k + i]
OBVIOUS

\* A span, by its length and its parts.
LEMMA SpanParts ==
    ASSUME NEW m \in Nat, NEW n \in Nat, m <= n
    PROVE  /\ Framed!Span(m, n) \in Seq(Nat) /\ Len(Framed!Span(m, n)) = n - m
           /\ \A p \in Nat : n <= p => Framed!Span(m, n) \o Framed!Span(n, p) = Framed!Span(m, p)
           /\ \A k \in Nat : m + k <= n =>
                SubSeq(Framed!Span(m, n), k + 1, n - m) = Framed!Span(m + k, n)
<1>1. ASSUME NEW a \in Nat, NEW b \in Nat, a <= b
      PROVE  /\ Framed!Span(a, b) \in Seq(Nat) /\ Len(Framed!Span(a, b)) = b - a
             /\ \A i \in 1..(b - a) : Framed!Span(a, b)[i] = a + i
  <2>1. b - a \in Nat /\ \A i \in 1..(b - a) : a + i \in Nat
    BY <1>1
  <2>2. Framed!Span(a, b) \in [1..(b - a) -> Nat]
    BY <2>1 DEF Framed!Span
  <2> QED BY <2>1, <2>2 DEF Framed!Span
<1>2. ASSUME NEW p \in Nat, n <= p
      PROVE  Framed!Span(m, n) \o Framed!Span(n, p) = Framed!Span(m, p)
  <2>1. PICK s : s = Framed!Span(m, n)
    OBVIOUS
  <2>2. PICK t : t = Framed!Span(n, p)
    OBVIOUS
  <2>3. PICK u : u = Framed!Span(m, p)
    OBVIOUS
  <2>4. s \in Seq(Nat) /\ Len(s) = n - m /\ \A i \in 1..(n - m) : s[i] = m + i
    BY <1>1, <2>1
  <2>5. t \in Seq(Nat) /\ Len(t) = p - n /\ \A i \in 1..(p - n) : t[i] = n + i
    BY <1>1, <1>2, <2>2
  <2>6. m <= p
    BY <1>2
  <2>7. u \in Seq(Nat) /\ Len(u) = p - m /\ \A i \in 1..(p - m) : u[i] = m + i
    BY <1>1, <2>3, <2>6
  <2>8. s \o t \in Seq(Nat) /\ Len(s \o t) = Len(s) + Len(t)
    BY <2>4, <2>5, ConcatProperties
  <2>9. Len(s \o t) = p - m
    BY <2>4, <2>5, <2>8
  <2>10. ASSUME NEW i \in 1..(p - m) PROVE (s \o t)[i] = u[i]
    <3>0. (s \o t)[i] = IF i <= Len(s) THEN s[i] ELSE t[i - Len(s)]
      <4>1. i \in 1..(Len(s) + Len(t))
        BY <2>8, <2>9
      <4> QED BY <4>1, <2>4, <2>5, ConcatProperties
    <3>1. CASE i <= n - m
      BY <3>0, <3>1, <2>4, <2>7
    <3>2. CASE ~(i <= n - m)
      <4>1. PICK j \in Int : j = i - (n - m)
        OBVIOUS
      <4>2. j \in 1..(p - n) /\ n + j = m + i
        BY <3>2, <4>1
      <4>3. (s \o t)[i] = t[j]
        BY <3>0, <3>2, <4>1, <2>4
      <4> QED BY <4>2, <4>3, <2>5, <2>7
    <3> QED BY <3>1, <3>2
  <2>11. PICK v : v = s \o t
    OBVIOUS
  <2>12. v \in Seq(Nat) /\ Len(v) = Len(u) /\ \A i \in 1..Len(v) : v[i] = u[i]
    BY <2>7, <2>8, <2>9, <2>10, <2>11
  <2>13. v = u
    BY <2>7, <2>12, SeqEqual
  <2> QED BY <2>1, <2>2, <2>3, <2>11, <2>13
<1>3. ASSUME NEW k \in Nat, m + k <= n
      PROVE  SubSeq(Framed!Span(m, n), k + 1, n - m) = Framed!Span(m + k, n)
  <2>1. PICK s : s = Framed!Span(m, n)
    OBVIOUS
  <2>2. PICK q \in Nat : q = m + k
    OBVIOUS
  <2>3. PICK u : u = Framed!Span(q, n)
    OBVIOUS
  <2>4. s \in Seq(Nat) /\ Len(s) = n - m /\ \A i \in 1..(n - m) : s[i] = m + i
    BY <1>1, <2>1
  <2>5. u \in Seq(Nat) /\ Len(u) = n - q /\ \A i \in 1..(n - q) : u[i] = q + i
    BY <1>1, <1>3, <2>2, <2>3
  <2>6. PICK v : v = SubSeq(s, k + 1, n - m)
    OBVIOUS
  <2>7. n - m \in Nat /\ k <= n - m /\ n - q = (n - m) - k
    BY <1>3, <2>2
  <2>8. v \in Seq(Nat) /\ Len(v) = (n - m) - k /\ \A i \in 1..((n - m) - k) : v[i] = s[k + i]
    <3>1. v = SubSeq(s, k + 1, Len(s)) /\ k <= Len(s)
      BY <2>4, <2>6, <2>7
    <3>2. /\ SubSeq(s, k + 1, Len(s)) \in Seq(Nat)
          /\ Len(SubSeq(s, k + 1, Len(s))) = Len(s) - k
          /\ \A i \in 1..(Len(s) - k) : SubSeq(s, k + 1, Len(s))[i] = s[k + i]
      BY <2>4, <3>1, Tails
    <3>3. Len(s) - k = (n - m) - k
      BY <2>4
    <3> QED BY <3>1, <3>2, <3>3
  <2>9. ASSUME NEW i \in 1..(n - q) PROVE v[i] = u[i]
    <3>1. v[i] = s[k + i] /\ k + i \in 1..(n - m) /\ m + (k + i) = q + i
      BY <2>2, <2>7, <2>8
    <3> QED BY <3>1, <2>4, <2>5
  <2>10. v = u
    <3>1. Len(v) = Len(u) /\ \A i \in 1..Len(v) : v[i] = u[i]
      BY <2>5, <2>7, <2>8, <2>9
    <3> QED BY <3>1, <2>5, <2>8, SeqEqual
  <2> QED BY <2>1, <2>2, <2>3, <2>6, <2>10
<1> QED BY <1>1, <1>2, <1>3

\* A step that reads no unit, or only units that have arrived.
LEMMA BehindStep ==
    ASSUME IInv, Behind, [Next]_vars
    PROVE  Behind'
<1>1. /\ Types /\ Position /\ delivered \in Nat /\ consumed \in Nat
      /\ Live <=> state \notin {"closed", "error"}
      /\ IInv'
  BY FramedTerms, InvariantStep DEF IInv, Session, Types
<1>2. Live' <=> state' \notin {"closed", "error"}
  BY <1>1 DEF IInv, Session, Types, Live, InRequest, InFrame
<1>3. ASSUME Astray' <=> Astray, starts'[handled' + 1] = starts[handled + 1],
             starts[handled + 1] \in Nat, consumed' = consumed, delivered' >= delivered,
             delivered' \in Nat, Live' => Live
      PROVE  Behind'
  BY <1>1, <1>3 DEF Behind
<1>4. handled + 1 \in 1..(Len(sent) + 1) /\ starts[handled + 1] \in Nat
  <2>1. Len(sent) \in Nat /\ handled \in 0..Len(sent) /\ \A i \in 1..(Len(sent) + 1) : starts[i] \in Nat
    BY <1>1, Facts
  <2> QED BY <2>1
<1>5. ASSUME UNCHANGED <<consumed, starts, sent, handled>>, delivered' >= delivered,
             delivered' \in Nat, Live' => Live
      PROVE  Behind'
  <2>1. Astray' <=> Astray
    BY <1>5 DEF Astray
  <2> QED BY <2>1, <1>3, <1>4, <1>5
<1>6. CASE UNCHANGED vars
  BY <1>1, <1>2, <1>5, <1>6 DEF vars, parser
<1>7. ASSUME NEW item \in Requests \cup Frames, ClientSends(item) PROVE Behind'
  <2>1. consumed' = consumed /\ delivered' = delivered /\ state' = state
    BY <1>7 DEF ClientSends, parser
  <2>2. (Astray' <=> Astray) /\ starts'[handled' + 1] = starts[handled + 1]
    BY <1>1, <1>7, SendsBehind
  <2> QED BY <2>1, <2>2, <1>1, <1>2, <1>3, <1>4
<1>8. CASE LosesPage \/ DeviceSendsData \/ \E n \in servers : ServerSends(n) \/ ServerEnds(n)
  <2>1. /\ UNCHANGED <<consumed, starts, sent, handled, delivered>>
        /\ state \notin {"closed", "error"} \/ state' = state
    BY <1>8 DEF LosesPage, DeviceSendsData, ServerSends, ServerEnds, parser
  <2> QED BY <2>1, <1>1, <1>2, <1>5
<1>9. CASE \E n \in 1..(MaxItems * (HeadUnits + 2)) : OnRecv(n)
  <2>1. PICK n \in 1..(MaxItems * (HeadUnits + 2)) : OnRecv(n)
    BY <1>9
  <2>2. n \in Nat
    BY BoundsAssumption DEF HeadUnits
  <2>3. /\ UNCHANGED <<consumed, starts, sent, handled>> /\ delivered' = delivered + n
        /\ state' = state
    BY <2>1 DEF OnRecv, parser
  <2> QED BY <2>2, <2>3, <1>1, <1>2, <1>5
<1>10. CASE RecvRequest
  <2>1. /\ UNCHANGED <<starts, sent, handled, delivered>> /\ ~Astray /\ Live
        /\ consumed' = consumed \/ (consumed' = consumed + 1 /\ Unread >= LineUnits)
    BY <1>10, <1>1 DEF RecvRequest, Live, InRequest, LineUnits, Unread
  <2>2. consumed' \in Nat /\ consumed' >= consumed /\ consumed' <= delivered
    BY <2>1, <1>1 DEF Behind, Unread, LineUnits
  <2>3. ~Astray'
    BY <2>1, <2>2, <1>1, <1>4 DEF Astray
  <2> QED BY <2>1, <2>2, <2>3, <1>1 DEF Behind
<1>11. CASE RecvHeaders
  <2>1. /\ UNCHANGED <<starts, sent, delivered>> /\ Live /\ Session /\ state = "headers"
    BY <1>11 DEF RecvHeaders, Live, InRequest, IInv
  <2>2. CASE Unread < 2 + FoldUnits(Current)
    <3>1. UNCHANGED <<handled, consumed>>
      BY <1>11, <2>2 DEF RecvHeaders
    <3> QED BY <2>1, <3>1, <1>1, <1>5
  <2>3. CASE ~(Unread < 2 + FoldUnits(Current))
    <3>1. consumed' = consumed + 2 /\ handled' = handled + 1
      BY <1>11, <2>3 DEF RecvHeaders
    <3>2. /\ consumed = starts[handled + 1] + 1 /\ handled \in Nat
          /\ starts[handled + 2] = starts[handled + 1] + (3 + FoldUnits(Current))
          /\ starts[handled + 2] \in Nat /\ FoldUnits(Current) \in {0, 1}
      BY <2>1, <2>3, HeadersRead
    <3>3. consumed + 2 <= delivered /\ starts[handled + 2] <= delivered
      BY <2>3, <3>2, <1>1, <1>4 DEF Unread
    <3>4. handled' + 1 = handled + 2
      BY <3>1, <3>2
    <3>5. consumed' <= delivered' /\ starts'[handled' + 1] <= delivered'
      BY <2>1, <3>1, <3>3, <3>4
    <3> QED BY <3>5 DEF Behind
  <2> QED BY <2>2, <2>3
<1>12. CASE RecvStray
  <2>1. UNCHANGED <<starts, sent, handled, delivered>> /\ Astray /\ Live
    BY <1>12, <1>1 DEF RecvStray, Types
  <2>2. state' = "error" \/ consumed' = starts[handled + 1]
    BY <1>12 DEF RecvStray, GoesTo
  <2>3. starts[handled + 1] <= delivered
    BY <2>1 DEF Behind
  <2> QED BY <2>1, <2>2, <2>3, <1>2 DEF Behind
<1>13. CASE RecvFrameLength
  <2>1. UNCHANGED <<consumed, starts, sent, handled, delivered>> /\ Live
    BY <1>13 DEF RecvFrameLength, Live, InFrame
  <2> QED BY <2>1, <1>1, <1>5
<1>14. CASE RecvFrame
  <2>1. UNCHANGED <<starts, sent, delivered>> /\ Live /\ Session /\ state = "frame"
    BY <1>14 DEF RecvFrame, Live, InFrame, IInv
  <2>2. CASE needed # 0 \/ frameLength = 0 \/ Unread < frameLength
    <3>1. UNCHANGED <<handled, consumed>>
      BY <1>14, <2>2 DEF RecvFrame
    <3> QED BY <2>1, <3>1, <1>1, <1>5
  <2>3. CASE ~(needed # 0 \/ frameLength = 0 \/ Unread < frameLength)
    <3>1. consumed' = consumed + frameLength /\ (state' = "error" \/ handled' = handled + 1)
      BY <1>14, <2>3 DEF RecvFrame, GoesTo
    <3>2. /\ frameLength \in Nat /\ consumed + frameLength = starts[handled + 2]
          /\ handled \in Nat
      BY <2>1, FrameHandled
    <3>3. consumed' <= delivered'
      BY <2>1, <2>3, <3>1, <3>2, <1>1 DEF Unread
    <3>4. handled' = handled + 1 => starts'[handled' + 1] = consumed'
      <4>1. (handled + 1) + 1 = handled + 2
        BY <3>2
      <4> QED BY <2>1, <3>1, <3>2, <4>1
    <3> QED BY <3>1, <3>3, <3>4, <1>2 DEF Behind
  <2> QED BY <2>2, <2>3
<1> QED BY <1>6, <1>7, <1>8, <1>9, <1>10, <1>11, <1>12, <1>13, <1>14 DEF Next

\* The parser is where it started in the item, and has no more than was sent.
LEMMA Reading ==
    ASSUME IInv, Behind, Live
    PROVE  /\ From \in Nat /\ From <= delivered /\ delivered \in Nat /\ delivered <= Framed!BytesSent
           /\ From = starts[handled + 1] /\ Rest = Framed!Span(From, delivered)
           /\ Len(Rest) = delivered - From
           /\ handled \in Nat /\ Len(sent) \in Nat /\ handled <= Len(sent)
           /\ Len(starts) = Len(sent) + 1
           /\ consumed = From + LineRead /\ LineRead \in {-1, 0, 1} /\ consumed <= delivered
           /\ Framed!BytesSent \in Nat
<1>1. Types /\ Position
  BY DEF IInv, Session
<1>2. /\ From \in Nat /\ delivered \in Nat /\ Rest = Framed!Span(From, delivered)
      /\ From = starts[handled + 1] /\ Framed!BytesSent = starts[Len(sent) + 1]
      /\ Framed!BytesSent \in Nat
  BY <1>1, FramedTerms
<1>3. LineRead \in {-1, 0, 1} /\ (LineRead = -1 => Astray)
  BY DEF LineRead, LineUnits
<1>4. consumed = From + LineRead /\ consumed <= delivered
  BY <1>1, <1>2, <1>3 DEF Position, Behind, From
<1>5. From <= delivered
  <2>1. CASE LineRead = -1
    BY <2>1, <1>2, <1>3 DEF Behind
  <2>2. CASE LineRead \in {0, 1}
    BY <2>2, <1>2, <1>4
  <2> QED BY <2>1, <2>2, <1>3
<1>6. Len(Rest) = delivered - From
  BY <1>2, <1>5, SpanParts
<1>7. /\ handled \in Nat /\ Len(sent) \in Nat /\ handled <= Len(sent) /\ Len(starts) = Len(sent) + 1
      /\ delivered <= Framed!BytesSent
  BY <1>1, <1>2, Facts DEF Position
<1> QED BY <1>2, <1>3, <1>4, <1>5, <1>6, <1>7

\* When there is a unit to read, there is an item that it is of.
LEMMA CurrentItem ==
    ASSUME IInv, Behind, Live, delivered > From
    PROVE  /\ handled + 1 \in 1..Len(sent) /\ handled + 1 < Len(starts)
           /\ Current \in Requests \cup Frames
           /\ Framed!SizeOf(handled + 1) = Units(Current)
           /\ InRequest => Units(Current) = 3 + FoldUnits(Current) /\ FoldUnits(Current) \in {0, 1}
           /\ InFrame => /\ Units(Current) = FrameLength(Current)
                         /\ FrameLength(Current) \in Nat /\ FrameLength(Current) >= HeadUnits + Current.ext
                         /\ Current.ext \in {0, 1}
           /\ Units(Current) \in Nat
<1>1. Types /\ Position /\ Phase
  BY DEF IInv, Session
<1>2. /\ From \in Nat /\ delivered \in Nat /\ delivered <= Framed!BytesSent
      /\ From = starts[handled + 1] /\ handled \in Nat /\ Len(sent) \in Nat /\ handled <= Len(sent)
      /\ Len(starts) = Len(sent) + 1
  BY Reading
<1>3. Framed!BytesSent = starts[Len(sent) + 1] /\ Framed!BytesSent \in Nat
  BY <1>1, FramedTerms
<1>4. handled # Len(sent)
  BY <1>2, <1>3
<1>5. handled + 1 \in 1..Len(sent) /\ handled + 1 < Len(starts)
  BY <1>2, <1>4
<1>6. Current \in Requests \cup Frames
  BY <1>1, <1>5, Facts DEF Current
<1>7. Framed!SizeOf(handled + 1) = Units(Current)
  <2>1. PICK k \in 1..Len(sent) : k = handled + 1
    BY <1>5
  <2>2. Framed!SizeOf(k) = Units(sent[k])
    BY <1>1, FramedTerms
  <2> QED BY <2>1, <2>2 DEF Current
<1>8. Units(Current) \in Nat
  BY <1>6, Items
<1>9. ASSUME InRequest PROVE Units(Current) = 3 + FoldUnits(Current) /\ FoldUnits(Current) \in {0, 1}
  <2>1. ~InFrame
    BY <1>9 DEF InRequest, InFrame
  <2>2. ~IsFrame(handled + 1)
    BY <1>1, <1>5, <1>9, <2>1 DEF Phase, Live
  <2> QED BY <2>2, <1>6, Items DEF IsFrame, Current
<1>10. ASSUME InFrame
       PROVE  /\ Units(Current) = FrameLength(Current)
              /\ FrameLength(Current) \in Nat /\ FrameLength(Current) >= HeadUnits + Current.ext
              /\ Current.ext \in {0, 1}
  <2>1. handled + 1 \in (handled + 1)..Len(sent)
    BY <1>2, <1>5
  <2>2. IsFrame(handled + 1)
    BY <1>1, <1>10, <2>1 DEF Phase
  <2>3. /\ Units(Current) = FrameLength(Current)
        /\ Current.ext \in {0, 1} /\ Current.body \in {0, 1}
    BY <2>2, <1>6, Items DEF IsFrame, Current
  <2> QED BY <2>3 DEF FrameLength, HeadUnits
<1> QED BY <1>5, <1>6, <1>7, <1>8, <1>9, <1>10

\* The connection ends.
LEMMA Ends ==
    ASSUME IInv, Live, looping' = FALSE, state' \in {"closed", "error"},
           UNCHANGED <<starts, delivered, handled>>
    PROVE  Framed!Close
<1>1. state \notin {"closed", "error"}
  BY DEF IInv, Session, Types, Live, InRequest, InFrame
<1> QED BY <1>1 DEF Framed!Close

\* An item is more than one unit.
LEMMA ItemUnits ==
    ASSUME NEW item \in Requests \cup Frames
    PROVE  Units(item) \in Nat /\ Units(item) >= 2
<1>1. CASE item.kind = "request"
  BY <1>1, Items
<1>2. CASE item.kind = "frame"
  BY <1>2, Items DEF FrameLength, HeadUnits
<1> QED BY <1>1, <1>2, Items

\* The parser waits in the middle of an item, or before it.
LEMMA WaitsForMore ==
    ASSUME IInv, Behind, Live, looping, looping' = FALSE,
           delivered > From => delivered - From < Units(Current),
           state' \notin {"closed", "error"}, From' = From, UNCHANGED <<starts, delivered, handled>>
    PROVE  Framed!Wait
<1>1. state \notin {"closed", "error"}
  BY DEF IInv, Session, Types, Live, InRequest, InFrame
<1>2. Len(Rest) = delivered - From /\ From \in Nat /\ delivered \in Nat /\ From <= delivered
      /\ handled \in Nat /\ Len(sent) \in Nat /\ Len(starts) = Len(sent) + 1
  BY Reading
<1>3. ~Framed!WholeIn(handled, Rest)
  <2> SUFFICES ASSUME handled + 1 < Len(starts), Len(Rest) >= Framed!SizeOf(handled + 1)
               PROVE  FALSE
    BY DEF Framed!WholeIn
  <2>1. CASE delivered > From
    BY <2>1, <1>2, CurrentItem
  <2>2. CASE ~(delivered > From)
    <3>1. PICK k \in 1..Len(sent) : k = handled + 1
      BY <1>2
    <3>2. sent[k] \in Requests \cup Frames /\ Framed!SizeOf(k) = Units(sent[k])
      BY FramedTerms, Facts DEF IInv, Session
    <3>3. Units(sent[k]) \in Nat /\ Units(sent[k]) > 0
      BY <3>2, ItemUnits
    <3> QED BY <3>1, <3>2, <3>3, <2>2, <1>2
  <2> QED BY <2>1, <2>2
<1>4. Rest' = Rest
  BY <1>1 DEF Rest
<1>5. looping = TRUE
  BY DEF IInv, Session, Types
<1> QED BY <1>1, <1>3, <1>4, <1>5 DEF Framed!Wait, Rest, From

\* The item that is parsed is handled: the parser stands at the next one, or the
\* connection ends.
LEMMA Handles ==
    ASSUME IInv, Behind, Live, looping, delivered > From, IInv',
           handled' = handled + 1, Units(Current) <= delivered - From,
           looping' = (state' \notin {"closed", "error"} /\ consumed' # delivered),
           UNCHANGED <<starts, sent, delivered>>
    PROVE  Framed!Handle
<1>1. /\ state \notin {"closed", "error"} /\ looping = TRUE
      /\ Types /\ Position /\ Types' /\ Position'
      /\ looping' \in BOOLEAN
  BY DEF IInv, Session, Types, Live, InRequest, InFrame
<1>2. /\ From \in Nat /\ From <= delivered /\ delivered \in Nat
      /\ From = starts[handled + 1] /\ Rest = Framed!Span(From, delivered)
      /\ Len(Rest) = delivered - From /\ handled \in Nat
  BY Reading
<1>3. /\ handled + 1 \in 1..Len(sent) /\ handled + 1 < Len(starts)
      /\ Framed!SizeOf(handled + 1) = Units(Current) /\ Units(Current) \in Nat
  BY CurrentItem
<1>4. PICK n \in Nat : n = Units(Current)
  BY <1>3
<1>5. Framed!WholeIn(handled, Rest)
  BY <1>2, <1>3, <1>4 DEF Framed!WholeIn
<1>6. PICK left : left = SubSeq(Rest, Framed!SizeOf(handled + 1) + 1, Len(Rest))
  OBVIOUS
<1>7. left = Framed!Span(From + n, delivered)
  <2>1. PICK from \in Nat : from = From
    BY <1>2
  <2>2. from + n <= delivered /\ from <= delivered
    BY <1>2, <1>4, <2>1
  <2>3. SubSeq(Framed!Span(from, delivered), n + 1, delivered - from) = Framed!Span(from + n, delivered)
    BY <1>2, <2>1, <2>2, SpanParts
  <2> QED BY <1>2, <1>3, <1>4, <1>6, <2>1, <2>3
<1>8. CASE state' \in {"closed", "error"}
  <2>1. looping' = FALSE
    BY <1>1, <1>8
  <2> QED BY <2>1, <1>1, <1>5, <1>8 DEF Framed!Handle, Rest, From
<1>9. CASE state' \notin {"closed", "error"}
  <2>1. Live'
    BY <1>1, <1>9 DEF Types, Live, InRequest, InFrame
  <2>2. starts[(handled + 1) + 1] = From + n
    <3>1. starts[(handled + 1) + 1] = starts[handled + 1] + Units(sent[handled + 1])
      BY <1>1, <1>3 DEF Position
    <3> QED BY <3>1, <1>2, <1>4 DEF Current
  <2>3. LineRead' \in {-1, 0, 1}
    BY DEF LineRead, LineUnits
  <2>4. consumed' = (From + n) + LineRead'
    <3>1. consumed' = starts'[handled' + 1] + LineRead'
      BY <1>1, <2>1 DEF Position
    <3> QED BY <3>1, <2>2
  <2>5. From' = From + n
    BY <2>3, <2>4, <1>2 DEF From
  <2>6. Rest' = left
    BY <2>5, <1>7, <1>9 DEF Rest, Framed!Span
  <2>7. Framed!WholeIn(handled', left) => looping' = TRUE
    <3> SUFFICES ASSUME Framed!WholeIn(handled', left), consumed' = delivered PROVE FALSE
      BY <1>9
    <3>1. PICK k \in 1..Len(sent) : k = handled' + 1
      BY <1>3, <1>1, <1>2 DEF Framed!WholeIn, Position
    <3>2. Len(left) = delivered - (From + n)
      <4>1. PICK m \in Nat : m = From + n
        BY <1>2
      <4>2. m <= delivered
        BY <1>2, <1>4, <4>1
      <4> QED BY <1>2, <1>7, <4>1, <4>2, SpanParts
    <3>3. Len(left) <= 1
      <4>1. PICK m \in Nat, l \in {-1, 0, 1} : m = From + n /\ l = LineRead'
        BY <1>2, <2>3
      <4>2. consumed' = m + l
        BY <2>4, <4>1
      <4>3. delivered - m = l
        BY <1>2, <4>2
      <4> QED BY <3>2, <4>1, <4>3
    <3>4. Len(left) >= Framed!SizeOf(k) /\ Framed!SizeOf(k) = Units(sent[k])
      BY <1>1, <3>1, FramedTerms DEF Framed!WholeIn
    <3>5. sent[k] \in Requests \cup Frames
      BY <1>1, Facts
    <3>6. Units(sent[k]) \in Nat /\ Units(sent[k]) >= 2
      BY <3>5, ItemUnits
    <3>7. Len(left) \in Int
      BY <1>2, <3>2
    <3> QED BY <3>3, <3>4, <3>6, <3>7
  <2> QED BY <1>1, <1>5, <1>6, <1>9, <2>6, <2>7 DEF Framed!Handle, Rest, From
<1> QED BY <1>8, <1>9

\* A handler of ws_recv_loop handles the item, waits for more of it, ends the
\* connection, or has read a part and goes on.
LEMMA LoopSteps ==
    ASSUME IInv, Behind, IInv',
           RecvRequest \/ RecvHeaders \/ RecvStray \/ RecvFrameLength \/ RecvFrame
    PROVE  Framed!Next \/ UNCHANGED Framed!vars
<1>1. Types /\ Types' /\ LengthRead /\ Live /\ looping
  BY DEF IInv, Session, Types, RecvRequest, RecvHeaders, RecvStray, RecvFrameLength, RecvFrame, Live,
         InRequest, InFrame
<1>2. /\ From \in Nat /\ From <= delivered /\ delivered \in Nat
      /\ consumed = From + LineRead /\ LineRead \in {-1, 0, 1} /\ consumed <= delivered
  BY <1>1, Reading
<1>3. UNCHANGED <<starts, sent, delivered>> /\ state \notin {"closed", "error"} /\ looping = TRUE
  BY <1>1 DEF RecvRequest, RecvHeaders, RecvStray, RecvFrameLength, RecvFrame, Live, InRequest,
              InFrame, Types
<1>8. UNCHANGED <<consumed, handled, state>> => From' = From /\ state' \notin {"closed", "error"}
  BY <1>3 DEF From, LineRead, Astray
<1>4. ASSUME RecvRequest PROVE Framed!Next \/ UNCHANGED Framed!vars
  <2>1. /\ InRequest /\ LineRead = 0 /\ handled' = handled /\ state = "request"
        /\ Unread = delivered - From
    BY <1>2, <1>4 DEF RecvRequest, InRequest, LineRead, Unread
  <2>2. CASE Unread < LineUnits
    <3>1. looping' = FALSE /\ UNCHANGED <<state, consumed, handled>>
      BY <1>4, <2>2 DEF RecvRequest, Waits
    <3>2. delivered > From => delivered - From < Units(Current)
      BY <1>1, <1>2, <2>1, <2>2, CurrentItem DEF LineUnits
    <3> QED BY <1>1, <1>3, <1>8, <3>1, <3>2, WaitsForMore DEF Framed!Next
  <2>3. CASE ~(Unread < LineUnits)
    <3>1. /\ consumed' = consumed + 1
          /\ state' = IF Current.method = "BAD" THEN "error" ELSE "headers"
          /\ looping' = (state' \notin {"closed", "error"} /\ consumed' # delivered')
      BY <1>2, <1>4, <2>3 DEF RecvRequest, GoesTo, LineUnits
    <3>2. CASE state' = "error"
      <4>1. looping' = FALSE
        BY <3>1, <3>2
      <4> QED BY <1>1, <1>3, <2>1, <3>2, <4>1, Ends DEF Framed!Next
    <3>3. CASE state' = "headers"
      <4>1. looping' = TRUE
        <5>1. consumed' # delivered'
          BY <1>2, <1>3, <2>1, <2>3, <3>1 DEF LineUnits
        <5> QED BY <3>1, <3>3, <5>1
      <4>2. From' = From
        BY <1>2, <2>1, <3>1, <3>3 DEF From, LineRead, LineUnits
      <4>3. Rest' = Rest
        BY <1>3, <3>3, <4>2 DEF Rest
      <4> QED BY <1>3, <2>1, <3>3, <4>1, <4>3 DEF Framed!vars, Rest, From
    <3> QED BY <3>1, <3>2, <3>3
  <2> QED BY <2>2, <2>3
<1>5. ASSUME RecvHeaders PROVE Framed!Next \/ UNCHANGED Framed!vars
  <2>1. InRequest /\ LineRead = 1 /\ Unread = (delivered - From) - 1 /\ state = "headers"
    BY <1>2, <1>5 DEF RecvHeaders, InRequest, LineRead, LineUnits, Unread
  <2>2. CASE Unread < 2 + FoldUnits(Current)
    <3>1. looping' = FALSE /\ UNCHANGED <<state, consumed, handled>>
      BY <1>5, <2>2 DEF RecvHeaders, Waits
    <3>2. delivered > From => delivered - From < Units(Current)
      BY <1>1, <1>2, <2>1, <2>2, CurrentItem
    <3> QED BY <1>1, <1>3, <1>8, <3>1, <3>2, WaitsForMore DEF Framed!Next
  <2>3. CASE ~(Unread < 2 + FoldUnits(Current))
    <3>1. handled' = handled + 1
      BY <1>5, <2>3 DEF RecvHeaders
    <3>2. looping' = (state' \notin {"closed", "error"} /\ consumed' # delivered)
      BY <1>3, <1>5, <2>3 DEF RecvHeaders, GoesTo
    <3>3. delivered > From /\ 3 + FoldUnits(Current) <= delivered - From
      BY <1>2, <2>1, <2>3 DEF FoldUnits
    <3>4. Units(Current) <= delivered - From
      BY <1>1, <2>1, <3>3, CurrentItem
    <3> QED BY <1>1, <1>3, <3>1, <3>2, <3>3, <3>4, Handles DEF Framed!Next
  <2> QED BY <2>2, <2>3
<1>6. ASSUME RecvFrameLength PROVE Framed!Next \/ UNCHANGED Framed!vars
  <2>1. /\ InFrame /\ LineRead = 0 /\ Unread = delivered - From /\ state = "frame_length"
        /\ UNCHANGED <<consumed, handled>>
    BY <1>2, <1>6 DEF RecvFrameLength, InFrame, LineRead, Unread
  <2>2. CASE Unread >= HeadUnits /\ Refused(Current)
    <3>1. state' = "error" /\ looping' = FALSE
      BY <1>6, <2>2 DEF RecvFrameLength, GoesTo
    <3> QED BY <1>1, <1>3, <2>1, <3>1, Ends DEF Framed!Next
  <2>3. CASE ~(Unread >= HeadUnits /\ Refused(Current)) /\ needed' # 0
    <3>1. looping' = FALSE /\ state' = state /\ Needs(Current) # 0
      BY <1>6, <2>3 DEF RecvFrameLength, Waits
    <3>2. Unread < HeadUnits + Current.ext \/ Unread < HeadUnits
      BY <3>1 DEF Needs
    <3>3. delivered > From => delivered - From < Units(Current)
      <4> SUFFICES ASSUME delivered > From PROVE delivered - From < Units(Current)
        OBVIOUS
      <4>1. /\ Units(Current) = FrameLength(Current) /\ FrameLength(Current) \in Nat
            /\ FrameLength(Current) >= HeadUnits + Current.ext /\ Current.ext \in {0, 1}
        BY <1>1, <2>1, CurrentItem
      <4> QED BY <1>2, <2>1, <3>2, <4>1 DEF HeadUnits
    <3> QED BY <1>1, <1>3, <1>8, <2>1, <3>1, <3>3, WaitsForMore DEF Framed!Next
  <2>4. CASE ~(Unread >= HeadUnits /\ Refused(Current)) /\ needed' = 0
    <3>1. /\ state' = "frame" /\ Needs(Current) = 0
          /\ looping' = (state' \notin {"closed", "error"} /\ consumed' # delivered')
      BY <1>6, <2>4 DEF RecvFrameLength, GoesTo
    <3>2. Unread >= HeadUnits
      <4>1. Unread \in Int
        BY <1>2, <2>1
      <4> QED BY <3>1, <4>1 DEF Needs, HeadUnits
    <3>3. looping' = TRUE
      <4>1. consumed' # delivered'
        BY <1>2, <1>3, <2>1, <3>2 DEF HeadUnits
      <4> QED BY <3>1, <4>1
    <3>4. Rest' = Rest
      BY <1>3, <2>1, <3>1 DEF Rest, From, LineRead, Astray
    <3> QED BY <1>3, <2>1, <3>1, <3>3, <3>4 DEF Framed!vars, Rest, From
  <2> QED BY <2>2, <2>3, <2>4
<1>7. ASSUME RecvFrame PROVE Framed!Next \/ UNCHANGED Framed!vars
  <2>1. InFrame /\ LineRead = 0 /\ Unread = delivered - From /\ state = "frame"
    BY <1>1, <1>2, <1>7 DEF RecvFrame, InFrame, LineRead, LengthRead, Unread
  <2>2. needed = 0 /\ frameLength = FrameLength(Current)
    BY <1>1, <2>1 DEF LengthRead
  <2>3. frameLength \in Nat
    BY <1>1 DEF Types
  <2>4. CASE needed # 0 \/ frameLength = 0 \/ Unread < frameLength
    <3>1. looping' = FALSE /\ UNCHANGED <<state, consumed, handled>>
      BY <1>7, <2>4 DEF RecvFrame, Waits
    <3>2. delivered > From => delivered - From < Units(Current)
      <4> SUFFICES ASSUME delivered > From PROVE delivered - From < Units(Current)
        OBVIOUS
      <4>1. /\ Units(Current) = FrameLength(Current)
            /\ FrameLength(Current) >= HeadUnits + Current.ext /\ Current.ext \in {0, 1}
        BY <1>1, <2>1, CurrentItem
      <4> QED BY <1>2, <2>1, <2>2, <2>3, <2>4, <4>1 DEF HeadUnits
    <3> QED BY <1>1, <1>3, <1>8, <3>1, <3>2, WaitsForMore DEF Framed!Next
  <2>5. CASE ~(needed # 0 \/ frameLength = 0 \/ Unread < frameLength)
    <3>1. \E r : GoesTo(r) /\ (handled' = handled + 1 \/ (handled' = handled /\ r = "error"))
      BY <1>7, <2>5 DEF RecvFrame
    <3>2. looping' = (state' \notin {"closed", "error"} /\ consumed' # delivered)
      BY <1>3, <3>1 DEF GoesTo
    <3>5. handled' = handled + 1 \/ (handled' = handled /\ state' = "error" /\ looping' = FALSE)
      BY <3>1 DEF GoesTo
    <3>3. delivered > From /\ frameLength <= delivered - From
      BY <1>2, <2>1, <2>3, <2>5
    <3>4. Units(Current) <= delivered - From
      BY <1>1, <2>1, <2>2, <3>3, CurrentItem
    <3>6. CASE handled' = handled + 1
      BY <1>1, <1>3, <3>2, <3>3, <3>4, <3>6, Handles DEF Framed!Next
    <3>7. CASE handled' = handled /\ state' = "error" /\ looping' = FALSE
      BY <1>1, <1>3, <3>7, Ends DEF Framed!Next
    <3> QED BY <3>5, <3>6, <3>7
  <2> QED BY <2>4, <2>5
<1>9. ASSUME RecvStray PROVE Framed!Next \/ UNCHANGED Framed!vars
  <2>1. /\ handled' = handled
        /\ looping' = (state' \notin {"closed", "error"} /\ consumed' # delivered)
        /\ state' = "error" \/ consumed' = starts[handled + 1]
        /\ state' \in {"error", "closed", "request"}
    BY <1>3, <1>9 DEF RecvStray, GoesTo, AfterRequest
  <2>2. CASE state' \in {"error", "closed"}
    <3>1. looping' = FALSE
      BY <2>1, <2>2
    <3> QED BY <1>1, <1>3, <2>1, <2>2, <3>1, Ends DEF Framed!Next
  <2>3. CASE state' = "request"
    <3>6. From = starts[handled + 1]
      BY <1>1, Reading
    <3>1. consumed' = From
      BY <2>1, <2>3, <3>6
    <3>2. ~Astray'
      BY <1>2, <1>3, <2>1, <3>1, <3>6 DEF Astray
    <3>3. From' = From
      BY <1>2, <2>3, <3>1, <3>2 DEF From, LineRead
    <3>4. CASE From = delivered
      <4>1. looping' = FALSE /\ ~(delivered > From)
        <5>1. consumed' = delivered /\ ~(delivered > From)
          BY <1>2, <3>1, <3>4
        <5>2. looping' = FALSE
          BY <2>1, <5>1
        <5> QED BY <5>1, <5>2
      <4> QED BY <1>1, <1>3, <2>1, <2>3, <3>3, <4>1, WaitsForMore DEF Framed!Next
    <3>5. CASE From # delivered
      <4>1. looping' = TRUE
        BY <2>1, <2>3, <3>1, <3>5
      <4>2. Rest' = Rest
        BY <1>3, <2>3, <3>3 DEF Rest
      <4> QED BY <1>3, <2>1, <2>3, <4>1, <4>2 DEF Framed!vars, Rest, From
    <3> QED BY <3>4, <3>5
  <2> QED BY <2>1, <2>2, <2>3
<1> QED BY <1>4, <1>5, <1>6, <1>7, <1>9

\* What the others do: the client sends, units arrive, or the connection ends.
LEMMA OtherSteps ==
    ASSUME IInv, Behind, IInv',
           \/ \E item \in Requests \cup Frames : ClientSends(item)
           \/ \E n \in 1..(MaxItems * (HeadUnits + 2)) : OnRecv(n)
           \/ LosesPage \/ DeviceSendsData
           \/ \E n \in servers : ServerSends(n) \/ ServerEnds(n)
           \/ UNCHANGED vars
    PROVE  Framed!Next \/ UNCHANGED Framed!vars
<1>1. Types /\ Position /\ (Live <=> state \notin {"closed", "error"})
  BY DEF IInv, Session, Types, Live, InRequest, InFrame
<1>2. ASSUME NEW item \in Requests \cup Frames, ClientSends(item) PROVE Framed!Send
  <2>1. /\ state \notin {"closed", "error"}
        /\ starts' = Append(starts, starts[Len(starts)] + Units(item))
        /\ UNCHANGED <<state, consumed, delivered, handled, looping>>
    BY <1>2 DEF ClientSends, parser
  <2>4. Astray' <=> Astray
    BY <1>1, <1>2, SendsBehind
  <2>2. Rest' = Rest
    BY <2>1, <2>4 DEF Rest, From, LineRead
  <2>3. Units(item) \in {Units(x) : x \in Requests \cup Frames}
    OBVIOUS
  <2> QED BY <2>1, <2>2, <2>3 DEF Framed!Send, Framed!BytesSent, Rest, From
<1>3. ASSUME NEW n \in 1..(MaxItems * (HeadUnits + 2)), OnRecv(n) PROVE Framed!Arrive
  <2>1. /\ ~looping /\ state \notin {"closed", "error"}
        /\ delivered + n <= Framed!BytesSent /\ delivered' = delivered + n /\ looping' = TRUE
        /\ UNCHANGED <<state, sent, starts, consumed, handled>>
    BY <1>3 DEF OnRecv, parser, Framed!BytesSent
  <2>2. n \in Nat /\ n >= 1
    BY BoundsAssumption DEF HeadUnits
  <2>3. /\ From \in Nat /\ From <= delivered /\ delivered \in Nat
        /\ Rest = Framed!Span(From, delivered) /\ Framed!BytesSent \in Nat
    BY <1>1, <2>1, Reading
  <2>4. From' = From
    BY <2>1 DEF From, LineRead, Astray
  <2>5. Rest' = Framed!Span(From, delivered + n)
    BY <2>1, <2>4 DEF Rest, Framed!Span
  <2>6. Rest' = Rest \o Framed!Span(delivered, delivered + n)
    <3>1. PICK from \in Nat, to \in Nat : from = From /\ to = delivered + n
      BY <2>2, <2>3
    <3>2. from <= delivered /\ delivered <= to
      BY <2>2, <2>3, <3>1
    <3>3. Framed!Span(from, delivered) \o Framed!Span(delivered, to) = Framed!Span(from, to)
      BY <2>3, <3>2, SpanParts
    <3> QED BY <2>3, <2>5, <3>1, <3>3
  <2>7. n \in 1..(Framed!BytesSent - delivered)
    BY <2>1, <2>2, <2>3
  <2> QED BY <2>1, <2>6, <2>7 DEF Framed!Arrive, Rest, From
<1>4. ASSUME DeviceSendsData \/ \E n \in servers : ServerSends(n) \/ ServerEnds(n)
      PROVE  Framed!Close \/ UNCHANGED Framed!vars
  <2>1. /\ ~looping /\ state \notin {"closed", "error"} /\ (state' = state \/ state' = "closed")
        /\ UNCHANGED <<sent, starts, delivered, consumed, handled, looping>>
    BY <1>4 DEF DeviceSendsData, ServerSends, ServerEnds
  <2>2. CASE state' = state
    <3>1. Rest' = Rest
      BY <2>1, <2>2 DEF Rest, From, LineRead, Astray
    <3> QED BY <2>1, <2>2, <3>1 DEF Framed!vars, Rest, From
  <2>3. CASE state' = "closed"
    <3>1. looping' = FALSE
      BY <1>1, <2>1 DEF Types
    <3> QED BY <1>1, <2>1, <2>3, <3>1, Ends
  <2> QED BY <2>1, <2>2, <2>3
<1>5. ASSUME LosesPage \/ UNCHANGED vars PROVE UNCHANGED Framed!vars
  <2>1. UNCHANGED <<state, sent, starts, delivered, consumed, handled, looping>>
    BY <1>5 DEF LosesPage, vars, parser
  <2>2. Rest' = Rest
    BY <2>1 DEF Rest, From, LineRead, Astray
  <2> QED BY <2>1, <2>2 DEF Framed!vars, Rest, From
<1> QED BY <1>2, <1>3, <1>4, <1>5 DEF Framed!Next

\* ws_on_recv implements FramedStream: every step of the websocket is one of the
\* abstract parser or changes nothing of it, however requests and frames are cut.  What
\* follows a folded header is counted with its request here, and may be read as another
\* item by the code.
THEOREM FramedSpecHolds == Spec => FramedSpec
<1>1. Init => Framed!Init
  <2> SUFFICES ASSUME Init PROVE Framed!Init
    OBVIOUS
  <2>1. /\ state = "request" /\ starts = <<0>> /\ delivered = 0 /\ consumed = 0 /\ handled = 0
        /\ looping = FALSE
    BY DEF Init
  <2>2. From = 0
    BY <2>1 DEF From, LineRead, Astray
  <2>3. Rest = <<>>
    <3>1. delivered - From = 0 /\ 1..0 = {}
      BY <2>1, <2>2
    <3> QED BY <2>1, <3>1 DEF Rest
  <2> QED BY <2>1, <2>3 DEF Framed!Init, Rest, From
<1>2. Init => Behind
  BY DEF Init, Behind, Astray
<1>3. IInv /\ Behind /\ [Next]_vars => Behind'
  BY BehindStep
<1>4. IInv /\ Behind /\ IInv' /\ [Next]_vars => [Framed!Next]_(Framed!vars)
  <2> SUFFICES ASSUME IInv, Behind, IInv', [Next]_vars
               PROVE  Framed!Next \/ UNCHANGED Framed!vars
    OBVIOUS
  <2> QED BY LoopSteps, OtherSteps DEF Next
<1> QED BY <1>1, <1>2, <1>3, <1>4, Inductive, PTL DEF Spec, FramedSpec, Framed!Spec

-----------------------------------------------------------------------------
(* The replies to one item.                                                  *)

\* A set of numbers has a smallest one.
LEMMA Smallest ==
    ASSUME NEW S, S \subseteq Nat, S # {}
    PROVE  \E m \in S : \A n \in S : m <= n
<1>1. IsWellFoundedOn(OpToRel(<, Nat), Nat)
  BY NatLessThanWellFounded
<1>2. PICK m \in S : \A n \in S : ~(<<n, m>> \in OpToRel(<, Nat))
  BY <1>1, WFMin
<1>3. \A n \in S : ~(n < m)
  BY <1>2 DEF OpToRel
<1> QED BY <1>3

\* f has the replies to n among the first of s, for every number up to m.
Picks(f, s, n, m) ==
    f = [i \in 0..m |-> IF i = 0 THEN <<>>
                        ELSE IF s[i].of = n THEN Append(f[i - 1], s[i]) ELSE f[i - 1]]

\* What such a function has.
LEMMA PicksFacts ==
    ASSUME NEW f, NEW s, NEW n, NEW m \in Nat, Picks(f, s, n, m)
    PROVE  /\ f[0] = <<>>
           /\ \A i \in 1..m : f[i] = IF s[i].of = n THEN Append(f[i - 1], s[i]) ELSE f[i - 1]
<1> DEFINE body(i) == IF i = 0 THEN <<>>
                      ELSE IF s[i].of = n THEN Append(f[i - 1], s[i]) ELSE f[i - 1]
<1>1. f = [i \in 0..m |-> body(i)]
  BY DEF Picks
<1>2. \A i \in 0..m : f[i] = body(i)
  <2> HIDE DEF body
  <2> QED
    BY <1>1
<1>3. f[0] = body(0)
  BY <1>2
<1>4. ASSUME NEW i \in 1..m
      PROVE  f[i] = IF s[i].of = n THEN Append(f[i - 1], s[i]) ELSE f[i - 1]
  <2>1. f[i] = body(i) /\ i # 0
    BY <1>2
  <2> QED
    BY <2>1
<1> QED
  BY <1>3, <1>4

\* How to see that a function is such a one.
LEMMA PicksIf ==
    ASSUME NEW f, NEW s, NEW n, NEW m \in Nat, f = [i \in 0..m |-> f[i]], f[0] = <<>>,
           \A i \in 1..m : f[i] = IF s[i].of = n THEN Append(f[i - 1], s[i]) ELSE f[i - 1]
    PROVE  Picks(f, s, n, m)
<1> DEFINE body(i) == IF i = 0 THEN <<>>
                      ELSE IF s[i].of = n THEN Append(f[i - 1], s[i]) ELSE f[i - 1]
<1>1. ASSUME NEW i \in 0..m PROVE f[i] = body(i)
  <2>1. CASE i = 0
    BY <2>1
  <2>2. CASE i # 0
    <3>1. i \in 1..m
      BY <2>2
    <3> QED
      BY <3>1, <2>2
  <2> QED
    BY <2>1, <2>2
<1>2. f = [i \in 0..m |-> body(i)]
  <2> HIDE DEF body
  <2> QED
    BY <1>1
<1> QED
  BY <1>2 DEF Picks

\* There is only one.
LEMMA PicksSame ==
    ASSUME NEW f, NEW g, NEW s, NEW n, NEW m \in Nat, Picks(f, s, n, m), Picks(g, s, n, m)
    PROVE  f = g
<1>1. f = [i \in 0..m |-> f[i]] /\ g = [i \in 0..m |-> g[i]]
  <2>1. DOMAIN f = 0..m /\ DOMAIN g = 0..m /\ f = [i \in DOMAIN f |-> f[i]] /\ g = [i \in DOMAIN g |-> g[i]]
    BY DEF Picks
  <2> QED
    BY <2>1
<1> DEFINE Bad == {i \in 0..m : f[i] # g[i]}
<1>2. Bad = {}
  <2> SUFFICES ASSUME Bad # {} PROVE FALSE
    OBVIOUS
  <2>1. PICK k \in Bad : \A j \in Bad : k <= j
    <3>1. Bad \subseteq Nat
      OBVIOUS
    <3> HIDE DEF Bad
    <3> QED
      BY <3>1, Smallest
  <2>2. k \in 0..m /\ f[k] # g[k]
    OBVIOUS
  <2>3. k # 0
    BY <2>2, PicksFacts
  <2>4. k \in 1..m /\ k - 1 \in 0..m /\ ~(k <= k - 1)
    BY <2>2, <2>3
  <2>5. f[k - 1] = g[k - 1]
    BY <2>1, <2>4
  <2>6. f[k] = IF s[k].of = n THEN Append(f[k - 1], s[k]) ELSE f[k - 1]
    BY <2>4, PicksFacts
  <2>7. g[k] = IF s[k].of = n THEN Append(g[k - 1], s[k]) ELSE g[k - 1]
    BY <2>4, PicksFacts
  <2> QED
    BY <2>2, <2>5, <2>6, <2>7
<1> QED
  BY <1>1, <1>2

\* There is one.
LEMMA PicksExist ==
    ASSUME NEW S, NEW s \in Seq(S), NEW n, NEW m \in 0..Len(s)
    PROVE  \E f \in [0..m -> Seq(S)] : Picks(f, s, n, m)
<1> DEFINE Bad == {k \in 0..Len(s) : ~\E f \in [0..k -> Seq(S)] : Picks(f, s, n, k)}
<1>1. Len(s) \in Nat /\ \A i \in 1..Len(s) : s[i] \in S
  BY LenProperties, ElementOfSeq
<1>2. Bad \subseteq Nat
  BY <1>1
<1> SUFFICES ASSUME Bad # {} PROVE FALSE
  OBVIOUS
<1>3. PICK k \in Bad : \A j \in Bad : k <= j
  BY <1>2, Smallest
<1>4. k \in 0..Len(s) /\ ~\E f \in [0..k -> Seq(S)] : Picks(f, s, n, k)
  OBVIOUS
<1>5. CASE k = 0
  <2> DEFINE f == [i \in 0..0 |-> <<>>]
  <2>1. f \in [0..0 -> Seq(S)] /\ f = [i \in 0..0 |-> f[i]] /\ f[0] = <<>>
    OBVIOUS
  <2> HIDE DEF f
  <2>2. Picks(f, s, n, 0)
    <3>1. 0 \in Nat /\ \A i \in 1..0 : f[i] = IF s[i].of = n THEN Append(f[i - 1], s[i]) ELSE f[i - 1]
      OBVIOUS
    <3> QED
      BY <2>1, <3>1, PicksIf
  <2> QED
    BY <1>4, <1>5, <2>1, <2>2
<1>6. CASE k # 0
  <2>1. PICK j \in 0..Len(s) : j = k - 1 /\ k = j + 1 /\ j < k
    BY <1>1, <1>4, <1>6
  <2>2. ~(k <= j)
    BY <1>1, <1>4, <2>1
  <2>3. j \notin Bad
    <3> HIDE DEF Bad
    <3> QED
      BY <1>3, <2>2
  <2>4. PICK f : f \in [0..j -> Seq(S)] /\ Picks(f, s, n, j)
    BY <2>3
  <2> DEFINE e == IF s[k].of = n THEN Append(f[j], s[k]) ELSE f[j]
             g == [i \in 0..k |-> IF i = k THEN e ELSE f[i]]
  <2>5. e \in Seq(S)
    <3>1. f[j] \in Seq(S) /\ s[k] \in S
      BY <1>1, <1>4, <2>1, <2>4
    <3> QED
      BY <3>1, AppendProperties
  <2>6. \A i \in 0..k : i # k => i \in 0..j
    BY <2>1
  <2>7. g \in [0..k -> Seq(S)]
    <3> HIDE DEF e
    <3> QED
      BY <2>4, <2>5, <2>6
  <2>8. f[0] = <<>> /\ \A i \in 1..j : f[i] = IF s[i].of = n THEN Append(f[i - 1], s[i]) ELSE f[i - 1]
    <3>1. j \in Nat /\ Picks(f, s, n, j)
      BY <1>1, <2>4
    <3> QED
      BY <3>1, PicksFacts
  <2>9. ASSUME NEW i \in 1..k
        PROVE  g[i] = IF s[i].of = n THEN Append(g[i - 1], s[i]) ELSE g[i - 1]
    <3>1. CASE i = k
      <4>1. i - 1 = j /\ j \in 0..k /\ j # k
        BY <2>1, <3>1
      <4>2. g[i - 1] = f[j] /\ g[i] = e
        BY <3>1, <4>1
      <4> QED
        BY <3>1, <4>2
    <3>2. CASE i # k
      <4>1. i \in 1..j /\ i - 1 \in 0..k /\ i - 1 # k /\ i \in 0..k
        BY <2>1, <3>2
      <4>2. g[i] = f[i] /\ g[i - 1] = f[i - 1]
        BY <3>2, <4>1
      <4> QED
        BY <2>8, <4>1, <4>2
    <3> QED
      BY <3>1, <3>2
  <2>10. g = [i \in 0..k |-> g[i]] /\ g[0] = <<>>
    BY <1>6, <2>1, <2>8
  <2> HIDE DEF g, e
  <2>11. Picks(g, s, n, k)
    <3>1. k \in Nat
      BY <1>1, <1>4
    <3> QED
      BY <2>9, <2>10, <3>1, PicksIf
  <2> QED
    BY <1>4, <2>7, <2>11
<1> QED
  BY <1>5, <1>6

\* It has the replies.
LEMMA PickIs ==
    ASSUME NEW f, NEW s, NEW n, Len(s) \in Nat, Picks(f, s, n, Len(s))
    PROVE  RepliesTo(s, n) = f[Len(s)]
<1> DEFINE c == CHOOSE g : Picks(g, s, n, Len(s))
<1>1. RepliesTo(s, n) = c[Len(s)]
  BY DEF RepliesTo, Picks
<1>2. Picks(c, s, n, Len(s))
  OBVIOUS
<1> HIDE DEF c
<1>3. c = f
  BY <1>2, PicksSame
<1> QED
  BY <1>1, <1>3

\* The first j elements and one more.
LEMMA PrefixNext ==
    ASSUME NEW S, NEW t \in Seq(S), NEW j \in 1..Len(t)
    PROVE  /\ SubSeq(t, 1, j - 1) \in Seq(S)
           /\ Append(SubSeq(t, 1, j - 1), t[j]) = SubSeq(t, 1, j)
<1>1. Len(t) \in Nat /\ j \in Nat /\ j - 1 \in Nat /\ \A i \in 1..Len(t) : t[i] \in S
  BY LenProperties, ElementOfSeq
<1>2. PICK p : p = SubSeq(t, 1, j - 1)
  OBVIOUS
<1>3. PICK q : q = SubSeq(t, 1, j)
  OBVIOUS
<1>4. p \in Seq(S) /\ Len(p) = j - 1 /\ \A i \in 1..(j - 1) : p[i] = t[i]
  <2>1. \A i \in 1..(j - 1) : t[i] \in S
    BY <1>1
  <2> QED
    BY <1>1, <1>2, <2>1, SubSeqProperties
<1>5. q \in Seq(S) /\ Len(q) = j /\ \A i \in 1..j : q[i] = t[i]
  <2>1. \A i \in 1..j : t[i] \in S
    BY <1>1
  <2> QED
    BY <1>1, <1>3, <2>1, SubSeqProperties
<1>6. t[j] \in S
  BY <1>1
<1>7. PICK a : a = Append(p, t[j])
  OBVIOUS
<1>8. a \in Seq(S) /\ Len(a) = Len(p) + 1 /\ a[Len(p) + 1] = t[j] /\ \A i \in 1..Len(p) : a[i] = p[i]
  BY <1>4, <1>6, <1>7, AppendProperties
<1>9. Len(a) = j /\ \A i \in 1..j : a[i] = q[i]
  <2>1. Len(a) = j /\ a[j] = t[j]
    BY <1>1, <1>4, <1>8
  <2>2. ASSUME NEW i \in 1..j PROVE a[i] = q[i]
    <3>1. CASE i = j
      BY <1>5, <2>1, <3>1
    <3>2. CASE i # j
      <4>1. i \in 1..(j - 1)
        BY <1>1, <3>2
      <4> QED
        BY <1>4, <1>5, <1>8, <4>1
    <3> QED
      BY <3>1, <3>2
  <2> QED
    BY <2>1, <2>2
<1>10. a = q
  BY <1>5, <1>8, <1>9, SeqEqual
<1> QED
  BY <1>2, <1>3, <1>4, <1>7, <1>10

\* The replies to n among s, for every number of them.
LEMMA RepliesPicks ==
    ASSUME NEW S, NEW s \in Seq(S), NEW n
    PROVE  \E f : /\ Picks(f, s, n, Len(s)) /\ RepliesTo(s, n) = f[Len(s)]
                  /\ f[Len(s)] \in Seq(S)
<1>1. Len(s) \in Nat /\ Len(s) \in 0..Len(s)
  BY LenProperties
<1>2. PICK f : f \in [0..Len(s) -> Seq(S)] /\ Picks(f, s, n, Len(s))
  BY <1>1, PicksExist
<1>3. f[Len(s)] \in Seq(S)
  BY <1>1, <1>2
<1> QED
  BY <1>1, <1>2, <1>3, PickIs

\* They are replies; among none there are none.
LEMMA RepliesType ==
    ASSUME NEW S, NEW s \in Seq(S), NEW n
    PROVE  RepliesTo(s, n) \in Seq(S) /\ (s = <<>> => RepliesTo(s, n) = <<>>)
<1>1. PICK f : /\ Picks(f, s, n, Len(s)) /\ RepliesTo(s, n) = f[Len(s)]
               /\ f[Len(s)] \in Seq(S)
  BY RepliesPicks
<1>2. s = <<>> => Len(s) = 0
  OBVIOUS
<1>3. Len(s) \in Nat
  BY LenProperties
<1>4. f[0] = <<>>
  BY <1>1, <1>3, PicksFacts
<1> QED
  BY <1>1, <1>2, <1>4

\* Others that follow change nothing.
LEMMA RepliesOthers ==
    ASSUME NEW S, NEW s \in Seq(S), NEW t \in Seq(S), NEW n,
           \A i \in 1..Len(t) : t[i].of # n
    PROVE  RepliesTo(s \o t, n) = RepliesTo(s, n)
<1>1. PICK f : /\ Picks(f, s, n, Len(s)) /\ RepliesTo(s, n) = f[Len(s)]
  BY RepliesPicks
<1>2. PICK z : z = s \o t
  OBVIOUS
<1>3. PICK a \in Nat : a = Len(s)
  BY LenProperties
<1>4. PICK b \in Nat : b = Len(t)
  BY LenProperties
<1>5. /\ Len(z) = a + b
      /\ \A i \in 1..(a + b) : z[i] = IF i <= a THEN s[i] ELSE t[i - a]
  BY <1>2, <1>3, <1>4, ConcatProperties
<1> DEFINE g == [i \in 0..(a + b) |-> IF i <= a THEN f[i] ELSE f[a]]
<1>6. f[0] = <<>> /\ \A i \in 1..a : f[i] = IF s[i].of = n THEN Append(f[i - 1], s[i]) ELSE f[i - 1]
  BY <1>1, <1>3, PicksFacts
<1>7. ASSUME NEW i \in 1..(a + b)
      PROVE  g[i] = IF z[i].of = n THEN Append(g[i - 1], z[i]) ELSE g[i - 1]
  <2>1. CASE i <= a
    <3>1. z[i] = s[i] /\ i \in 1..a /\ i \in 0..(a + b) /\ i - 1 \in 0..(a + b) /\ i - 1 <= a
      BY <1>5, <2>1
    <3>2. g[i] = f[i] /\ g[i - 1] = f[i - 1]
      BY <2>1, <3>1
    <3> QED
      BY <1>6, <3>1, <3>2
  <2>2. CASE ~(i <= a)
    <3>1. z[i] = t[i - a] /\ i - a \in 1..b
      BY <1>5, <2>2
    <3>2. z[i].of # n
      BY <1>4, <3>1
    <3>3. i \in 0..(a + b) /\ i - 1 \in 0..(a + b) /\ (i - 1 <= a => i - 1 = a)
      BY <2>2
    <3>4. g[i] = f[a] /\ g[i - 1] = f[a]
      BY <2>2, <3>3
    <3> QED
      BY <3>2, <3>4
  <2> QED
    BY <2>1, <2>2
<1>8. g = [i \in 0..(a + b) |-> g[i]] /\ g[0] = <<>> /\ g[a + b] = f[a]
  <2>1. 0 \in 0..(a + b) /\ 0 <= a /\ a + b \in 0..(a + b) /\ (a + b <= a => a + b = a)
    OBVIOUS
  <2>2. g[0] = f[0] /\ g[a + b] = f[a]
    BY <2>1
  <2>3. g = [i \in 0..(a + b) |-> g[i]]
    OBVIOUS
  <2> QED
    BY <1>6, <2>2, <2>3
<1> HIDE DEF g
<1>9. a + b \in Nat
  OBVIOUS
<1>10. Picks(g, z, n, a + b)
  BY <1>7, <1>8, <1>9, PicksIf
<1>11. RepliesTo(z, n) = g[a + b]
  BY <1>5, <1>9, <1>10, PickIs
<1> QED
  BY <1>1, <1>2, <1>3, <1>8, <1>11

\* If none was there before, those that follow are all.
LEMMA RepliesOnly ==
    ASSUME NEW S, NEW s \in Seq(S), NEW t \in Seq(S), NEW n,
           \A i \in 1..Len(s) : s[i].of # n, \A i \in 1..Len(t) : t[i].of = n
    PROVE  RepliesTo(s \o t, n) = t
<1>2. PICK z : z = s \o t
  OBVIOUS
<1>3. PICK a \in Nat : a = Len(s)
  BY LenProperties
<1>4. PICK b \in Nat : b = Len(t)
  BY LenProperties
<1>5. /\ Len(z) = a + b
      /\ \A i \in 1..(a + b) : z[i] = IF i <= a THEN s[i] ELSE t[i - a]
  BY <1>2, <1>3, <1>4, ConcatProperties
<1> DEFINE g == [i \in 0..(a + b) |-> SubSeq(t, 1, i - a)]
<1>6. ASSUME NEW i \in 0..(a + b), i <= a PROVE g[i] = <<>>
  <2>1. i - a \in Int /\ i - a < 1
    BY <1>6
  <2>2. SubSeq(t, 1, i - a) = <<>>
    BY <2>1, SubSeqEmpty
  <2> QED
    BY <2>2
<1>7. ASSUME NEW i \in 1..(a + b)
      PROVE  g[i] = IF z[i].of = n THEN Append(g[i - 1], z[i]) ELSE g[i - 1]
  <2>1. CASE i <= a
    <3>1. z[i] = s[i] /\ i \in 1..a /\ i \in 0..(a + b) /\ i - 1 \in 0..(a + b) /\ i - 1 <= a
      BY <1>5, <2>1
    <3>2. z[i].of # n
      BY <1>3, <3>1
    <3>3. g[i] = <<>> /\ g[i - 1] = <<>>
      BY <1>6, <2>1, <3>1
    <3> QED
      BY <3>2, <3>3
  <2>2. CASE ~(i <= a)
    <3>1. PICK j \in 1..b : j = i - a
      BY <2>2
    <3>2. z[i] = t[j]
      BY <1>5, <2>2, <3>1
    <3>3. z[i].of = n
      BY <1>4, <3>1, <3>2
    <3>4. i \in 0..(a + b) /\ i - 1 \in 0..(a + b) /\ (i - 1) - a = j - 1
      BY <2>2, <3>1
    <3>5. g[i] = SubSeq(t, 1, j) /\ g[i - 1] = SubSeq(t, 1, j - 1)
      BY <3>1, <3>4
    <3>6. Append(SubSeq(t, 1, j - 1), t[j]) = SubSeq(t, 1, j)
      BY <1>4, <3>1, PrefixNext
    <3> QED
      BY <3>2, <3>3, <3>5, <3>6
  <2> QED
    BY <2>1, <2>2
<1>8. g = [i \in 0..(a + b) |-> g[i]] /\ g[0] = <<>> /\ g[a + b] = t
  <2>1. g[0] = <<>>
    BY <1>6
  <2>2. a + b \in 0..(a + b) /\ (a + b) - a = b
    OBVIOUS
  <2>3. g[a + b] = SubSeq(t, 1, b)
    BY <2>2
  <2>4. SubSeq(t, 1, b) = t
    BY <1>4, SubSeqFull
  <2>5. g = [i \in 0..(a + b) |-> g[i]]
    OBVIOUS
  <2> QED
    BY <2>1, <2>3, <2>4, <2>5
<1> HIDE DEF g
<1>9. a + b \in Nat
  OBVIOUS
<1>10. Picks(g, z, n, a + b)
  BY <1>7, <1>8, <1>9, PicksIf
<1>11. RepliesTo(z, n) = g[a + b]
  BY <1>5, <1>9, <1>10, PickIs
<1> QED
  BY <1>2, <1>8, <1>11

\* One more.
LEMMA RepliesAppend ==
    ASSUME NEW S, NEW s \in Seq(S), NEW e \in S, NEW n
    PROVE  RepliesTo(Append(s, e), n) =
             IF e.of = n THEN Append(RepliesTo(s, n), e) ELSE RepliesTo(s, n)
<1>1. PICK f : /\ Picks(f, s, n, Len(s)) /\ RepliesTo(s, n) = f[Len(s)]
  BY RepliesPicks
<1>2. PICK z : z = Append(s, e)
  OBVIOUS
<1>3. PICK a \in Nat : a = Len(s)
  BY LenProperties
<1>5. Len(z) = a + 1 /\ z[a + 1] = e /\ \A i \in 1..a : z[i] = s[i]
  BY <1>2, <1>3, AppendProperties
<1> DEFINE new == IF e.of = n THEN Append(f[a], e) ELSE f[a]
           g == [i \in 0..(a + 1) |-> IF i <= a THEN f[i] ELSE new]
<1>6. f[0] = <<>> /\ \A i \in 1..a : f[i] = IF s[i].of = n THEN Append(f[i - 1], s[i]) ELSE f[i - 1]
  BY <1>1, <1>3, PicksFacts
<1>7. ASSUME NEW i \in 1..(a + 1)
      PROVE  g[i] = IF z[i].of = n THEN Append(g[i - 1], z[i]) ELSE g[i - 1]
  <2>1. CASE i <= a
    <3>1. z[i] = s[i] /\ i \in 1..a /\ i \in 0..(a + 1) /\ i - 1 \in 0..(a + 1) /\ i - 1 <= a
      BY <1>5, <2>1
    <3>2. g[i] = f[i] /\ g[i - 1] = f[i - 1]
      BY <2>1, <3>1
    <3> QED
      BY <1>6, <3>1, <3>2
  <2>2. CASE ~(i <= a)
    <3>1. i = a + 1 /\ i - 1 = a /\ i \in 0..(a + 1) /\ a \in 0..(a + 1) /\ a <= a
      BY <2>2
    <3>2. g[i] = new
      BY <2>2, <3>1
    <3>3. g[i - 1] = f[a] /\ z[i] = e
      BY <1>5, <3>1
    <3> QED
      BY <3>2, <3>3
  <2> QED
    BY <2>1, <2>2
<1>8. g = [i \in 0..(a + 1) |-> g[i]] /\ g[0] = <<>> /\ g[a + 1] = new
  <2>1. 0 \in 0..(a + 1) /\ 0 <= a /\ a + 1 \in 0..(a + 1) /\ ~(a + 1 <= a)
    OBVIOUS
  <2>2. g[0] = f[0] /\ g[a + 1] = new
    BY <2>1
  <2>3. g = [i \in 0..(a + 1) |-> g[i]]
    OBVIOUS
  <2> QED
    BY <1>6, <2>2, <2>3
<1> HIDE DEF g
<1>9. a + 1 \in Nat
  OBVIOUS
<1>10. Picks(g, z, n, a + 1)
  BY <1>7, <1>8, <1>9, PicksIf
<1>11. RepliesTo(z, n) = g[a + 1]
  BY <1>5, <1>9, <1>10, PickIs
<1> QED
  BY <1>1, <1>2, <1>3, <1>8, <1>11

-----------------------------------------------------------------------------
(* What may come of a request, with what its answer is.                      *)

\* What the replies of an outcome are, if nothing failed.
IsGood(o, method, isWebsocket, forServer) ==
    /\ o.server => ~isWebsocket /\ forServer /\ o.replies = <<>>
    /\ o.fault = "none" =>
        \/ IsWhole(o.replies, method)
        \/ o.replies = <<>> /\ (isWebsocket \/ o.server)

\* The fields of an outcome without a server.
LEMMA OutcomeFields ==
    ASSUME NEW q, NEW f
    PROVE  Outcome(q, f).replies = q /\ Outcome(q, f).fault = f /\ ~Outcome(q, f).server
BY DEF Outcome

\* A text is one status with its content.
LEMMA SendHttpGood ==
    ASSUME NEW method, NEW isHead, isHead = (method = "HEAD"),
           NEW status \in {"200", "403", "404", "500"}, NEW w, NEW v,
           NEW o \in Sending(SendHttp(isHead, status))
    PROVE  IsGood(o, method, w, v)
<1>1. PICK reply : reply = SendHttp(isHead, status)
  OBVIOUS
<1>2. reply.op = status /\ reply.declares = 1 /\ reply.body = IF isHead THEN 0 ELSE 1
  BY <1>1 DEF SendHttp
<1>3. PICK q : q = <<reply>>
  OBVIOUS
<1>4. Len(q) = 1 /\ q # <<>> /\ q[1] = reply
  BY <1>3
<1>5. IsWhole(q, method)
  <2>1. Len(q) - 1 + q[1].body = IF method = "HEAD" THEN 0 ELSE q[1].declares
    <3>1. q[1].declares = 1 /\ q[1].body = IF isHead THEN 0 ELSE 1
      BY <1>2, <1>4
    <3>2. CASE isHead
      <4>1. method = "HEAD"
        BY <3>2
      <4>2. q[1].body = 0
        BY <3>1, <3>2
      <4>3. Len(q) - 1 + q[1].body = 0
        BY <1>4, <4>2
      <4> QED
        BY <4>1, <4>3
    <3>3. CASE ~isHead
      <4>1. method # "HEAD"
        BY <3>3
      <4>2. q[1].body = 1
        BY <3>1, <3>3
      <4>3. Len(q) - 1 + q[1].body = 1
        BY <1>4, <4>2
      <4> QED
        BY <3>1, <4>1, <4>3
    <3> QED
      BY <3>2, <3>3
  <2>2. \A i \in 2..Len(q) : q[i].op = "BLOCK"
    BY <1>4
  <2>3. q[1].op \in {"200", "403", "404", "500"}
    BY <1>2, <1>4
  <2> QED
    BY <1>4, <2>1, <2>2, <2>3 DEF IsWhole
<1>6. o = Outcome(q, "none") \/ o = Outcome(<<>>, "send")
  BY <1>1, <1>3 DEF Sending
<1> QED
  BY <1>5, <1>6, OutcomeFields DEF IsGood

\* A file of which all was sent: sent_bytes == length.
LEMMA FileGood ==
    ASSUME NEW method, NEW isHead, isHead = (method = "HEAD"), NEW size \in Nat, NEW w, NEW v,
           NEW o \in SendFile(isHead, size)
    PROVE  IsGood(o, method, w, v)
<1>1. PICK head : head = [op |-> "200", declares |-> size, body |-> 0]
  OBVIOUS
<1>2. head.op = "200" /\ head.declares = size /\ head.body = 0
  BY <1>1
<1>3. CASE o = Outcome(<<>>, "send")
  BY <1>3, OutcomeFields DEF IsGood
<1>4. CASE o = Outcome(<<head>>, "none") /\ (isHead \/ size = 0)
  <2>1. PICK q : q = <<head>>
    OBVIOUS
  <2>2. Len(q) = 1 /\ q # <<>> /\ q[1] = head
    BY <2>1
  <2>3. IsWhole(q, method)
    <3>1. Len(q) - 1 + q[1].body = IF method = "HEAD" THEN 0 ELSE q[1].declares
      <4>1. Len(q) - 1 + q[1].body = 0 /\ q[1].declares = size
        BY <1>2, <2>2
      <4> QED
        BY <1>4, <4>1
    <3>2. \A i \in 2..Len(q) : q[i].op = "BLOCK"
      BY <2>2
    <3>3. q[1].op = "200"
      BY <1>2, <2>2
    <3> QED
      BY <2>2, <3>1, <3>2, <3>3 DEF IsWhole
  <2> QED
    BY <1>4, <2>1, <2>3, OutcomeFields DEF IsGood
<1>5. ASSUME NEW n \in 0..(MaxBlocks + 1), ~isHead,
             o = Outcome(<<head>> \o [i \in 1..n |-> [op |-> "BLOCK"]], FaultOfBlocks(size, n))
      PROVE  IsGood(o, method, w, v)
  <2>1. n \in Nat
    BY BoundsAssumption
  <2>2. PICK S : S = {head, [op |-> "BLOCK"]}
    OBVIOUS
  <2>3. PICK r : r = [i \in 1..n |-> [op |-> "BLOCK"]]
    OBVIOUS
  <2>4. r \in Seq(S) /\ Len(r) = n /\ \A i \in 1..n : r[i].op = "BLOCK"
    BY <2>1, <2>2, <2>3
  <2>5. PICK one : one = <<head>>
    OBVIOUS
  <2>6. one \in Seq(S) /\ Len(one) = 1 /\ one[1] = head
    BY <2>2, <2>5
  <2>7. PICK q : q = one \o r
    OBVIOUS
  <2>8. /\ q \in Seq(S) /\ Len(q) = 1 + n
        /\ \A i \in 1..(1 + n) : q[i] = IF i <= 1 THEN one[i] ELSE r[i - 1]
    <3>1. one \in Seq(S) /\ r \in Seq(S)
      BY <2>4, <2>6
    <3>2. /\ one \o r \in Seq(S) /\ Len(one \o r) = Len(one) + Len(r)
          /\ \A i \in 1..(Len(one) + Len(r)) :
               (one \o r)[i] = IF i <= Len(one) THEN one[i] ELSE r[i - Len(one)]
      BY <3>1, ConcatProperties
    <3>3. Len(one) = 1 /\ Len(r) = n
      BY <2>4, <2>6
    <3> QED
      BY <2>7, <3>2, <3>3
  <2>9. q # <<>> /\ q[1] = head /\ \A i \in 2..Len(q) : q[i].op = "BLOCK"
    <3>1. q[1] = head /\ Len(q) # 0
      BY <2>1, <2>6, <2>8
    <3>2. ASSUME NEW i \in 2..Len(q) PROVE q[i].op = "BLOCK"
      <4>1. i \in 1..(1 + n) /\ ~(i <= 1) /\ i - 1 \in 1..n
        BY <2>1, <2>8
      <4> QED
        BY <2>4, <2>8, <4>1
    <3>3. q # <<>>
      BY <3>1
    <3> QED
      BY <3>1, <3>2, <3>3
  <2>10. o.replies = q /\ o.fault = FaultOfBlocks(size, n) /\ ~o.server
    BY <1>5, <2>3, <2>5, <2>7, OutcomeFields
  <2>11. ASSUME o.fault = "none" PROVE IsWhole(q, method)
    <3>1. n = size
      BY <2>10, <2>11 DEF FaultOfBlocks
    <3>2. Len(q) - 1 + q[1].body = size
      BY <1>2, <2>1, <2>8, <2>9, <3>1
    <3> QED
      BY <1>2, <1>5, <2>9, <3>2 DEF IsWhole
  <2> QED
    BY <2>10, <2>11 DEF IsGood
<1>6. \/ o = Outcome(<<>>, "send")
      \/ o = Outcome(<<head>>, "none") /\ (isHead \/ size = 0)
      \/ /\ ~isHead
         /\ \E n \in 0..(MaxBlocks + 1) :
              o = Outcome(<<head>> \o [i \in 1..n |-> [op |-> "BLOCK"]], FaultOfBlocks(size, n))
  BY <1>1 DEF SendFile
<1> QED
  BY <1>3, <1>4, <1>5, <1>6

\* Whatever comes of a request: if nothing failed the answer is whole, or there is
\* none, as the upgrade or a server follows.
LEMMA RequestGood ==
    ASSUME NEW r, NEW isWebsocket \in BOOLEAN, NEW f, NEW o \in OnHttpRequest(r, isWebsocket, f)
    PROVE  IsGood(o, r.method, isWebsocket, f = "http" /\ r.resource \in {"page", "static"})
<1>1. PICK isHead \in BOOLEAN : isHead = (r.method = "HEAD")
  OBVIOUS
<1> DEFINE forServer == f = "http" /\ r.resource \in {"page", "static"}
           Good(p) == IsGood(p, r.method, isWebsocket, forServer)
<1>2. ASSUME NEW status \in {"200", "403", "404", "500"}, NEW p \in Sending(SendHttp(isHead, status))
      PROVE  Good(p)
  <2> HIDE DEF forServer
  <2> QED
    BY <1>1, SendHttpGood
<1>3. /\ \A p \in NotFound(isHead) : Good(p)
      /\ \A p \in OnListRequest(isHead) : Good(p)
  <2> HIDE DEF Good
  <2> QED
    BY <1>2 DEF NotFound, OnListRequest
<1>4. ASSUME isWebsocket, r.method = "GET", NEW p \in OnDevtoolsRequest PROVE Good(p)
  <2>1. CASE p \in NotFound(FALSE)
    <3>1. isHead = FALSE
      BY <1>1, <1>4
    <3> QED
      BY <1>3, <2>1, <3>1
  <2>2. CASE p = [Outcome(<<>>, "none") EXCEPT !.page = TRUE]
    <3>1. p.replies = <<>> /\ ~p.server
      BY <2>2 DEF Outcome
    <3> QED
      BY <1>4, <3>1 DEF IsGood
  <2>3. CASE p = Outcome(<<>>, "device")
    BY <2>3, OutcomeFields DEF IsGood
  <2> QED
    BY <1>4, <2>1, <2>2, <2>3 DEF OnDevtoolsRequest
<1>5. ASSUME NEW p \in OnStaticRequestForFile(isHead, r.resource) PROVE Good(p)
  <2>1. CASE \E size \in 0..MaxBlocks : p \in SendFile(isHead, size)
    <3>1. PICK size \in Nat : p \in SendFile(isHead, size)
      BY <2>1, BoundsAssumption
    <3> HIDE DEF forServer
    <3> QED
      BY <1>1, <3>1, FileGood
  <2>2. CASE p \in NotFound(isHead) \cup Sending(SendHttp(isHead, "403"))
    <3> HIDE DEF Good
    <3> QED
      BY <1>2, <1>3, <2>2
  <2> QED
    BY <1>5, <2>1, <2>2 DEF OnStaticRequestForFile
<1>6. ASSUME NEW p \in OnStaticRequestForHttp(isHead, r.resource), ~isWebsocket, f = "http",
             r.resource \in {"page", "static", "dotted"}
      PROVE  Good(p)
  <2>1. CASE \E status \in {"403", "500"} : p \in Sending(SendHttp(isHead, status))
    <3> HIDE DEF Good
    <3> QED
      BY <1>2, <2>1
  <2>2. ASSUME NEW fault1 \in {"none", "server"}, p = [Outcome(<<>>, fault1) EXCEPT !.server = TRUE],
               ~IsInvalidPath(r.resource)
        PROVE  Good(p)
    <3>1. p.replies = <<>> /\ p.server
      BY <2>2 DEF Outcome
    <3>2. forServer
      BY <1>6, <2>2 DEF IsInvalidPath
    <3> QED
      BY <1>6, <3>1, <3>2 DEF IsGood
  <2> QED
    BY <1>6, <2>1, <2>2 DEF OnStaticRequestForHttp
<1>7. ASSUME NEW p \in OnStaticRequest(isHead, r.resource, f), ~isWebsocket,
             r.resource \in {"page", "static", "dotted"}
      PROVE  Good(p)
  <2> HIDE DEF Good
  <2> QED
    BY <1>3, <1>5, <1>6, <1>7 DEF OnStaticRequest
<1>8. \/ isWebsocket /\ r.method = "GET" /\ o \in OnDevtoolsRequest
      \/ o \in NotFound(isHead) \cup OnListRequest(isHead)
      \/ /\ ~isWebsocket /\ r.resource \in {"page", "static", "dotted"}
         /\ o \in OnStaticRequest(isHead, r.resource, f)
  <2> HIDE DEF Good, forServer
  <2>1. OnHttpRequest(r, isWebsocket, f) =
          IF isWebsocket
          THEN IF r.method = "GET" /\ r.resource = "page" THEN OnDevtoolsRequest
               ELSE NotFound(isHead)
          ELSE IF r.method \in {"GET", "HEAD"} THEN OnPlainRequest(isHead, r.resource, f)
               ELSE NotFound(isHead)
    BY <1>1 DEF OnHttpRequest
  <2>2. ASSUME o \in OnPlainRequest(isHead, r.resource, f)
        PROVE  \/ o \in NotFound(isHead) \cup OnListRequest(isHead)
               \/ /\ r.resource \in {"page", "static", "dotted"}
                  /\ o \in OnStaticRequest(isHead, r.resource, f)
    BY <2>2 DEF OnPlainRequest
  <2>3. CASE isWebsocket
    BY <2>1, <2>3
  <2>4. CASE ~isWebsocket
    BY <2>1, <2>2, <2>4
  <2> QED
    BY <2>3, <2>4
<1>9. CASE isWebsocket /\ r.method = "GET" /\ o \in OnDevtoolsRequest
  BY <1>4, <1>9
<1>10. CASE o \in NotFound(isHead) \cup OnListRequest(isHead)
  BY <1>3, <1>10
<1>11. CASE /\ ~isWebsocket /\ r.resource \in {"page", "static", "dotted"}
            /\ o \in OnStaticRequest(isHead, r.resource, f)
  BY <1>7, <1>11
<1> QED
  BY <1>8, <1>9, <1>10, <1>11

-----------------------------------------------------------------------------
(* The answers.                                                              *)

\* Nothing is sent for what was not handled yet.
OnlyHandled == \A i \in 1..Len(out) : out[i].of <= handled

\* sec_key is set by a request that was handled.
KeyRead == secKey <=> \E i \in 1..handled : IsRequest(i) /\ sent[i].key

\* n has an answer of a static server, as far as there is one.
IsRelayed(n) ==
    /\ n \in 1..handled /\ IsRequest(n) /\ ~AsksWebsocket(n) /\ ForServer(n)
    /\ \A i \in 1..Len(AnswerTo(n)) : AnswerTo(n)[i].op = "RELAYED"

\* What is sent for the requests; that of a static server is still to come.
Answers ==
    /\ OnlyHandled /\ KeyRead
    /\ \A n \in servers : IsRelayed(n)
    /\ state # "error" => \A n \in 1..handled : IsRequest(n) => IsAnswered(n)

\* What is said of an item stays true as long as nothing is sent for it.
LEMMA ItemStays ==
    ASSUME NEW n \in Nat, \A i \in 1..n : sent'[i] = sent[i], n >= 1, frontend' = frontend,
           AnswerTo(n)' = AnswerTo(n)
    PROVE  /\ IsRequest(n)' = IsRequest(n) /\ AsksWebsocket(n)' = AsksWebsocket(n)
           /\ ForServer(n)' = ForServer(n)
           /\ IsAnswered(n) => IsAnswered(n)'
<1>1. \A i \in 1..n : IsRequest(i)' = IsRequest(i)
  BY DEF IsRequest
<1>2. n \in 1..n /\ sent'[n] = sent[n]
  OBVIOUS
<1>3. AsksWebsocket(n)' = AsksWebsocket(n) /\ ForServer(n)' = ForServer(n)
  BY <1>1, <1>2 DEF AsksWebsocket, ForServer
<1>4. ASSUME IsAnswered(n) PROVE IsAnswered(n)'
  <2>1. PICK a : a = AnswerTo(n)
    OBVIOUS
  <2>2. PICK method : method = sent[n].method
    OBVIOUS
  <2>3. a = AnswerTo(n)' /\ method = sent'[n].method
    BY <1>2, <2>1, <2>2
  <2>4. IF AsksWebsocket(n)
        THEN a # <<>> /\ Last(a).op = "UPGRADE" /\ (Len(a) > 1 => IsWhole(Front(a), method))
        ELSE \/ IsWhole(a, method)
             \/ ForServer(n) /\ \A i \in 1..Len(a) : a[i].op = "RELAYED"
    BY <1>4, <2>1, <2>2 DEF IsAnswered
  <2> QED
    BY <1>3, <2>3, <2>4 DEF IsAnswered
<1> QED
  BY <1>1, <1>2, <1>3, <1>4

\* A step that handles at most a frame and sends nothing for the items before.
LEMMA AnswersKept ==
    ASSUME Types, Position, Answers,
           \A i \in 1..handled : sent'[i] = sent[i],
           \A n \in 1..handled : AnswerTo(n)' = AnswerTo(n),
           handled' = handled \/ (handled' = handled + 1 /\ sent'[handled + 1].kind = "frame"),
           frontend' = frontend, secKey' = secKey, servers' \subseteq servers,
           state' # "error" => state # "error", OnlyHandled'
    PROVE  Answers'
<1>1. handled \in Nat
  BY DEF Types
<1>2. ASSUME NEW n \in 1..handled
      PROVE  /\ IsRequest(n)' = IsRequest(n) /\ AsksWebsocket(n)' = AsksWebsocket(n)
             /\ ForServer(n)' = ForServer(n)
             /\ IsAnswered(n) => IsAnswered(n)'
  <2>1. n \in Nat /\ n >= 1 /\ \A i \in 1..n : sent'[i] = sent[i]
    BY <1>1
  <2> QED
    BY <2>1, ItemStays
<1>3. \A n \in 1..handled' : n \in 1..handled \/ ~IsRequest(n)'
  BY <1>1 DEF IsRequest
<1>4. 1..handled \subseteq 1..handled'
  BY <1>1
<1>5. KeyRead'
  <2>1. (\E i \in 1..handled' : IsRequest(i)' /\ sent'[i].key)
          <=> (\E i \in 1..handled : IsRequest(i) /\ sent[i].key)
    BY <1>2, <1>3, <1>4
  <2> QED
    BY <2>1 DEF Answers, KeyRead
<1>6. ASSUME NEW n \in servers' PROVE IsRelayed(n)'
  <2>1. IsRelayed(n)
    BY DEF Answers
  <2>2. n \in 1..handled /\ AnswerTo(n)' = AnswerTo(n)
    BY <2>1 DEF IsRelayed
  <2> QED
    BY <1>2, <1>4, <2>1, <2>2 DEF IsRelayed
<1>7. ASSUME state' # "error", NEW n \in 1..handled', IsRequest(n)' PROVE IsAnswered(n)'
  BY <1>2, <1>3, <1>7 DEF Answers
<1> QED
  BY <1>5, <1>6, <1>7 DEF Answers

\* What is sent for k, or nothing, is no answer to another.
LEMMA SentForOther ==
    ASSUME Types, NEW k, out' = out \/ \E m \in Outs : out' = Append(out, m) /\ m.of = k
    PROVE  \A n : n # k => AnswerTo(n)' = AnswerTo(n)
<1>1. CASE out' = out
  BY <1>1 DEF AnswerTo
<1>2. ASSUME NEW m \in Outs, out' = Append(out, m), m.of = k, NEW n, n # k
      PROVE  AnswerTo(n)' = AnswerTo(n)
  <2>1. PICK s : s = out
    OBVIOUS
  <2>2. s \in Seq(Outs) /\ out' = Append(s, m)
    BY <1>2, <2>1 DEF Types
  <2>3. RepliesTo(Append(s, m), n) = RepliesTo(s, n)
    BY <1>2, <2>2, RepliesAppend
  <2> QED
    BY <2>1, <2>2, <2>3 DEF AnswerTo
<1> QED
  BY <1>1, <1>2

\* It is for an item that was handled.
LEMMA SentForHandled ==
    ASSUME Types, OnlyHandled, handled' \in Nat, handled' >= handled, NEW k \in Nat, k <= handled',
           out' = out \/ \E m \in Outs : out' = Append(out, m) /\ m.of = k
    PROVE  OnlyHandled'
<1>1. handled \in Nat /\ out \in Seq(Outs)
  BY DEF Types
<1>2. \A i \in 1..Len(out) : out[i].of \in Nat /\ out[i].of <= handled'
  <2>1. \A m \in Outs : m.of \in Nat
    BY DEF Outs
  <2>2. \A i \in 1..Len(out) : out[i] \in Outs
    BY <1>1, ElementOfSeq
  <2> QED
    BY <1>1, <2>1, <2>2 DEF OnlyHandled
<1>3. CASE out' = out
  BY <1>2, <1>3 DEF OnlyHandled
<1>4. ASSUME NEW m \in Outs, out' = Append(out, m), m.of = k PROVE OnlyHandled'
  <2>1. PICK s : s = out'
    OBVIOUS
  <2>2. /\ Len(s) = Len(out) + 1 /\ Len(out) \in Nat
        /\ s[Len(out) + 1] = m /\ \A i \in 1..Len(out) : s[i] = out[i]
    BY <1>1, <1>4, <2>1, SentOn
  <2>3. ASSUME NEW i \in 1..Len(s) PROVE s[i].of <= handled'
    <3>1. CASE i = Len(out) + 1
      BY <1>4, <2>2, <3>1
    <3>2. CASE i # Len(out) + 1
      <4>1. i \in 1..Len(out)
        BY <2>2, <3>2
      <4> QED
        BY <1>2, <2>2, <4>1
    <3> QED
      BY <3>1, <3>2
  <2> QED
    BY <2>1, <2>3 DEF OnlyHandled
<1> QED
  BY <1>3, <1>4

\* What SendFrame sends is for the item that it is told.
LEMMA FrameSentFor ==
    ASSUME NEW op \in {"TEXT", "CLOSE", "PONG"}, NEW of \in Nat, NEW r \in Attempts(op, of)
    PROVE  r.out = out \/ \E m \in Outs : r.out = Append(out, m) /\ m.of = of
<1>1. CASE r = Broken
  BY <1>1 DEF Broken, Replies
<1>2. ASSUME NEW utf8 \in BOOLEAN, r = SendFrame(Replies, op, of, utf8)
      PROVE  r.out = out \/ \E m \in Outs : r.out = Append(out, m) /\ m.of = of
  <2>1. PICK m : m = Reply(IF continued # None /\ op \notin Control THEN "CONTINUATION" ELSE op, of)
    OBVIOUS
  <2>2. m \in Outs /\ m.of = of
    BY <2>1 DEF Reply, Outs
  <2>3. \/ r = [Replies EXCEPT !.fault = "refused"]
        \/ r = [Replies EXCEPT !.out = Append(@, m), !.sentClose = (op = "CLOSE")]
    BY <1>2, <2>1 DEF SendFrame
  <2>4. r.out = out \/ r.out = Append(out, m)
    BY <2>3 DEF Replies
  <2> QED
    BY <2>2, <2>4
<1> QED
  BY <1>1, <1>2 DEF Attempts

\* What OnFrame sends is for the frame that is handled.
LEMMA FrameAnswered ==
    ASSUME Types, NEW f, f.fin \in BOOLEAN, NEW payloads,
           NEW op \in {"TEXT", "BINARY", "CLOSE", "PING", "PONG"}, NEW r \in OnFrame(op, f, payloads)
    PROVE  r.out = out \/ \E m \in Outs : r.out = Append(out, m) /\ m.of = handled + 1
<1>1. ASSUME NEW reply \in {"CLOSE", "PONG"}, r \in Sends(reply)
      PROVE  r.out = out \/ \E m \in Outs : r.out = Append(out, m) /\ m.of = handled + 1
  <2>1. PICK of : of = handled + 1
    OBVIOUS
  <2>4. of \in Nat /\ reply \in {"TEXT", "CLOSE", "PONG"}
    BY <2>1 DEF Types
  <2>2. r \in Attempts(reply, of)
    BY <1>1, <2>1 DEF Sends, Attempts
  <2>3. r.out = out \/ \E m \in Outs : r.out = Append(out, m) /\ m.of = of
    BY <2>2, <2>4, FrameSentFor
  <2> QED
    BY <2>1, <2>3
<1>2. ASSUME NEW k, r = [Replies EXCEPT !.forwarded = k] PROVE r.out = out
  BY <1>2 DEF Replies
<1>3. ASSUME NEW k, r = [Replies EXCEPT !.fault = k] PROVE r.out = out
  BY <1>3 DEF Replies
<1>4. CASE op \in {"TEXT", "BINARY"} /\ ~f.fin
  <2>1. r = Replies
    BY <1>4 DEF OnFrame
  <2> QED
    BY <2>1 DEF Replies
<1>5. CASE op \in {"TEXT", "BINARY"} /\ f.fin /\ f.masked /\ page
  <2>1. r \in {[Replies EXCEPT !.forwarded = Append(@, payloads)], Broken}
    BY <1>5 DEF OnFrame
  <2> QED
    BY <2>1 DEF Broken, Replies
<1>6. CASE op \in {"TEXT", "BINARY"} /\ f.fin /\ ~(f.masked /\ page)
  <2>1. r \in Sends("CLOSE")
    BY <1>6 DEF OnFrame
  <2> QED
    BY <2>1, <1>1
<1>7. CASE op = "CLOSE"
  <2>1. r \in Sends("CLOSE")
    BY <1>7 DEF OnFrame
  <2> QED
    BY <2>1, <1>1
<1>8. CASE op = "PING"
  <2>1. r \in Sends("PONG") \cup {[Replies EXCEPT !.fault = "refused"] : i \in 2..Len(payloads)}
    BY <1>8 DEF OnFrame
  <2>2. r \in Sends("PONG") \/ r = [Replies EXCEPT !.fault = "refused"]
    BY <2>1
  <2> QED
    BY <2>2, <1>1, <1>3
<1>9. CASE op = "PONG"
  <2>1. r = Replies
    BY <1>9 DEF OnFrame
  <2> QED
    BY <2>1 DEF Replies
<1> QED
  BY <1>4, <1>5, <1>6, <1>7, <1>8, <1>9

\* The client sends, another unit comes, the page is lost, the device sends, the
\* loop waits or goes on, a frame is handled, or a server ends.
LEMMA AnswersSteps ==
    ASSUME Session, Answers,
           \/ \E item \in Requests \cup Frames : ClientSends(item)
           \/ \E n \in 1..(MaxItems * (HeadUnits + 2)) : OnRecv(n)
           \/ LosesPage \/ DeviceSendsData \/ \E n \in servers : ServerEnds(n)
           \/ RecvRequest \/ RecvFrameLength \/ RecvFrame
    PROVE  Answers'
<1>1. Types /\ Position
  BY DEF Session
<1>2. Len(sent) \in Nat /\ handled \in 0..Len(sent) /\ handled \in Nat
  BY <1>1, Facts
<1> DEFINE SameItems == handled' = handled /\ \A i \in 1..handled : sent'[i] = sent[i]
           SameRest == /\ frontend' = frontend /\ secKey' = secKey /\ servers' \subseteq servers
                       /\ (state' # "error" => state # "error")
<1>3. ASSUME SameItems, SameRest, out' = out PROVE Answers'
  <2>1. OnlyHandled' /\ \A n \in 1..handled : AnswerTo(n)' = AnswerTo(n)
    BY <1>3 DEF Answers, OnlyHandled, AnswerTo
  <2>2. /\ \A i \in 1..handled : sent'[i] = sent[i]
        /\ handled' = handled \/ (handled' = handled + 1 /\ sent'[handled + 1].kind = "frame")
        /\ frontend' = frontend /\ secKey' = secKey /\ servers' \subseteq servers
        /\ state' # "error" => state # "error"
    BY <1>3
  <2> HIDE DEF SameItems, SameRest
  <2> QED
    BY <1>1, <2>1, <2>2, AnswersKept
<1>4. ASSUME NEW item \in Requests \cup Frames, ClientSends(item) PROVE Answers'
  <2>1. /\ sent' = Append(sent, item) /\ state \notin {"closed", "error"}
        /\ UNCHANGED <<parser, handled, out, outside>>
    BY <1>4 DEF ClientSends
  <2>2. \A i \in 1..handled : sent'[i] = sent[i]
    <3>1. \A i \in 1..Len(sent) : sent'[i] = sent[i]
      <4>1. sent \in Seq(Requests \cup Frames)
        BY <1>1 DEF Types
      <4> QED
        BY <2>1, <4>1, SentOn
    <3> QED
      BY <1>2, <3>1
  <2> QED
    BY <1>3, <2>1, <2>2 DEF parser, outside
<1>5. ASSUME NEW n \in 1..(MaxItems * (HeadUnits + 2)), OnRecv(n) PROVE Answers'
  BY <1>3, <1>5 DEF OnRecv, parser, outside
<1>6. ASSUME LosesPage PROVE Answers'
  BY <1>3, <1>6 DEF LosesPage, parser, outside
<1>7. ASSUME NEW n \in servers, ServerEnds(n) PROVE Answers'
  BY <1>3, <1>7 DEF ServerEnds
<1>8. ASSUME RecvRequest PROVE Answers'
  <2>1. state = "request"
    BY <1>8 DEF RecvRequest
  <2> QED
    BY <1>3, <1>8, <2>1 DEF RecvRequest, outside
<1>9. ASSUME RecvFrameLength PROVE Answers'
  <2>1. state = "frame_length"
    BY <1>9 DEF RecvFrameLength
  <2> QED
    BY <1>3, <1>9, <2>1 DEF RecvFrameLength, outside
<1>10. ASSUME DeviceSendsData PROVE Answers'
  <2>1. PICK r \in Attempts("TEXT", 0) :
            out' = r.out /\ state' = IF r.fault = "none" THEN state ELSE "closed"
    BY <1>10 DEF DeviceSendsData, Attempts
  <2>2. SameItems /\ SameRest
    BY <1>10 DEF DeviceSendsData, outside
  <2>3. out' = out \/ \E m \in Outs : out' = Append(out, m) /\ m.of = 0
    BY <2>1, FrameSentFor
  <2>4. OnlyHandled'
    BY <1>1, <1>2, <2>2, <2>3, SentForHandled DEF Answers
  <2>5. \A n : n # 0 => AnswerTo(n)' = AnswerTo(n)
    BY <1>1, <2>3, SentForOther
  <2>6. /\ \A i \in 1..handled : sent'[i] = sent[i] /\ AnswerTo(i)' = AnswerTo(i)
        /\ handled' = handled \/ (handled' = handled + 1 /\ sent'[handled + 1].kind = "frame")
        /\ frontend' = frontend /\ secKey' = secKey /\ servers' \subseteq servers
        /\ state' # "error" => state # "error"
    BY <1>2, <2>2, <2>5
  <2> HIDE DEF SameItems, SameRest
  <2> QED
    BY <1>1, <2>4, <2>6, AnswersKept
<1>11. ASSUME RecvFrame PROVE Answers'
  <2>1. /\ state = "frame"
        /\ UNCHANGED <<secKey, sent, frontend, servers>>
    BY <1>11 DEF RecvFrame
  <2>2. CASE needed # 0 \/ frameLength = 0 \/ Unread < frameLength
    <3>1. UNCHANGED <<handled, out>>
      BY <1>11, <2>2 DEF RecvFrame
    <3> QED
      BY <1>3, <2>1, <3>1
  <2>4. CASE /\ ~(needed # 0 \/ frameLength = 0 \/ Unread < frameLength)
             /\ NotText(Current, OpcodeOf(Current))
    <3>1. UNCHANGED <<handled, out>>
      BY <1>11, <2>4 DEF RecvFrame, OpcodeOf
    <3> QED
      BY <1>3, <2>1, <3>1
  <2>3. CASE /\ ~(needed # 0 \/ frameLength = 0 \/ Unread < frameLength)
             /\ ~NotText(Current, OpcodeOf(Current))
    <3>1. PICK f, op, payloads : /\ f = Current /\ op = OpcodeOf(f)
                                 /\ payloads = Append(data, handled + 1)
      OBVIOUS
    <3>2. PICK r \in OnFrame(op, f, payloads) : out' = r.out /\ handled' = handled + 1
      BY <1>11, <2>3, <3>1 DEF RecvFrame, OpcodeOf
    <3>3. /\ IsFrame(handled + 1) /\ f.fin \in BOOLEAN
          /\ op \in {"TEXT", "BINARY", "CLOSE", "PING", "PONG"}
      BY <2>1, <3>1, FrameHandled
    <3>4. r.out = out \/ \E m \in Outs : r.out = Append(out, m) /\ m.of = handled + 1
      BY <1>1, <3>3, FrameAnswered
    <3>5. PICK k : k = handled + 1
      OBVIOUS
    <3>6. out' = out \/ \E m \in Outs : out' = Append(out, m) /\ m.of = k
      BY <3>2, <3>4, <3>5
    <3>7. k \in Nat /\ handled' = k /\ handled' \in Nat /\ handled' >= handled /\ k <= handled'
      BY <1>2, <3>2, <3>5
    <3>8. OnlyHandled'
      BY <1>1, <3>6, <3>7, SentForHandled DEF Answers
    <3>9. \A n : n # k => AnswerTo(n)' = AnswerTo(n)
      BY <1>1, <3>6, SentForOther
    <3>10. \A n \in 1..handled : n # k /\ AnswerTo(n)' = AnswerTo(n)
      BY <1>2, <3>5, <3>9
    <3>11. handled' = handled + 1 /\ sent'[handled + 1].kind = "frame"
      BY <2>1, <3>2, <3>3 DEF IsFrame
    <3> QED
      BY <1>1, <2>1, <3>8, <3>10, <3>11, AnswersKept
  <2> QED
    BY <2>2, <2>3, <2>4
<1> QED
  BY <1>4, <1>5, <1>6, <1>7, <1>8, <1>9, <1>10, <1>11

\* A static server's data go on with the answer to its item.
LEMMA AnswersServerSends ==
    ASSUME Session, Answers, NEW n \in servers, ServerSends(n)
    PROVE  Answers'
<1>1. Types /\ Position
  BY DEF Session
<1>2. handled \in Nat /\ n \in 1..handled /\ IsRelayed(n)
  BY <1>1 DEF Answers, IsRelayed, Types
<1>3. /\ UNCHANGED <<secKey, sent, handled, frontend, servers>> /\ state # "error"
      /\ \/ out' = Append(out, Reply("RELAYED", n)) /\ UNCHANGED state
         \/ state' = "closed" /\ UNCHANGED out
  BY DEF ServerSends, outside
<1>4. PICK m : m = Reply("RELAYED", n)
  OBVIOUS
<1>5. m \in Outs /\ m.op = "RELAYED" /\ m.of = n
  BY <1>2, <1>4 DEF Reply, Outs
<1>6. out' = out \/ out' = Append(out, m)
  BY <1>3, <1>4
<1>7. OnlyHandled' /\ \A i : i # n => AnswerTo(i)' = AnswerTo(i)
  <2>1. n \in Nat /\ handled' \in Nat /\ handled' >= handled /\ n <= handled'
    BY <1>2, <1>3
  <2>2. out' = out \/ \E m1 \in Outs : out' = Append(out, m1) /\ m1.of = n
    BY <1>5, <1>6
  <2>3. OnlyHandled'
    BY <1>1, <2>1, <2>2, SentForHandled DEF Answers
  <2> QED
    BY <1>1, <2>2, <2>3, SentForOther
<1>8. \A i \in 1..Len(AnswerTo(n)') : AnswerTo(n)'[i].op = "RELAYED"
  <2>1. PICK a, s : a = AnswerTo(n) /\ s = out
    OBVIOUS
  <2>2. a = RepliesTo(s, n) /\ s \in Seq(Outs) /\ \A i \in 1..Len(a) : a[i].op = "RELAYED"
    BY <1>1, <1>2, <2>1 DEF AnswerTo, IsRelayed, Types
  <2>3. a \in Seq(Outs)
    BY <2>2, RepliesType
  <2>4. CASE out' = out
    <3>1. AnswerTo(n)' = a
      BY <2>1, <2>4 DEF AnswerTo
    <3> QED
      BY <2>2, <3>1
  <2>5. CASE out' = Append(s, m)
    <3>1. RepliesTo(Append(s, m), n) = Append(RepliesTo(s, n), m)
      BY <1>5, <2>2, RepliesAppend
    <3>2. PICK b : b = Append(a, m)
      OBVIOUS
    <3>3. AnswerTo(n)' = b
      BY <2>2, <2>5, <3>1, <3>2 DEF AnswerTo
    <3>4. Len(b) = Len(a) + 1 /\ Len(a) \in Nat /\ b[Len(a) + 1] = m /\ \A i \in 1..Len(a) : b[i] = a[i]
      BY <1>5, <2>3, <3>2, SentOn
    <3>5. \A i \in 1..Len(b) : i = Len(a) + 1 \/ i \in 1..Len(a)
      BY <3>4
    <3>6. \A i \in 1..Len(b) : b[i].op = "RELAYED"
      BY <1>5, <2>2, <3>4, <3>5
    <3> QED
      BY <3>3, <3>6
  <2> QED
    BY <1>6, <2>1, <2>4, <2>5
<1>9. ASSUME NEW i \in 1..handled
      PROVE  /\ IsRequest(i)' = IsRequest(i) /\ AsksWebsocket(i)' = AsksWebsocket(i)
             /\ ForServer(i)' = ForServer(i)
  BY <1>3 DEF IsRequest, AsksWebsocket, ForServer
<1>10. ASSUME NEW i \in servers PROVE IsRelayed(i)'
  <2>1. IsRelayed(i) /\ i \in 1..handled
    BY DEF Answers, IsRelayed
  <2>2. \A j \in 1..Len(AnswerTo(i)') : AnswerTo(i)'[j].op = "RELAYED"
    <3>1. CASE i = n
      BY <1>8, <3>1
    <3>2. CASE i # n
      <4>1. AnswerTo(i)' = AnswerTo(i)
        BY <1>7, <3>2
      <4> QED
        BY <2>1, <4>1 DEF IsRelayed
    <3> QED
      BY <3>1, <3>2
  <2> QED
    BY <1>3, <1>9, <2>1, <2>2 DEF IsRelayed
<1>11. ASSUME NEW i \in 1..handled, IsRequest(i) PROVE IsAnswered(i)'
  <2>1. CASE i = n
    <3>1. ~AsksWebsocket(n)' /\ ForServer(n)'
      BY <1>2, <1>9 DEF IsRelayed
    <3> QED
      BY <1>8, <2>1, <3>1 DEF IsAnswered
  <2>2. CASE i # n
    <3>1. IsAnswered(i)
      BY <1>3, <1>11 DEF Answers
    <3>2. /\ i \in Nat /\ i >= 1 /\ frontend' = frontend /\ \A j \in 1..i : sent'[j] = sent[j]
          /\ AnswerTo(i)' = AnswerTo(i)
      BY <1>2, <1>3, <1>7, <2>2
    <3> QED
      BY <3>1, <3>2, ItemStays
  <2> QED
    BY <2>1, <2>2
<1>12. KeyRead'
  BY <1>3, <1>9 DEF Answers, KeyRead
<1> QED
  BY <1>3, <1>7, <1>9, <1>10, <1>11, <1>12 DEF Answers

\* Without its last element a sequence is what it was before.
LEMMA FrontOfAppend ==
    ASSUME NEW S, NEW s \in Seq(S), NEW e \in S
    PROVE  Front(Append(s, e)) = s
<1>1. PICK a : a = Append(s, e)
  OBVIOUS
<1>2. /\ a \in Seq(S) /\ Len(a) = Len(s) + 1 /\ Len(s) \in Nat
      /\ \A i \in 1..Len(s) : a[i] = s[i] /\ s[i] \in S
  BY <1>1, SentOn, ElementOfSeq
<1>3. PICK n \in Nat : n = Len(s)
  BY <1>2
<1>4. PICK q : q = SubSeq(a, 1, n)
  OBVIOUS
<1>5. q \in Seq(S) /\ Len(q) = n /\ \A i \in 1..n : q[i] = a[i]
  BY <1>2, <1>3, <1>4, SubSeqProperties
<1>6. q = s
  BY <1>2, <1>3, <1>5, SeqEqual
<1>7. Len(a) - 1 = n
  BY <1>2, <1>3
<1> QED
  BY <1>1, <1>4, <1>6, <1>7 DEF Front

\* With the number of its item, an answer is as whole as it was.
LEMMA WholeReplied ==
    ASSUME NEW n \in Nat, NEW s \in Seq(Statuses \cup Blocks), NEW q, q = Replied(s, n), NEW method
    PROVE  /\ q \in Seq(Outs) /\ Len(q) = Len(s) /\ \A i \in 1..Len(q) : q[i].of = n
           /\ IsWhole(s, method) => IsWhole(q, method)
<1>1. Len(s) \in Nat /\ DOMAIN s = 1..Len(s) /\ \A i \in 1..Len(s) : s[i] \in Statuses \cup Blocks
  BY ElementOfSeq, LenProperties
<1>2. q \in Seq(Outs)
  BY RepliedTypes
<1>3. DOMAIN q = 1..Len(s) /\ Len(q) = Len(s)
  <2>1. DOMAIN q = DOMAIN s
    BY DEF Replied
  <2>2. DOMAIN q = 1..Len(q) /\ Len(q) \in Nat
    BY <1>2, LenProperties
  <2> QED
    BY <1>1, <2>1, <2>2
<1>4. ASSUME NEW i \in 1..Len(s)
      PROVE  /\ q[i].of = n
             /\ \A field \in DOMAIN s[i] : field # "of" => q[i][field] = s[i][field]
  <2>1. PICK r : r = s[i]
    OBVIOUS
  <2>2. q[i] = [field \in DOMAIN r \cup {"of"} |-> IF field = "of" THEN n ELSE r[field]]
    BY <1>1, <2>1 DEF Replied
  <2>3. q[i].of = n
    BY <2>2
  <2>4. \A field \in DOMAIN r : field # "of" => q[i][field] = r[field]
    BY <2>2
  <2> QED
    BY <2>1, <2>3, <2>4
<1>5. ASSUME NEW i \in 1..Len(s) PROVE q[i].op = s[i].op
  <2>1. "op" \in DOMAIN s[i]
    BY <1>1 DEF Statuses, Blocks
  <2> QED
    BY <1>4, <2>1
<1>6. ASSUME NEW i \in 1..Len(s), s[i].op \in {"200", "403", "404", "500"}
      PROVE  q[i].declares = s[i].declares /\ q[i].body = s[i].body
  <2>1. s[i] \in Statuses
    BY <1>1, <1>6 DEF Statuses, Blocks
  <2>2. "declares" \in DOMAIN s[i] /\ "body" \in DOMAIN s[i]
    BY <2>1 DEF Statuses
  <2> QED
    BY <1>4, <2>2
<1>7. ASSUME IsWhole(s, method) PROVE IsWhole(q, method)
  <2>1. /\ s # <<>> /\ s[1].op \in {"200", "403", "404", "500"}
        /\ \A i \in 2..Len(s) : s[i].op = "BLOCK"
        /\ Len(s) - 1 + s[1].body = IF method = "HEAD" THEN 0 ELSE s[1].declares
    BY <1>7 DEF IsWhole
  <2>2. 1 \in 1..Len(s) /\ Len(s) # 0
    BY <1>1, <2>1
  <2>3. q[1].op = s[1].op /\ q[1].declares = s[1].declares /\ q[1].body = s[1].body
    BY <1>5, <1>6, <2>1, <2>2
  <2>4. q # <<>>
    BY <1>3, <2>2
  <2>5. \A i \in 2..Len(q) : q[i].op = "BLOCK"
    BY <1>1, <1>3, <1>5, <2>1
  <2>6. Len(q) - 1 + q[1].body = IF method = "HEAD" THEN 0 ELSE q[1].declares
    BY <1>3, <2>1, <2>3
  <2> QED
    BY <2>1, <2>3, <2>4, <2>5, <2>6 DEF IsWhole
<1> QED
  BY <1>2, <1>3, <1>4, <1>7

\* What is sent for a request is its answer, and no other's.
LEMMA RequestSent ==
    ASSUME Types, OnlyHandled, NEW k \in Nat, k > handled,
           NEW q \in Seq(Outs), \A i \in 1..Len(q) : q[i].of = k,
           NEW u, NEW e \in Outs, e.of = k, NEW upgrades \in BOOLEAN,
           u = IF upgrades THEN <<e>> ELSE <<>>, out' = out \o q \o u
    PROVE  /\ \A n \in 1..handled : AnswerTo(n)' = AnswerTo(n)
           /\ AnswerTo(k)' = IF upgrades THEN Append(q, e) ELSE q
           /\ \A i \in 1..Len(out') : out'[i].of <= k
<1>1. PICK s : s = out
  OBVIOUS
<1>2. s \in Seq(Outs) /\ handled \in Nat /\ Len(s) \in Nat /\ Len(q) \in Nat
  BY <1>1, LenProperties DEF Types
<1>3. PICK p : p = s \o q
  OBVIOUS
<1>4. /\ p \in Seq(Outs) /\ Len(p) = Len(s) + Len(q)
      /\ \A i \in 1..(Len(s) + Len(q)) : p[i] = IF i <= Len(s) THEN s[i] ELSE q[i - Len(s)]
  BY <1>2, <1>3, ConcatProperties
<1>5. PICK z : z = IF upgrades THEN Append(p, e) ELSE p
  OBVIOUS
<1>6. out' = z
  <2>1. out' = p \o u
    BY <1>1, <1>3
  <2>2. CASE upgrades
    <3>1. u = <<e>>
      BY <2>2
    <3>2. Append(p, e) = p \o <<e>>
      BY <1>4, AppendIsConcat
    <3> QED
      BY <1>5, <2>1, <2>2, <3>1, <3>2
  <2>3. CASE ~upgrades
    <3>1. u = <<>>
      BY <2>3
    <3>2. p \o <<>> = p
      BY <1>4, ConcatEmptySeq
    <3> QED
      BY <1>5, <2>1, <2>3, <3>1, <3>2
  <2> QED
    BY <2>2, <2>3
<1>7. \A n : RepliesTo(z, n) = IF upgrades /\ k = n THEN Append(RepliesTo(p, n), e) ELSE RepliesTo(p, n)
  <2>1. CASE upgrades
    <3>1. \A n : RepliesTo(Append(p, e), n) =
                  IF e.of = n THEN Append(RepliesTo(p, n), e) ELSE RepliesTo(p, n)
      BY <1>4, RepliesAppend
    <3>2. z = Append(p, e) /\ e.of = k
      BY <1>1, <1>5, <2>1
    <3> QED
      BY <2>1, <3>1, <3>2
  <2>2. CASE ~upgrades
    BY <1>5, <2>2
  <2> QED
    BY <2>1, <2>2
<1>8. ASSUME NEW n \in 1..handled PROVE AnswerTo(n)' = AnswerTo(n)
  <2>1. k # n
    BY <1>1, <1>2
  <2>2. \A i \in 1..Len(q) : q[i].of # n
    BY <1>1, <2>1
  <2>3. RepliesTo(s \o q, n) = RepliesTo(s, n)
    BY <1>2, <2>2, RepliesOthers
  <2>4. RepliesTo(z, n) = RepliesTo(s, n)
    BY <1>3, <1>7, <2>1, <2>3
  <2> QED
    BY <1>1, <1>6, <2>4 DEF AnswerTo
<1>9. AnswerTo(k)' = IF upgrades THEN Append(q, e) ELSE q
  <2>1. \A i \in 1..Len(s) : s[i].of # k
    <3>1. \A i \in 1..Len(s) : s[i].of <= handled
      BY <1>1 DEF OnlyHandled
    <3>2. ~(k <= handled)
      BY <1>1, <1>2
    <3> QED
      BY <3>1, <3>2
  <2>2. \A i \in 1..Len(q) : q[i].of = k
    BY <1>1
  <2>3. RepliesTo(s \o q, k) = q
    BY <1>2, <2>1, <2>2, RepliesOnly
  <2>4. RepliesTo(z, k) = IF upgrades THEN Append(q, e) ELSE q
    BY <1>3, <1>7, <2>3
  <2> QED
    BY <1>1, <1>6, <2>4 DEF AnswerTo
<1>10. ASSUME NEW i \in 1..Len(z) PROVE z[i].of <= k
  <2>1. \A j \in 1..Len(p) : p[j].of <= k
    <3>1. ASSUME NEW j \in 1..Len(p) PROVE p[j].of <= k
      <4>1. CASE j <= Len(s)
        <5>1. j \in 1..Len(s) /\ p[j] = s[j]
          BY <1>2, <1>4, <4>1
        <5>2. s[j].of \in Nat /\ s[j].of <= handled
          <6>1. s[j] \in Outs
            BY <1>2, <5>1, ElementOfSeq
          <6> QED
            BY <1>1, <5>1, <6>1 DEF OnlyHandled, Outs
        <5> QED
          BY <1>1, <1>2, <5>1, <5>2
      <4>2. CASE ~(j <= Len(s))
        <5>1. j \in 1..(Len(s) + Len(q)) /\ p[j] = q[j - Len(s)]
          BY <1>4, <4>2
        <5>2. j - Len(s) \in 1..Len(q)
          BY <1>2, <4>2, <5>1
        <5> QED
          BY <1>2, <5>1, <5>2
      <4> QED
        BY <4>1, <4>2
    <3> QED
      BY <3>1
  <2>2. CASE upgrades
    <3>1. z = Append(p, e)
      BY <1>5, <2>2
    <3>2. Len(z) = Len(p) + 1 /\ Len(p) \in Nat /\ z[Len(p) + 1] = e /\ \A j \in 1..Len(p) : z[j] = p[j]
      <4>1. p \in Seq(Outs) /\ e \in Outs
        BY <1>4
      <4> QED
        BY <3>1, <4>1, SentOn
    <3>3. CASE i = Len(p) + 1
      BY <1>1, <1>2, <3>2, <3>3
    <3>4. CASE i # Len(p) + 1
      <4>1. i \in 1..Len(p)
        BY <3>2, <3>4
      <4> QED
        BY <2>1, <3>2, <4>1
    <3> QED
      BY <3>3, <3>4
  <2>3. CASE ~upgrades
    BY <1>5, <2>1, <2>3
  <2> QED
    BY <2>2, <2>3
<1> QED
  BY <1>1, <1>6, <1>8, <1>9, <1>10

\* The request is answered, or a static server is to answer it.
LEMMA AnswersRecvHeaders ==
    ASSUME Session, Answers, RecvHeaders
    PROVE  Answers'
<1>1. Types /\ Position /\ OnlyHandled /\ KeyRead
  BY DEF Session, Answers
<1>2. state = "headers" /\ sent' = sent /\ frontend' = frontend /\ handled \in Nat
  BY <1>1 DEF RecvHeaders, Types
<1>3. CASE Unread < 2 + FoldUnits(Current)
  <2>1. UNCHANGED <<state, secKey, handled, out, servers>>
    BY <1>3 DEF RecvHeaders
  <2>2. OnlyHandled' /\ \A n \in 1..handled : AnswerTo(n)' = AnswerTo(n)
    BY <1>1, <2>1 DEF OnlyHandled, AnswerTo
  <2> QED
    BY <1>1, <1>2, <2>1, <2>2, AnswersKept
<1>4. CASE ~(Unread < 2 + FoldUnits(Current))
  <2>1. PICK k, r, f : k = handled + 1 /\ r = Current /\ f = frontend
    OBVIOUS
  <2>2. /\ k \in 1..Len(sent) /\ IsRequest(k) /\ r = sent[k]
        /\ r.upgrade \in BOOLEAN /\ r.key \in BOOLEAN
    BY <1>2, <1>4, <2>1, HeadersRead
  <2>3. PICK w \in BOOLEAN : w = IsWebsocket(r)
    BY DEF IsWebsocket
  <2>4. handled' = k /\ secKey' = (secKey \/ r.key)
    BY <1>4, <2>1 DEF RecvHeaders
  <2>5. PICK o \in OnHttpRequest(r, w, f), upgrades \in BOOLEAN :
            /\ upgrades => w /\ o.fault = "none"
            /\ out' = out \o Replied(o.replies, k)
                       \o (IF upgrades THEN <<Reply("UPGRADE", k)>> ELSE <<>>)
            /\ servers' = IF o.server THEN servers \cup {k} ELSE servers
            /\ fault' = IF o.fault = "none" /\ w /\ ~upgrades THEN "send" ELSE o.fault
            /\ GoesTo(IF fault' # "none" THEN "error"
                      ELSE IF upgrades THEN "frame_length" ELSE AfterRequest(o))
    BY <1>4, <2>1, <2>3, <2>4 DEF RecvHeaders
  <2>6. PICK v \in BOOLEAN : v = (f = "http" /\ r.resource \in {"page", "static"})
    OBVIOUS
  <2>7. IsGood(o, r.method, w, v)
    BY <2>5, <2>6, RequestGood
  <2>8. o.replies \in Seq(Statuses \cup Blocks) /\ o.server \in BOOLEAN
    BY <2>5, RequestOutcomes DEF Outcomes
  <2>9. PICK q, e : q = Replied(o.replies, k) /\ e = Reply("UPGRADE", k)
    OBVIOUS
  <2>10. /\ q \in Seq(Outs) /\ Len(q) = Len(o.replies) /\ \A i \in 1..Len(q) : q[i].of = k
         /\ IsWhole(o.replies, r.method) => IsWhole(q, r.method)
    BY <1>2, <2>1, <2>8, <2>9, WholeReplied
  <2>11. e \in Outs /\ e.of = k /\ e.op = "UPGRADE"
    BY <1>2, <2>1, <2>9 DEF Reply, Outs
  <2>12. PICK a : a = IF upgrades THEN Append(q, e) ELSE q
    OBVIOUS
  <2>13. /\ \A n \in 1..handled : AnswerTo(n)' = AnswerTo(n)
         /\ AnswerTo(k)' = a
         /\ \A i \in 1..Len(out') : out'[i].of <= k
    <3>1. PICK u : u = IF upgrades THEN <<e>> ELSE <<>>
      OBVIOUS
    <3>2. out' = out \o q \o u
      BY <2>5, <2>9, <3>1
    <3>3. k \in Nat /\ k > handled /\ q \in Seq(Outs) /\ \A i \in 1..Len(q) : q[i].of = k
      BY <1>2, <2>1, <2>10
    <3>4. /\ \A n \in 1..handled : AnswerTo(n)' = AnswerTo(n)
          /\ AnswerTo(k)' = IF upgrades THEN Append(q, e) ELSE q
          /\ \A i \in 1..Len(out') : out'[i].of <= k
      BY <1>1, <2>11, <3>1, <3>2, <3>3, RequestSent
    <3> QED
      BY <2>12, <3>4
  <2>14. ASSUME NEW n \in 1..handled
         PROVE  /\ IsRequest(n)' = IsRequest(n) /\ AsksWebsocket(n)' = AsksWebsocket(n)
                /\ ForServer(n)' = ForServer(n)
                /\ IsAnswered(n) => IsAnswered(n)'
    <3>1. n \in Nat /\ n >= 1 /\ AnswerTo(n)' = AnswerTo(n) /\ \A i \in 1..n : sent'[i] = sent[i]
      BY <1>2, <2>13
    <3> QED
      BY <1>2, <3>1, ItemStays
  <2>15. \A n \in 1..k : n \in 1..handled \/ n = k
    BY <1>2, <2>1
  <2>16. 1..handled \subseteq 1..k /\ k \in 1..k
    BY <1>2, <2>1
  <2>17. IsRequest(k)' /\ sent'[k] = r
    BY <1>2, <2>2 DEF IsRequest
  <2>18. KeyRead' /\ (AsksWebsocket(k)' <=> w) /\ (ForServer(k)' <=> v)
    <3>1. (\E i \in 1..k : IsRequest(i)' /\ sent'[i].key) <=> (secKey \/ r.key)
      <4>1. secKey <=> \E i \in 1..handled : IsRequest(i)' /\ sent'[i].key
        BY <1>1, <1>2, <2>14 DEF KeyRead
      <4> QED
        BY <2>15, <2>16, <2>17, <4>1
    <3>2. KeyRead'
      BY <2>2, <2>4, <3>1 DEF KeyRead
    <3>3. AsksWebsocket(k)' <=> w
      BY <2>2, <2>3, <2>17, <3>1 DEF AsksWebsocket, IsWebsocket
    <3>4. ForServer(k)' <=> v
      BY <1>2, <2>1, <2>6, <2>17 DEF ForServer
    <3> QED
      BY <3>2, <3>3, <3>4
  <2>19. ASSUME state' # "error" PROVE IsAnswered(k)'
    <3>1. o.fault = "none" /\ (w => upgrades)
      BY <2>5, <2>19 DEF GoesTo
    <3>2. IsWhole(q, r.method) \/ (Len(q) = 0 /\ q = <<>> /\ (w \/ (o.server /\ v)))
      <4>1. IsWhole(o.replies, r.method) \/ (o.replies = <<>> /\ (w \/ (o.server /\ v)))
        BY <2>7, <3>1 DEF IsGood
      <4>2. o.replies = <<>> => Len(q) = 0 /\ q = <<>>
        BY <2>10
      <4> QED
        BY <2>10, <4>1, <4>2
    <3>3. CASE w
      <4>1. a = Append(q, e)
        BY <2>12, <3>1, <3>3
      <4>2. a # <<>> /\ Len(a) = Len(q) + 1 /\ a[Len(a)] = e /\ Len(q) \in Nat
        BY <2>10, <2>11, <4>1, AppendProperties, LenProperties
      <4>3. Front(a) = q
        BY <2>10, <2>11, <4>1, FrontOfAppend
      <4>4. Len(a) > 1 => IsWhole(Front(a), r.method)
        BY <3>2, <4>2, <4>3
      <4>5. Last(a).op = "UPGRADE"
        BY <2>11, <4>2 DEF Last
      <4> QED
        BY <2>13, <2>17, <2>18, <3>3, <4>2, <4>4, <4>5 DEF IsAnswered
    <3>4. CASE ~w
      <4>1. a = q
        BY <2>5, <2>12, <3>4
      <4>2. IsWhole(a, r.method) \/ (v /\ \A i \in 1..Len(a) : a[i].op = "RELAYED")
        BY <3>2, <3>4, <4>1
      <4> QED
        BY <2>13, <2>17, <2>18, <3>4, <4>2 DEF IsAnswered
    <3> QED
      BY <3>3, <3>4
  <2>20. ASSUME NEW n \in servers PROVE IsRelayed(n)'
    <3>1. IsRelayed(n)
      BY DEF Answers
    <3>2. n \in 1..handled /\ AnswerTo(n)' = AnswerTo(n)
      BY <2>13, <3>1 DEF IsRelayed
    <3> QED
      BY <2>4, <2>14, <2>16, <3>1, <3>2 DEF IsRelayed
  <2>21. ASSUME o.server PROVE IsRelayed(k)'
    <3>1. ~w /\ v /\ o.replies = <<>>
      BY <2>7, <2>21 DEF IsGood
    <3>2. a = q /\ Len(q) = 0
      BY <2>5, <2>10, <2>12, <3>1
    <3> QED
      BY <2>4, <2>13, <2>16, <2>17, <2>18, <3>1, <3>2 DEF IsRelayed
  <2>22. \A n \in servers' : IsRelayed(n)'
    BY <2>5, <2>20, <2>21
  <2>23. ASSUME state' # "error", NEW n \in 1..handled', IsRequest(n)' PROVE IsAnswered(n)'
    <3>1. state # "error"
      BY <1>2
    <3>2. CASE n \in 1..handled
      BY <2>14, <2>23, <3>1, <3>2 DEF Answers
    <3>3. CASE n = k
      BY <2>19, <2>23, <3>3
    <3> QED
      BY <2>4, <2>15, <3>2, <3>3
  <2>24. OnlyHandled'
    BY <2>4, <2>13 DEF OnlyHandled
  <2> QED
    BY <2>18, <2>22, <2>23, <2>24 DEF Answers
<1> QED
  BY <1>3, <1>4

\* What is sent for the rest of a folded request is an answer to no item.
LEMMA AnswersRecvStray ==
    ASSUME Session, Answers, RecvStray
    PROVE  Answers'
<1>1. Types /\ Position
  BY DEF Session
<1>2. /\ looping /\ UNCHANGED <<sent, handled, secKey, frontend, servers>>
      /\ handled \in Nat /\ state # "error"
  BY <1>1 DEF RecvStray, Types, Live, InRequest, InFrame
<1>3. CASE out' = out
  <2>1. OnlyHandled' /\ \A n \in 1..handled : AnswerTo(n)' = AnswerTo(n)
    BY <1>2, <1>3 DEF Answers, OnlyHandled, AnswerTo
  <2> QED
    BY <1>1, <1>2, <2>1, AnswersKept
<1>4. CASE out' # out
  <2>9. PICK w \in BOOLEAN, n \in Nat : w = FALSE /\ n = 0
    OBVIOUS
  <2>1. PICK r \in Requests : \E o \in OnHttpRequest(r, w, frontend) : out' = out \o Replied(o.replies, n)
    BY <1>4, <2>9 DEF RecvStray
  <2>2. PICK o \in OnHttpRequest(r, w, frontend) : out' = out \o Replied(o.replies, n)
    BY <2>1
  <2>3. o.replies \in Seq(Statuses \cup Blocks)
    BY <2>2, RequestOutcomes DEF Outcomes
  <2>4. PICK s, q, p : s = out /\ q = Replied(o.replies, n) /\ p = s \o q
    OBVIOUS
  <2>5. s \in Seq(Outs) /\ q \in Seq(Outs) /\ \A i \in 1..Len(q) : q[i].of = 0
    <3>1. s \in Seq(Outs)
      BY <1>1, <2>4 DEF Types
    <3>2. q = Replied(o.replies, n) /\ n \in Nat
      BY <2>4
    <3>3. q \in Seq(Outs) /\ \A i \in 1..Len(q) : q[i].of = n
      BY <2>3, <3>2, WholeReplied
    <3> QED BY <2>9, <3>1, <3>3
  <2>6. out' = p
    BY <2>2, <2>4
  <2>7. ASSUME NEW k \in 1..handled PROVE AnswerTo(k)' = AnswerTo(k)
    <3>1. \A i \in 1..Len(q) : q[i].of # k
      BY <2>5
    <3>2. RepliesTo(s \o q, k) = RepliesTo(s, k)
      BY <2>5, <3>1, RepliesOthers
    <3> QED
      BY <2>4, <2>6, <3>2 DEF AnswerTo
  <2>8. OnlyHandled'
    <3>1. Values(p) = Values(s) \cup Values(q)
      <4>1. s \in Seq(Outs) /\ q \in Seq(Outs) /\ p = s \o q
        BY <2>4, <2>5
      <4> QED
        BY <4>1, ValuesOfConcat
    <3>4. \A m \in Values(s) : m.of <= handled
      BY <2>4 DEF Answers, OnlyHandled, Values
    <3>5. \A m \in Values(q) : m.of = 0
      BY <2>5 DEF Values
    <3>2. \A m \in Values(s) \cup Values(q) : m.of <= handled
      BY <1>2, <3>4, <3>5
    <3>3. \A i \in 1..Len(p) : p[i] \in Values(p)
      BY DEF Values
    <3> QED
      BY <1>2, <2>6, <3>1, <3>2, <3>3 DEF OnlyHandled
  <2> QED
    BY <1>1, <1>2, <2>7, <2>8, AnswersKept
<1> QED
  BY <1>3, <1>4

\* Every handled request was answered: iwdp_on_http_request and what it calls,
\* on_upgrade, and the static servers' iwdp_on_recv.
THEOREM AnswersAreWhole == Spec => []AnswersWhole
<1>1. Init => Answers
  <2> SUFFICES ASSUME Init PROVE Answers
    OBVIOUS
  <2>1. /\ out = <<>> /\ handled = 0 /\ secKey = FALSE /\ servers = {} /\ Len(out) = 0
    BY DEF Init
  <2> QED
    BY <2>1 DEF Answers, OnlyHandled, KeyRead
<1>2. IInv /\ Answers /\ [Next]_vars => Answers'
  <2> SUFFICES ASSUME IInv, Answers, [Next]_vars PROVE Answers'
    OBVIOUS
  <2>1. Session /\ Types /\ Position
    BY DEF IInv, Session
  <2>2. CASE UNCHANGED vars
    <3>1. UNCHANGED <<state, secKey, sent, handled, out, frontend, servers>>
      BY <2>2 DEF vars, parser, outside
    <3>2. OnlyHandled' /\ \A n \in 1..handled : AnswerTo(n)' = AnswerTo(n)
      BY <3>1 DEF Answers, OnlyHandled, AnswerTo
    <3> QED
      BY <2>1, <3>1, <3>2, AnswersKept
  <2>3. CASE Next
    <3>1. ASSUME NEW n \in servers, ServerSends(n) PROVE Answers'
      BY <2>1, <3>1, AnswersServerSends
    <3>2. RecvHeaders => Answers'
      BY <2>1, AnswersRecvHeaders
    <3>4. RecvStray => Answers'
      BY <2>1, AnswersRecvStray
    <3>3. \/ \E item \in Requests \cup Frames : ClientSends(item)
          \/ \E n \in 1..(MaxItems * (HeadUnits + 2)) : OnRecv(n)
          \/ LosesPage \/ DeviceSendsData \/ \E n \in servers : ServerEnds(n)
          \/ RecvRequest \/ RecvFrameLength \/ RecvFrame
          \/ \E n \in servers : ServerSends(n)
          \/ RecvHeaders \/ RecvStray
      BY <2>3 DEF Next
    <3> QED
      BY <2>1, <3>1, <3>2, <3>3, <3>4, AnswersSteps
  <2> QED
    BY <2>2, <2>3
<1>3. Answers => AnswersWhole
  BY DEF Answers, OnlyHandled, AnswersWhole
<1> QED
  BY <1>1, <1>2, <1>3, Inductive, PTL DEF Spec
=============================================================================
