---------------------------- MODULE FramedStream ----------------------------
(***************************************************************************)
(* What each parser of the proxy promises of its input: a stream of        *)
(* packets arrives in pieces, wherever it is cut; the packets are handled  *)
(* whole, each once, in the order in which they were sent, and as soon as  *)
(* the last byte of one is there; every other byte is kept until then.     *)
(* The listener, the inspector and the websocket implement it.             *)
(***************************************************************************)
EXTENDS Spans

CONSTANT Sizes          \* the sizes that packets may have, at least 1

VARIABLES
    starts,             \* bytes before each packet that was sent, and before the next
    arrived,            \* bytes of them that arrived
    unread,             \* those that arrived and are of packets not yet handled
    handled,            \* packets that were handled
    busy,               \* the parser runs
    open                \* the connection is open

vars == <<starts, arrived, unread, handled, busy, open>>

BytesSent == starts[Len(starts)]
SizeOf(k) == starts[k + 1] - starts[k]

\* After n packets a whole one is left in the bytes s.
WholeIn(n, s) == n + 1 < Len(starts) /\ Len(s) >= SizeOf(n + 1)

Init ==
    /\ starts = <<0>> /\ arrived = 0 /\ unread = <<>> /\ handled = 0
    /\ busy = FALSE /\ open = TRUE

Send ==
    /\ open
    /\ \E n \in Sizes : starts' = Append(starts, BytesSent + n)
    /\ UNCHANGED <<arrived, unread, handled, busy, open>>

Arrive ==
    /\ open /\ ~busy /\ busy' = TRUE
    /\ \E n \in 1..(BytesSent - arrived) :
        /\ arrived' = arrived + n
        /\ unread' = unread \o Span(arrived, arrived + n)
    /\ UNCHANGED <<starts, handled, open>>

\* The next packet is handled; the parser may stop if it was the last whole one.
Handle ==
    /\ open /\ busy /\ WholeIn(handled, unread)
    /\ handled' = handled + 1
    /\ LET rest == SubSeq(unread, SizeOf(handled + 1) + 1, Len(unread)) IN
        \/ /\ unread' = rest /\ open' = TRUE
           /\ busy' \in BOOLEAN /\ (WholeIn(handled', rest) => busy')
        \/ unread' = <<>> /\ open' = FALSE /\ busy' = FALSE
    /\ UNCHANGED <<starts, arrived>>

\* The parser waits for more, with no whole packet left.
Wait ==
    /\ open /\ busy /\ ~WholeIn(handled, unread)
    /\ busy' = FALSE
    /\ UNCHANGED <<starts, arrived, unread, handled, open>>

\* The connection ends.
Close ==
    /\ open /\ open' = FALSE
    /\ busy' = FALSE /\ unread' = <<>>
    /\ UNCHANGED <<starts, arrived, handled>>

Next == Send \/ Arrive \/ Handle \/ Wait \/ Close

Spec == Init /\ [][Next]_vars
=============================================================================
