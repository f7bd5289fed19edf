----------------------------- MODULE ByteStreams -----------------------------
(***************************************************************************)
(* What the socket manager promises its client about sending: every open   *)
(* connection is a byte stream.  What is written goes out once, in order,  *)
(* from its first byte; a connection that fails or closes drops what is    *)
(* left, and nothing written on one connection goes out on another that    *)
(* has the same descriptor number.                                         *)
(***************************************************************************)
EXTENDS Integers, Sequences

CONSTANTS Fds, Msgs

VARIABLES
    open,       \* descriptors of open connections
    broken,     \* those of them that failed: nothing goes out any more
    pending,    \* fd -> bytes accepted and not yet handed to the kernel
    out         \* [fd, data]: the bytes the last step handed to the kernel

vars == <<open, broken, pending, out>>

Quiet == [fd |-> 0, data |-> <<>>]

\* The first k of the bytes s of fd go out.
Emits(fd, s, k) ==
    out' = IF k = 0 THEN Quiet ELSE [fd |-> fd, data |-> SubSeq(s, 1, k)]

Init ==
    /\ open = {} /\ broken = {}
    /\ pending = [fd \in Fds |-> <<>>]
    /\ out = Quiet

Open(fd) ==
    /\ fd \notin open
    /\ open' = open \cup {fd}
    /\ out' = Quiet
    /\ UNCHANGED <<broken, pending>>

\* The connection ends and what was pending is dropped.
Close(fd) ==
    /\ fd \in open
    /\ open' = open \ {fd} /\ broken' = broken \ {fd}
    /\ pending' = [pending EXCEPT ![fd] = <<>>]
    /\ out' = Quiet

\* A message joins the stream (or, with m empty, nothing does), and a first
\* part of the stream goes out.
Write(fd, m) ==
    /\ fd \in open \ broken
    /\ LET s == pending[fd] \o m IN \E k \in 0..Len(s) :
        /\ pending' = [pending EXCEPT ![fd] = SubSeq(s, k + 1, Len(s))]
        /\ Emits(fd, s, k)
    /\ UNCHANGED <<open, broken>>

\* The connection fails while m is written.
Fail(fd, m) ==
    /\ fd \in open \ broken
    /\ broken' = broken \cup {fd}
    /\ LET s == pending[fd] \o m IN \E k \in 0..Len(s) : Emits(fd, s, k)
    /\ pending' = [pending EXCEPT ![fd] = <<>>]
    /\ UNCHANGED open

Silent ==
    /\ out' = Quiet
    /\ UNCHANGED <<open, broken, pending>>

Next ==
    \/ \E fd \in Fds : Open(fd) \/ Close(fd)
    \/ \E fd \in Fds, m \in Msgs \cup {<<>>} : Write(fd, m) \/ Fail(fd, m)
    \/ Silent

Spec == Init /\ [][Next]_vars
=============================================================================
