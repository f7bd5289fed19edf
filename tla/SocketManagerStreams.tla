------------------------ MODULE SocketManagerStreams ------------------------
(***************************************************************************)
(* SocketManager implements ByteStreams: the stream of a connection is     *)
(* what its own entries hold, in the order of its queue.                   *)
(***************************************************************************)
EXTENDS SocketManager, SequencesExt

\* The bytes of an entry that the open connection waits to send.
OwnPart(entry) == IF entry.own THEN entry.rest ELSE <<>>

OwnBytes(queue) == FlattenSeq([i \in 1..Len(queue) |-> OwnPart(queue[i])])

PendingBytes(fd) == IF fd \in dead THEN <<>> ELSE OwnBytes(sendq[fd])

Streams == INSTANCE ByteStreams WITH
    open <- allFds, broken <- dead, pending <- [fd \in Fds |-> PendingBytes(fd)]

\* Sending is a byte stream per connection: what send accepted goes out once
\* and in order, whatever mixture of immediate sends, blocked sends, partial
\* retries, failures, closes and reuse of the descriptor number happens, and
\* bytes of a closed connection never go out on its successor (sm_send,
\* sm_resend and sm_remove_fd together).
StreamsSpec == Streams!Spec
=============================================================================
