-------------------------- MODULE MCSocketManager --------------------------
(* Constants of the checked instances of SocketManager. *)
EXTENDS SocketManagerStreams

\* Two messages, one of which the kernel can take in two parts.
MCMsgs == {<<1, 2>>, <<3>>}

MCOneByte == {<<1>>}
=============================================================================
