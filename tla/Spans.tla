------------------------------- MODULE Spans -------------------------------
(***************************************************************************)
(* The bytes of a stream.  In the models a byte is its place in the        *)
(* stream, so that one that is lost, doubled or moved shows.               *)
(***************************************************************************)
EXTENDS Integers, Sequences

\* The bytes after the first from, up to the last.
Span(from, to) == [i \in 1..(to - from) |-> from + i]
=============================================================================
