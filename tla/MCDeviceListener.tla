-------------------------- MODULE MCDeviceListener --------------------------
(* Constants of the checked instance of DeviceListener. *)
EXTENDS DeviceListener

CONSTANTS d1, d2

\* The numbers share a bucket of two, and so do the ids.
MCHash == [k \in Nums \cup {d1, d2} |-> 1]

\* Each device under each number, one without serial number, and packets that are
\* no news of devices, of several sizes; the last is too short to be one.
MCPackets ==
    [kind : {"attached"}, num : Nums, id : {d1, d2}, size : {4}]
        \cup [kind : {"attached"}, num : {1}, id : {NULL}, size : {3}]
        \cup [kind : {"detached"}, num : Nums, size : {3}]
        \cup {[kind |-> "ack", size |-> 5], [kind |-> "ignored", size |-> 3],
              [kind |-> "fault", size |-> 3], [kind |-> "ack", size |-> 2]}
=============================================================================
