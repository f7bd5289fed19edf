------------------------------ MODULE Removals ------------------------------
(***************************************************************************)
(* What the select loop and the callbacks of the proxy rely on from each   *)
(* other when descriptors are removed: sm_remove_fd calls on_close once    *)
(* for a descriptor, while it is open, and calls may nest; what is removed *)
(* last is closed first; and nothing is opened while an on_close runs.     *)
(*                                                                         *)
(* SocketManager implements it for any client, CloseCascade is the client  *)
(* that the proxy is: so what is shown of the loop holds with these        *)
(* callbacks, and what is shown of the callbacks holds under this loop.    *)
(***************************************************************************)
EXTENDS Sequences

CONSTANT Objs           \* what has a descriptor

VARIABLES
    open,               \* those that are in all_fds
    closing             \* those whose on_close runs, innermost first

vars == <<open, closing>>

Init == open = {} /\ closing = <<>>

\* Descriptors are opened; when what was to follow fails, one is removed at once.
Opens ==
    /\ closing = <<>>
    /\ \E new \in SUBSET Objs :
        /\ new # {} /\ new \cap open = {}
        /\ open' = open \cup new
        /\ closing' \in {<<>>} \cup {<<o>> : o \in new}

Begins(o) ==
    /\ o \in open /\ \A i \in DOMAIN closing : closing[i] # o
    /\ closing' = <<o>> \o closing
    /\ UNCHANGED open

Ends ==
    /\ closing # <<>>
    /\ open' = open \ {Head(closing)}
    /\ closing' = Tail(closing)

Next == Opens \/ (\E o \in open : Begins(o)) \/ Ends

Spec == Init /\ [][Next]_vars
=============================================================================
