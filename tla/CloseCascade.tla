---------------------------- MODULE CloseCascade ----------------------------
(***************************************************************************)
(* What the closing of one descriptor closes with it: the callbacks        *)
(* iwdp_iport_close, iwdp_iws_close, iwdp_iwi_close and iwdp_ifs_close of  *)
(* src/src/ios_webkit_debug_proxy.c, which call sm_remove_fd, which calls  *)
(* them again, over the objects of one device: its browser port (iport),   *)
(* its inspector (iwi) with the pages, the browser clients (iws) and the   *)
(* connections to the static server that some of them have (ifs).          *)
(*                                                                         *)
(* A step is the code of a callback between two calls of sm_remove_fd.     *)
(*                                                                         *)
(* Operators whose comment starts with (slip) are not part of the model:   *)
(* each is the definition that follows it with a plausible mistake, used   *)
(* to see that a property fails when the code is wrong in that way.        *)
(***************************************************************************)
EXTENDS Naturals, Sequences

CONSTANTS
    Iwss, Ifss,     \* addresses of clients and of static server connections
    Pages,          \* addresses of pages
    Overlap         \* a client asks for a static file while one is on its way

Port == "iport"
Iwi == "iwi"
Null == "null"

ASSUME OverlapAssumption == Overlap \in BOOLEAN
ASSUME AddressesAssumption ==       \* every object has its own address
    /\ Iwss \cap Ifss = {} /\ Iwss \cap Pages = {} /\ Ifss \cap Pages = {}
    /\ {Port, Iwi, Null} \cap (Iwss \cup Ifss \cup Pages) = {}

Objs == {Port, Iwi} \cup Iwss \cup Ifss     \* what fd_to_value holds

VARIABLES
    open,       \* objects whose descriptor is in all_fds
    live,       \* objects and pages that are allocated
    listening,  \* iport->s_fd > 0
    sticky,     \* iport->is_sticky
    portIwi,    \* iport->iwi # NULL
    iwiPort,    \* iwi->iport # NULL
    table,      \* iport->ws_id_to_iws
    ifsOf,      \* iws->ifs
    iwsOf,      \* ifs->iws
    pageOf,     \* iws->ipage
    ownerOf,    \* ipage->iws
    upgraded,   \* clients that made their devtools request
    stack       \* callbacks that run, innermost first

links == <<portIwi, iwiPort, table, ifsOf, iwsOf, pageOf, ownerOf>>
vars == <<open, live, listening, sticky, links, upgraded, stack>>

Frame(o) == [obj |-> o, pc |-> "start", todo |-> {}]

Init ==
    /\ open = {} /\ live = {}
    /\ listening = FALSE /\ sticky = FALSE
    /\ portIwi = FALSE /\ iwiPort = FALSE /\ table = {}
    /\ ifsOf = [s \in Iwss |-> Null] /\ iwsOf = [f \in Ifss |-> Null]
    /\ pageOf = [s \in Iwss |-> Null] /\ ownerOf = [p \in Pages |-> Null]
    /\ upgraded = {}
    /\ stack = <<>>

-----------------------------------------------------------------------------
(* Between two cascades: the graph grows, and some descriptor is removed.    *)

Idle == stack = <<>>

\* iwdp_on_attach: the port listens (again); then the inspector is reached and
\* told of us, or the port is closed, before it has an inspector or with it.
\* (add_fd refuses only a number in use, which the kernel does not give.)
Attach ==
    /\ Idle /\ ~listening
    /\ listening' = TRUE
    /\ \/ /\ open' = open \cup {Port, Iwi}
          /\ live' = live \cup {Port, Iwi}
          /\ portIwi' = TRUE /\ iwiPort' = TRUE
          /\ \/ sticky' = TRUE /\ UNCHANGED stack
             \/ stack' = <<Frame(Port)>> /\ UNCHANGED sticky
       \/ /\ open' = open \cup {Port} /\ live' = live \cup {Port}
          /\ stack' = <<Frame(Port)>>
          /\ UNCHANGED <<sticky, portIwi, iwiPort>>
    /\ UNCHANGED <<table, ifsOf, iwsOf, pageOf, ownerOf, upgraded>>

\* iwdp_iport_accept.
Accept(s) ==
    /\ Idle /\ Port \in open /\ s \notin live
    /\ open' = open \cup {s} /\ live' = live \cup {s} /\ table' = table \cup {s}
    /\ UNCHANGED <<listening, sticky, portIwi, iwiPort, ifsOf, iwsOf, pageOf, ownerOf, upgraded, stack>>

\* iwdp_on_static_request_for_http: the connection is kept alive, so a client
\* may ask again; iws->ifs is then overwritten.
StaticRequest(s, f) ==
    /\ Idle /\ s \in open \ upgraded /\ f \notin live
    /\ ifsOf[s] # Null => Overlap
    /\ open' = open \cup {f} /\ live' = live \cup {f}
    /\ ifsOf' = [ifsOf EXCEPT ![s] = f] /\ iwsOf' = [iwsOf EXCEPT ![f] = s]
    /\ UNCHANGED <<listening, sticky, portIwi, iwiPort, table, pageOf, ownerOf, upgraded, stack>>

\* iwdp_on_applicationSentListing lists a page.
NewPage(p) ==
    /\ Idle /\ Iwi \in open /\ p \notin live
    /\ live' = live \cup {p}
    /\ UNCHANGED <<open, listening, sticky, links, upgraded, stack>>

\* iwdp_on_devtools_request: a client takes the page, from its owner if it has one.
Inspect(s, p) ==
    /\ Idle /\ s \in open \ upgraded /\ p \in live
    /\ upgraded' = upgraded \cup {s}
    /\ pageOf' = [c \in Iwss |-> IF c = s THEN p ELSE IF c = ownerOf[p] THEN Null ELSE pageOf[c]]
    /\ ownerOf' = [ownerOf EXCEPT ![p] = s]
    /\ UNCHANGED <<open, live, listening, sticky, portIwi, iwiPort, table, ifsOf, iwsOf, stack>>

\* sm_recv or sm_cleanup, or iwdp_on_detach, removes a descriptor.
RemoveFd(o) ==
    /\ Idle /\ o \in open
    /\ stack' = <<Frame(o)>>
    /\ UNCHANGED <<open, live, listening, sticky, links, upgraded>>

-----------------------------------------------------------------------------
(* The callbacks.                                                            *)

Runs(o, pc) == stack # <<>> /\ stack[1].obj = o /\ stack[1].pc = pc

\* The running callback goes on at pc, after remove_fd of o if that is open.
Calls(o, pc) ==
    stack' = LET me == <<[stack[1] EXCEPT !.pc = pc]>> \o Tail(stack)
             IN  IF o \in open THEN <<Frame(o)>> \o me ELSE me

GoesOn(pc) == stack' = <<[stack[1] EXCEPT !.pc = pc]>> \o Tail(stack)

\* The callback returns and sm_remove_fd clears the descriptor.
Returns ==
    /\ open' = open \ {stack[1].obj}
    /\ stack' = Tail(stack)

\* iwdp_iport_close takes a snapshot of its clients.
PortStart ==
    /\ Runs(Port, "start")
    /\ stack' = <<[stack[1] EXCEPT !.pc = "clients", !.todo = table]>> \o Tail(stack)
    /\ UNCHANGED <<open, live, listening, sticky, links, upgraded>>

\* (slip) the loop does not advance.
ClientLoopStuck(s) ==
    stack' = <<Frame(s), stack[1]>> \o Tail(stack)

\* The next client of the snapshot is removed.
ClientLoop(s) ==
    stack' = <<Frame(s), [stack[1] EXCEPT !.todo = @ \ {s}]>> \o Tail(stack)

PortClient(s) ==
    /\ Runs(Port, "clients") /\ s \in stack[1].todo
    /\ ClientLoop(s)
    /\ UNCHANGED <<open, live, listening, sticky, links, upgraded>>

\* (slip) iwi->iport is not cleared.
UnlinkIwiOneSided == portIwi' = FALSE /\ UNCHANGED iwiPort

\* iport->iwi and iwi->iport are cleared.
UnlinkIwi == portIwi' = FALSE /\ iwiPort' = FALSE

\* After the loop the table is cleared and the inspector closed.
PortInspector ==
    /\ Runs(Port, "clients") /\ stack[1].todo = {}
    /\ table' = {}
    /\ IF portIwi THEN UnlinkIwi /\ Calls(Iwi, "end")
       ELSE GoesOn("end") /\ UNCHANGED <<portIwi, iwiPort>>
    /\ UNCHANGED <<open, live, listening, sticky, ifsOf, iwsOf, pageOf, ownerOf, upgraded>>

\* A sticky port is kept to be restored, another one is freed.
PortEnd ==
    /\ Runs(Port, "end")
    /\ listening' = FALSE
    /\ live' = IF sticky THEN live ELSE live \ {Port}
    /\ Returns
    /\ UNCHANGED <<sticky, links, upgraded>>

\* The client leaves ws_id_to_iws.
LeaveTable(s) == table' = table \ {s}

\* (slip) the ifs is unlinked and stays open.
LeaveIfs(s) ==
    /\ GoesOn("end")
    /\ iwsOf' = IF ifsOf[s] = Null THEN iwsOf ELSE [iwsOf EXCEPT ![ifsOf[s]] = Null]

\* The ifs, if there is one, is unlinked and closed.
CloseIfs(s) ==
    IF ifsOf[s] # Null
    THEN iwsOf' = [iwsOf EXCEPT ![ifsOf[s]] = Null] /\ Calls(ifsOf[s], "end")
    ELSE GoesOn("end") /\ UNCHANGED iwsOf

\* iwdp_iws_close: the page, if it is owned, the table, the ifs.  Under the
\* inspector's close the pages are freed (614) before their clients are closed, and
\* 573-574 read a page that is not there any more: whatever is found, the client goes
\* on as if it owned none or, for what looks like its own page, clears the pointer.
\* (Or the program crashes; that ends the behaviour.)
IwsStart(s) ==
    /\ Runs(s, "start")
    /\ LET p == pageOf[s] IN
         \/ /\ p # Null /\ (p \in live => ownerOf[p] = s)
            /\ pageOf' = [pageOf EXCEPT ![s] = Null]
            /\ ownerOf' = [ownerOf EXCEPT ![p] = Null]
         \/ /\ p # Null => p \notin live \/ ownerOf[p] # s
            /\ UNCHANGED <<pageOf, ownerOf>>
    /\ LeaveTable(s)
    /\ CloseIfs(s)
    /\ UNCHANGED <<open, live, listening, sticky, portIwi, iwiPort, ifsOf, upgraded>>

IwsEnd(s) ==
    /\ Runs(s, "end")
    /\ live' = live \ {s}
    /\ pageOf' = [pageOf EXCEPT ![s] = Null] /\ ifsOf' = [ifsOf EXCEPT ![s] = Null]
    /\ upgraded' = upgraded \ {s}
    /\ Returns
    /\ UNCHANGED <<listening, sticky, portIwi, iwiPort, table, iwsOf, ownerOf>>

\* iwdp_iwi_close: free the pages and itself, close the port and its clients.
IwiStart ==
    /\ Runs(Iwi, "start")
    /\ live' = live \ (Pages \cup {Iwi})
    /\ ownerOf' = [p \in Pages |-> Null]
    /\ IF iwiPort
       THEN /\ portIwi' = FALSE /\ iwiPort' = FALSE
            /\ IF listening THEN Calls(Port, "end") ELSE GoesOn("end")
       ELSE GoesOn("end") /\ UNCHANGED <<portIwi, iwiPort>>
    /\ UNCHANGED <<open, listening, sticky, table, ifsOf, iwsOf, pageOf, upgraded>>

IwiEnd == Runs(Iwi, "end") /\ Returns /\ UNCHANGED <<live, listening, sticky, links, upgraded>>

\* (slip) iws->ifs is not cleared.
UnlinkIfsOneSided(f) == UNCHANGED ifsOf

\* iws->ifs is cleared if it points back.
UnlinkIfs(f) ==
    ifsOf' = [s \in Iwss |-> IF s = iwsOf[f] /\ ifsOf[s] = f THEN Null ELSE ifsOf[s]]

\* iwdp_ifs_close: unlink and free, then close the client.
IfsStart(f) ==
    /\ Runs(f, "start")
    /\ UnlinkIfs(f)
    /\ IF iwsOf[f] # Null THEN Calls(iwsOf[f], "end") ELSE GoesOn("end")
    /\ iwsOf' = [iwsOf EXCEPT ![f] = Null]
    /\ live' = live \ {f}
    /\ UNCHANGED <<open, listening, sticky, portIwi, iwiPort, table, pageOf, ownerOf, upgraded>>

IfsEnd(f) == Runs(f, "end") /\ Returns /\ UNCHANGED <<live, listening, sticky, links, upgraded>>

Cascade ==
    \/ PortStart \/ PortInspector \/ PortEnd
    \/ IwiStart \/ IwiEnd
    \/ \E s \in Iwss : PortClient(s) \/ IwsStart(s) \/ IwsEnd(s)
    \/ \E f \in Ifss : IfsStart(f) \/ IfsEnd(f)

Next ==
    \/ Attach
    \/ \E s \in Iwss : Accept(s)
    \/ \E s \in Iwss, f \in Ifss : StaticRequest(s, f)
    \/ \E p \in Pages : NewPage(p)
    \/ \E s \in Iwss, p \in Pages : Inspect(s, p)
    \/ \E o \in Objs : RemoveFd(o)
    \/ Cascade

\* The thread runs a cascade to its end.
Spec == Init /\ [][Next]_vars /\ WF_vars(Cascade)

-----------------------------------------------------------------------------

\* The callbacks remove descriptors as the select loop relies on: however deep the
\* cascade, none removes what is not open or what has its own on_close running, for
\* which sm_remove_fd would call on_close again, with the value it has already
\* taken out of fd_to_value.
Removed == INSTANCE Removals WITH closing <- [i \in DOMAIN stack |-> stack[i].obj]
RemovalsSpec == Removed!Spec

\* The objects whose callback is past its first part.
Started == {stack[i].obj : i \in {j \in DOMAIN stack : stack[j].pc # "start"}}

\* A callback starts on an object that is allocated, and so is every object it
\* follows a pointer to, the clients in the port's table too; pointers between a
\* client and its ifs, and a client and its page, are mutual.  One pointer is the
\* exception: once the inspector's close has freed the pages (614), the clients that
\* it then closes still have theirs, and iwdp_iws_close follows it (573-577); the
\* comment on it says "only if we own that page (i.e. ipage->iws == this)" (159-160).
LinksLive ==
    /\ table \subseteq live
    /\ \A i \in DOMAIN stack : stack[i].pc = "start" => stack[i].obj \in live
    /\ \A i \in DOMAIN stack : stack[i].todo \subseteq live
    /\ \A s \in (Iwss \cap live) \ Started :
        /\ Port \in live /\ s \in table \cap open
        /\ ifsOf[s] # Null => ifsOf[s] \in live /\ iwsOf[ifsOf[s]] = s
        /\ pageOf[s] # Null => \/ pageOf[s] \in live /\ ownerOf[pageOf[s]] = s
                               \/ Iwi \in Started
    /\ \A f \in (Ifss \cap live) \ Started :
        iwsOf[f] # Null => iwsOf[f] \in live /\ ifsOf[iwsOf[f]] \in {f, Null}

\* When a cascade is over, whatever started it: objects that belong together are
\* open together, nothing is open that is not allocated, a client that is left
\* does not point to a page that was freed, and after the port is closed all that
\* is left is the port, to be restored.
NothingLeaks ==
    Idle => /\ open \cup (live \cap {Port}) = live \ Pages
            /\ \A f \in Ifss \cap open : iwsOf[f] \in open
            /\ \A s \in Iwss \cap open :
                pageOf[s] # Null => pageOf[s] \in live /\ ownerOf[pageOf[s]] = s
            /\ Port \in open <=> Iwi \in open
            /\ Port \notin open => live \subseteq {Port}

\* Every cascade ends.
CascadeEnds == (stack # <<>>) ~> (stack = <<>>)

\* "iwdp_iws_t iws; // owner": the client that the data of a static server
\* connection is sent to, and that is closed with it, is allocated.
IfsOwnerLives ==
    \A f \in Ifss \cap open : iwsOf[f] # Null => iwsOf[f] \in live \/ f \in Started
=============================================================================
