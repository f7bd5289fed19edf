---------------------------- MODULE MCWebSocket ----------------------------
(* Constants of the checked instances of WebSocket. *)
EXTENDS WebSocket

Req(method, resource, upgrade, key) ==
    [kind |-> "request", method |-> method, resource |-> resource, upgrade |-> upgrade, key |-> key,
     fold |-> FALSE]
Folded(request) == [request EXCEPT !.fold = TRUE]

\* Lists, static files, what is refused, upgrades for pages and for others, and
\* folded headers for each state that a request leads to.
MCRequests == {Req("GET", "list", FALSE, FALSE), Req("HEAD", "list", FALSE, FALSE),
               Req("GET", "static", FALSE, TRUE), Req("HEAD", "static", FALSE, FALSE),
               Req("GET", "dotted", FALSE, FALSE), Req("GET", "other", FALSE, FALSE),
               Req("POST", "list", FALSE, FALSE), Req("BAD", "list", FALSE, FALSE),
               Req("GET", "page", TRUE, TRUE), Req("GET", "page", TRUE, FALSE),
               Req("HEAD", "page", TRUE, TRUE), Folded(Req("GET", "page", TRUE, TRUE)),
               Folded(Req("GET", "static", FALSE, FALSE)), Folded(Req("GET", "list", FALSE, FALSE))}

Frm(op, fin, masked, ext, body) ==
    [kind |-> "frame", op |-> op, fin |-> fin, masked |-> masked, ext |-> ext, body |-> body,
     utf8 |-> TRUE]
NoUtf8(frame) == [frame EXCEPT !.utf8 = FALSE]

\* Text whole, long or in fragments, or not masked; binary, control frames,
\* empty ones too; a text, and a continuation, that is not UTF-8.
MCFrames == {Frm("TEXT", TRUE, TRUE, 0, 1), Frm("TEXT", FALSE, TRUE, 1, 1),
             Frm("TEXT", TRUE, FALSE, 0, 0), Frm("BINARY", FALSE, TRUE, 0, 1),
             Frm("CONTINUATION", FALSE, TRUE, 0, 1), Frm("CONTINUATION", TRUE, TRUE, 1, 1),
             Frm("PING", TRUE, TRUE, 0, 1), Frm("PONG", TRUE, FALSE, 0, 0),
             Frm("CLOSE", TRUE, TRUE, 0, 1), Frm("BAD", TRUE, TRUE, 0, 1),
             NoUtf8(Frm("TEXT", TRUE, TRUE, 0, 1)), NoUtf8(Frm("CONTINUATION", TRUE, TRUE, 0, 1))}
=============================================================================
