---------------------------- MODULE HttpRequests ----------------------------
(***************************************************************************)
(* How the proxy answers an HTTP request of a browser:                     *)
(* iwdp_on_http_request of src/src/ios_webkit_debug_proxy.c and what it    *)
(* calls.  WebSocket uses it for the requests it parses.                   *)
(*                                                                         *)
(* A request is a record [method, resource, ...], with resource one of     *)
(* "list" (/, /json, /json/list), "page" (/devtools/page/1), "static"      *)
(* (/devtools/a), "dotted" (/devtools/../a) and "other".  Texts are one    *)
(* unit long, files some blocks.  What depends on files, on the network    *)
(* and on the pages there are is a set of outcomes.                        *)
(***************************************************************************)
EXTENDS Integers, Sequences

CONSTANT MaxBlocks      \* bound on the blocks of a file

\* What comes of a request: the replies that are sent, what made it fail, and
\* whether the client is kept for a static server, or has a page.
Outcome(replies, fault) ==
    [replies |-> replies, fault |-> fault, server |-> FALSE, page |-> FALSE]

\* Replies that are one send: it is accepted, or the connection is broken.
Sending(reply) == {Outcome(<<reply>>, "none"), Outcome(<<>>, "send")}

\* iwdp_send_http of a content that is not empty.
SendHttp(isHead, status) ==
    [op |-> status, declares |-> 1, body |-> IF isHead THEN 0 ELSE 1]

NotFound(isHead) == Sending(SendHttp(isHead, "404"))

OnListRequest(isHead) == Sending(SendHttp(isHead, "200"))

\* iwdp_on_devtools_request: iwdp_start_devtools for the page, if there is one.
OnDevtoolsRequest ==
    NotFound(FALSE) \cup {[Outcome(<<>>, "none") EXCEPT !.page = TRUE], Outcome(<<>>, "device")}

\* iwdp_get_frontend_path has no path for the resource.
IsInvalidPath(resource) == resource = "dotted"

\* (slip) the blocks are not counted.
FaultOfBlocksAny(size, n) == "none"

\* sent_bytes == length.
FaultOfBlocks(size, n) == IF n = size THEN "none" ELSE "file"

\* A file of some blocks when it is opened; n of them are read and sent, more or
\* less than it had if it changes meanwhile, less if a send fails.
SendFile(isHead, size) ==
    LET head == [op |-> "200", declares |-> size, body |-> 0] IN
    {Outcome(<<>>, "send")} \cup
    IF isHead \/ size = 0
    THEN {Outcome(<<head>>, "none")}
    ELSE {Outcome(<<head>> \o [i \in 1..n |-> [op |-> "BLOCK"]], FaultOfBlocks(size, n)) :
          n \in 0..(MaxBlocks + 1)}

\* iwdp_on_static_request_for_file: the file may be missing, or none.
OnStaticRequestForFile(isHead, resource) ==
    IF IsInvalidPath(resource) THEN Sending(SendHttp(isHead, "403"))
    ELSE NotFound(isHead) \cup Sending(SendHttp(isHead, "403"))
         \cup UNION {SendFile(isHead, size) : size \in 0..MaxBlocks}

\* iwdp_on_static_request_for_http: the server is asked for it, if it can be
\* reached; adding its socket or sending to it may fail.
OnStaticRequestForHttp(isHead, resource) ==
    IF IsInvalidPath(resource) THEN Sending(SendHttp(isHead, "403"))
    ELSE Sending(SendHttp(isHead, "500"))
         \cup {[Outcome(<<>>, fault) EXCEPT !.server = TRUE] : fault \in {"none", "server"}}

OnStaticRequest(isHead, resource, frontend) ==
    CASE frontend = "file" -> OnStaticRequestForFile(isHead, resource)
      [] frontend = "http" -> OnStaticRequestForHttp(isHead, resource)
      [] OTHER -> NotFound(isHead)

\* iwdp_on_static_request and iwdp_on_list_request, or there is no such resource.
OnPlainRequest(isHead, resource, frontend) ==
    CASE resource = "list" -> OnListRequest(isHead)
      [] resource \in {"page", "static", "dotted"} -> OnStaticRequest(isHead, resource, frontend)
      [] OTHER -> NotFound(isHead)

OnHttpRequest(r, isWebsocket, frontend) ==
    LET isHead == r.method = "HEAD" IN
    IF isWebsocket
    THEN IF r.method = "GET" /\ r.resource = "page" THEN OnDevtoolsRequest ELSE NotFound(isHead)
    ELSE IF r.method \in {"GET", "HEAD"} THEN OnPlainRequest(isHead, r.resource, frontend)
         ELSE NotFound(isHead)
=============================================================================
