# TLA+ specifications of ios-webkit-debug-proxy

ios-webkit-debug-proxy is a single-threaded proxy between browsers, which speak HTTP and
websockets, and the web inspectors of iOS devices and simulators. This directory models its
core: the `select(2)` loop, the objects that close each other, the sessions with the messages
that carry them, the ports and how they are configured, the answers to browsers, and the parsers
of three byte streams with the buffer that two of them share. TLC checks every model on small
instances; TLAPS proves theorems about most of them for every instance.

`PROJECT.json` lists the components, runs, mutants, hazards and theorems, and names for every
definition the lines of the source that it models. Paths below are relative to `src/`.

## 1. The system

Everything runs in one thread. `main` calls `sm_select` in a loop; `sm_select` calls
`iwdp_on_accept`, `iwdp_on_recv` and `iwdp_on_close`, which dispatch on the type of the value
that was registered with the descriptor:

    main ── sm_select ──┬─ usbmuxd        (idl)   device listener ── on_attach / on_detach
                        ├─ browser ports  (iport) accept
                        ├─ browsers       (iws)   websocket ── HTTP, on_frame
                        ├─ static servers (ifs)   copied to the browser
                        └─ inspectors     (iwi)   webinspector ── rpc ── on_applicationSent...

| component | source | state | operations |
|---|---|---|---|
| select loop | `src/socket_manager.c` | `all_fds`, `server_fds`, `send_fds`, `recv_fds`, temporary copies of them during a scan, `max_fd`, `fd_to_sendq`, `curr_recv_fd` | `sm_add_fd`, `sm_remove_fd`, `sm_send`, `sm_select` (with accept, resend, recv), `sm_cleanup` |
| closing cascade | `src/ios_webkit_debug_proxy.c` 532-660 | pointers between iport, iwi, iws, ifs, ipage | `iwdp_*_close`, each through `sm_remove_fd` |
| devtools sessions | same, 759-781, 1089-1435 | page table, `ws_id_to_iws`, `app_id_to_true`, page numbers | requests, frames, every inspector message |
| HTTP answers | same, 662-1087 | none of its own: the client's page, the static server it was given | lists, static files, refusals, redirection to a server |
| browser ports | same, 270-471, `..._main.c`, `src/port_config.c` | `device_id_to_iport` | start, attach, detach, close |
| websocket | `src/websocket.c` | `state`, `needed_length`, `frame_length`, `continued_opcode`, `data`, `sent_close`, the input buffer | `ws_on_recv`, `ws_send_*` |
| device listener | `src/device_listener.c` | input buffer, `has_length`, `body_length`, number → device id | `dl_on_recv` |
| inspector packets | `src/webinspector.c` | input buffer, `partial`, `has_length`, `body_length` | `wi_on_recv`, `wi_send_plist` |
| buffer, hash table | `src/char_buffer.c`, `src/hash_table.c` | memory, head, tail; buckets, `num_keys` | |
| rpc | `src/rpc.c` | none | from a property list to a call, or a refusal; from a call to a property list |
| configuration | `src/port_config.c`, `..._main.c` | the list of entries; the options | options, text or file, lines, fields |
| SSL set-up, SHA-1, base64 | | none of interest | |

What is hard, and so what the properties are about:

* **Re-entrancy.** `sm_remove_fd` calls `on_close` in the middle of its own work, which removes
  other descriptors, while `sm_select` is scanning the sets that change.
* **Numbers reused.** A descriptor closed by a callback may be opened again by the next
  callback of the same scan; a queue of blocked sends outlives its connection.
* **Flow control.** A send that blocks takes the *receiver* that caused it out of `recv_fds`;
  only the right `sm_resend` brings it back.
* **Delayed answers.** Setup and close of a session cross the listings of the device, while
  browsers steal pages from each other and other inspectors claim them.
* **Streams in pieces.** Three parsers must not depend on how their input was cut.
* **Peers that change.** A newer inspector sends messages that are not known or lack a field; a
  file changes while it is sent; any send may fail.
* **Memory of things gone.** A detached device keeps its port; a page keeps its number.

What makes each component correct is stated by its properties in section 4, and the places in
the code where something could go wrong are the `hazards` of `PROJECT.json`.

## 2. Modules

| module | models | state and actions |
|---|---|---|
| `SocketManager` | the select loop with arbitrary clients | The `fd_set`s are sets; `fd_to_sendq` is a function to sequences of entries `[recv, data, own]` (`own`: queued by the connection that is open now). `phase` and `at` are where the thread is; `closing` is the stack of `sm_remove_fd` calls. One action per piece of a function between two points where the state can be seen: the kernel's answer, a callback. `ClientStep` is whatever a callback may call: add, remove, send. |
| `ByteStreams`, `SocketManagerStreams` | what a connection promises to its sender, and the refinement mapping | Each connection is a byte stream: sends are appended, the kernel takes prefixes, a failure drops, a close forgets. |
| `SocketManagerProofs`, `CloseCascadeProofs`, `DevtoolsProofs`, `PortAssignProofs`, `WebSocketProofs`, `CharBufferProofs`, `DeviceListenerProofs`, `WebInspectorProofs` | theorems | section 5; what is proved of `HashTable` is in `DeviceListenerProofs` |
| `Removals` | what loop and callbacks rely on from each other when descriptors are removed | The open descriptors and the stack of `on_close` calls. `SocketManager` implements it for any client, `CloseCascade` is the client that the proxy is. |
| `CloseCascade` | the four close callbacks | `stack` holds the callbacks that run, innermost first; a step is the code between two calls of `sm_remove_fd`. Between cascades the graph grows: attach, accept, static request, listing, inspect. |
| `Devtools` | pages, clients and sessions of a device | A handler is a step. `toDev` and `fromDev` are the messages in flight. The web inspector is external: it answers as the handlers expect, and may send any message of `Noise` besides. |
| `Rpc` | the messages, as operators that `Devtools` extends | A property list is a tree of typed nodes; `RecvPlist` is the handler that is called, or that the message is refused. `rpc.c` keeps no state between messages, so `Devtools` decodes one when it is put into `fromDev`. |
| `PortAssign` | ports of devices | The configuration is a sequence of entries that may be edited; other processes bind and release ports. |
| `PortConfig` | options, configuration texts and files, as operators | A line is a sequence of fields. `MCPortAssign` computes its configurations with it, from options and lines. |
| `Spans`, `FramedStream` | what a parser promises of its input | Packets are sent, bytes arrive in pieces, packets are handled whole, in order and at once. The three parsers implement it. |
| `WebSocket` | the connection to a browser | The input is a sequence of requests and frames of a few units each, a unit being its place in the stream; a step is an iteration of `ws_recv_loop`. The device sends data, static servers send files; every send may fail. |
| `HttpRequests` | `iwdp_on_http_request` and what it calls, as operators that `WebSocket` extends | A request has a set of outcomes: the replies, what failed, whether the client is kept for a static server or has a page. |
| `CharBuffer` | `cb_*` as operators | The memory, whose unwritten part is `Garbage`, and the four pointers; sharing, moving to the front and growing as in the code. |
| `HashTable` | `ht_*` as operators | Buckets as sequences, with move to front and `num_keys`. |
| `DeviceListener` | `dl_on_recv`, its table, `on_attach`/`on_detach` | extends `CharBuffer` and `HashTable`; a byte is its place in what usbmuxd sends. |
| `WebInspector` | `wi_on_recv`, `wi_send_plist` | extends `CharBuffer`; messages in parts; a byte of the input is its place in the stream. |
| `MC...` | constants for TLC | |

The models overlap where components meet, and say the same there: `SocketManager` and
`CloseCascade` both implement `Removals`, so that what is shown of the loop holds with these
callbacks and the reverse; `Devtools` has the cascade as one step
(`Kill`); `PortAssign` and `DeviceListener` have closing as one step (`Close`,
`InspectorEnds`). `Devtools` knows of a websocket whether a close frame was sent, after which every
send is refused, and lets any other send to a client with a websocket be refused or fail: the
reasons are in `WebSocket` (`SendFrame`, `Broken`). Its sends to the device do not fail; what
closing that socket does is the cascade.

*(slip)* operators are plausible mistakes, one definition each, not used by any specification:
substituted for the definition that follows them they must make a property fail.

## 3. Runs, bounds and fairness

| run | instance | states | shows |
|---|---|---|---|
| `sm_safety` | 2 descriptors, messages of 1 or 2 bytes, queues of 2 | 230 000 | all safety properties, the inductive invariant (with `TypeOK`), the refinements of `ByteStreams` and `Removals` |
| `sm_live` | 2 descriptors, with fairness | | the liveness properties |
| `sm_orphan` | as `sm_live` | | *violation*, finding 1 |
| `devtools_local` | 2 apps, 2 pages, 2 clients, 3 ws ids | 950 000 | sessions and listings agree with the device |
| `devtools_remote` | 1 app, 2 pages, 2 clients, another inspector, 13 unexpected messages | 720 000 | pointers, page numbers, what may end the connection |
| `devtools_owner` | 1 page, another inspector | | *violation*, finding 2 |
| `cascade_closes` | 3 clients, 2 static connections, 2 pages | 45 000 | the cascade |
| `cascade_overlap` | 2 clients, overlapping static requests | | *violation*, finding 3 |
| `ports_file` | 3 devices and the list, 2 configurations, 2 ports | 11 000 | ports |
| `websocket_frames` | 2 requests of 14 kinds, 4 requests and frames in all, frames of 12 kinds | 2 100 000 | the browser's stream and the answers to it |
| `listener_tables` | 3 packets, 2 devices, 2 numbers in one bucket | 240 000 | usbmuxd's stream and the tables |
| `inspector_packets` | 3 messages or packets, parts of 2 bytes | 720 000 | the inspector's stream |

**Why the bounds are enough.** *Select loop:* two descriptors suffice for a receiver blocked by
another connection, a queue that outlives its connection, numbers reused during a scan, a
callback closing what is scanned next, and mutual blocking; a queue of two is the least in
which a partial send precedes another. What needs three descriptors (two removals in one
callback ahead of the scan) is covered by the proofs, which hold for any number. *Cascade:*
three clients and two static connections give every pairing of "has one, has none, has
another's". *Devtools:* two clients are needed to steal, a third ws id to reconnect while the
old session is still at the device; `MaxPending` bounds the messages in flight before a step
adds more, 2 being what a steal sends. *Ports:* three devices on two ports make one be refused;
two configurations differ in shared, own and ignored ranges. The unexpected messages (`MCNoise`) lack each kind of item once, or
have one of a wrong type or out of range, and include a selector that is not known. *Websocket:*
after a request, a fragment, a control frame and a fragment (the text may not be UTF-8, a request
may have a folded header); two requests, as the second is read
on a connection that the first one left a key or a static server on. The frontends `file` and
`http` are checked: with any other the code answers what it answers for a missing file. Files have
up to two blocks, the least in which one is read and the next one not. *Packets:* three, of lengths around the minimum buffer,
reach every branch of `cb_ensure_capacity` (the move and the growth were broken in turn to see it) and put, remove
and get in the front and the back of a bucket. `MaxBehind` limits only how much the peer sends
ahead; a piece still holds the end of one packet and the start of the next.

`CHECK_DEADLOCK FALSE` is set where the bounds end the run (devtools, websocket, listener,
inspector) and nowhere else: the select loop, the cascade and the ports never stop, or stop in a
state of their own (`Terminated`).

**Fairness.** `SocketManager`: `WF_vars(ThreadStep)`, as one thread runs on and its loops are
finite; strong fairness of `EnterLoop` and of the return of `on_recv`, as callbacks return (this
one does not go without saying, as a callback may make calls without end in the model); strong fairness of
`RecvNoInput` and `AcceptEnd`, as no peer sends or connects without any pause; and of a writable
answer of `select(2)`, and of a blocked entry being taken whole, per descriptor, as peers read.
The last two are assumptions on the outside; without them nothing can be promised, as `sm_recv`
and `sm_accept` have no limit of their own. `CloseCascade`: `WF_vars(Cascade)`, the thread runs
a cascade to its end.

## 4. What is checked

**Select loop.** `RecvFdsInv`: a descriptor is out of `recv_fds` exactly when a blocked send
waits on its account. `BlockedSendsInv`: `send_fds` is exactly who has a queue, except those
whose queue was left by a closed connection of the same number (361); `sm_send` appends to such a
queue without `FD_SET` (436-440), so what the open connection blocks stands behind all that was
left. None of the left bytes goes out on it, but its own sends stall. `ReportedStaysTrue`, `NothingSkipped`: what `select(2)`
said stays true of descriptors ahead of the scan, and all of them are visited, although sets,
`max_fd` and `num_left` change. `MaxFdInv`, `CleanupClosesAll`. `StreamsSpec`: every connection
is a byte stream, so nothing is reordered, doubled or sent on the wrong connection.
`LiveBlockedResumes`, `BlockedSendsProgress`, `LoopReturns`: liveness. The first excepts receivers
that wait for a left queue, the second connections that send behind one (`LeftOver`); both
exceptions are written in the properties.

**Cascade.** `RemovalsSpec`, of loop and callbacks: `on_close` is called once for a descriptor,
while it is open, and what is removed last is closed first. `LinksLive`: no callback follows a
pointer to a freed object, but for one, which the property names: `iwdp_iwi_close` frees the pages
(614) before it closes the clients, and `iwdp_iws_close` then reads and may write through
`iws->ipage` (573-577). The model lets that read find anything (`IwsStart`); the other properties
of the cascade hold whatever it finds. `NothingLeaks`: afterwards all that belongs together is
closed together, also when an attach fails half way (`Attach`, 429-454). `CascadeEnds`.

**Devtools.** `PagePointers`, `OneNumPerPage`, `PageNumsStable`; `SessionsAgree` and
`ListingsAgree`: with every message delivered, the device and the proxy agree on who inspects
what, and on what there is. `OnlyFaultsKill`: the proxy closes the connection to the inspector only
when that sent what is refused, or data for a client that is connected and whose websocket refused
or failed it (1427): after a close frame, with bytes that are no UTF-8, in the middle of a binary
message of the client, or as its socket failed. Data for a client that is gone never does so, nor
does the order in which apps, pages and sessions come and go.

**Ports.** `OnePerPort`, `ReattachKeepsPort`, `RefusedOnlyWhenFull`: the promises of
`README.md` on ports, for any order of attach, detach, edits and other processes.

**Streams.** `FramedSpec`, of each parser: it implements `FramedStream`, so the input is handled
packet by packet, byte for byte and as soon as a packet is complete, wherever it is cut.
Websocket: `AnswersWhole` (each request has one answer, with all that it declares),
`MessagesWhole`, `OnlyFaultsEnd` (which names every way in which a connection ends by an error,
three of them things that a client may well send), `CloseIsLast`. What follows a header that begins
with a blank is excepted from `FramedSpec`: the code breaks off there and reads the rest as a
request or as frames, which is the action `RecvStray`. Listener: `TableIsListed` (buckets against the
list that usbmuxd has), `OpenIsListed`. Inspector: `ReceivedWhole`, `SentWhole`.

### Findings

1. `sm_orphan`. `sm_remove_fd` leaves the queue of the removed descriptor, which may name a
   receiver; nothing ever puts that receiver back into `recv_fds`. Its socket is not read again.
   `LiveBlockedResumes` is what does hold.
2. `devtools_owner`. A claim by a remote inspector clears `ipage->iws->ipage` and not
   `ipage->iws`; when that client closes, the page points to freed memory. The run checks
   `OwnerLives`, and its trace goes on to the close and the free.
3. `cascade_overlap`. A second static request on a kept-alive connection overwrites `iws->ifs`;
   when the client closes, the first static connection stays and points to the freed client.

### Seen while modelling, without a run

These are what the code does; no property of a run is about them, or a property excepts them and
says so.

* `socket_manager.c:582`: the receive loop reads on after `sm_send` has blocked the receiver, so
  the queue is not bounded by one buffer.
* `socket_manager.c:53`: the comment says `send_fds` are the keys of `fd_to_sendq`. A queue left
  behind by a removed descriptor (361) is a key that is not in `send_fds`; a connection that gets
  the same number queues its blocked sends behind it (436-440), and they stall until it is closed.
  `BlockedSendsInv` and `BlockedSendsProgress` except this case.
* `ios_webkit_debug_proxy.c:614`: pages are freed before the clients that still point to them
  are closed, and `iwdp_iws_close` reads them (573-577). `LinksLive` excepts this pointer.
* `ios_webkit_debug_proxy.c:1427`: when the websocket of one client refuses or fails a message, that
  is an error of the inspector's handler, which closes the device and all its clients. (The
  comment above, 1424, is about ids that are not known.)
* `ios_webkit_debug_proxy.c:1223`: a `sender_id` that a remote claim did not clear is
  overwritten and leaks.
* `ios_webkit_debug_proxy.c:1118`: "claimed by" says local for a page with any `iws`, the
  dangling one of finding 2 included.
* `websocket.c:736`: a ping between the fragments of a message clears `continued_opcode` and the
  data, and the client's next fragment is refused. `websocket.c:274`: the sending side uses the
  receiving side's `continued_opcode`, so device data during a client's fragmented message goes
  out as a continuation.
* A websocket request for something that is no page is answered 404 and then upgraded; a
  `Sec-WebSocket-Key` of an earlier request of the connection counts for a later one; a mask of
  four zeros is taken for no mask.
* `device_listener.c:274`: a detach of an unknown number, or an unknown message, ends the listening
  for good; a device listed under two numbers loses its port with the first detach.
* `rpc.c:588`: the name of an app may be left out of a message (599), and is then copied with
  `strdup(NULL)` when the app connects. `Rpc` takes the message as accepted.
* `rpc.c:459`: an update has the id of the host or a name in `app_id`; only `dest_id` is used.
* `ios_webkit_debug_proxy_main.c:276`: the help (346) says `-u UDID[:minPort-[maxPort]]`; the
  expression refuses `UDID:9222-`.
* `websocket.c:453`: a header that begins with a blank (424) is no error but the end of the headers,
  and the rest of them is read as the next request or as frames (`RecvStray`).
* `websocket.c:624`: each fragment of a text is tested for UTF-8 by itself, so a message that its
  client cut inside a character ends the connection (`BadText`).
* `websocket.c:612`: the payload of a frame without a mask is copied and not skipped, so it is read
  again as frames; clients have to mask, and `PayloadsAssumption` leaves such payloads out.
* Data of a static server is relayed as it is, though the client was upgraded or sent a close frame
  meanwhile (`CloseIsLast` excepts it).
* `ios_webkit_debug_proxy.c:640`: `iwdp_idl_close` does nothing, so when usbmuxd goes the devices'
  ports stay, and no attach or detach is noticed any more.
* Small leaks that no model shows: the selector of every message (`rpc_recv_plist`), the previous
  app (`rpc_set_app`), method and resource of a request when the next one comes.

## 5. What is proved

**`SocketManagerProofs`** proves `Spec => []IndInv` for every finite set of descriptors, every
set of messages and every bound, and from it `TypeOK`, `RecvFdsInv`, `BlockedSendsInv`,
`ReportedStaysTrue`, `NothingSkipped`, `MaxFdInv` and `CleanupClosesAll`. Assumed are only the
ASSUMEs of `SocketManager` about its constants. The properties are not inductive by
themselves:

* `RecvFdsInv` needs `WaitersOpen`: if a queue could name a closed receiver, opening that number
  again would make it a descriptor in `recv_fds` that waits. This is what the loop over all
  queues in `sm_remove_fd` (371-385) is for.
* `BlockedSendsInv` says which queues `send_fds` stands for; closing and reopening a number needs
  `QueuesInv`, by which a queue of `send_fds` has entries of the open connection only, and one
  that was left behind starts with entries that are not the new connection's.
* `NothingSkipped` needs `ScanInv`: the reported descriptors are ahead of the scan, and are no
  more than `num_left`. The lemmas on cardinality are for the early end of the scan.
* `CleanupClosesAll` needs `CleanupInv`: behind the loop of `sm_cleanup` only descriptors are
  open whose `on_close` is running.
* `PlaceInv` says where the loops are, so that a step of `sm_resend` has an open descriptor.

The proof has one lemma per conjunct and per way in which queues change, and one step per action.

`ImplementsRemovals` proves the refinement `Spec => RemovalsSpec`: every step of the loop, the
client and the kernel is a step of `Removals` or leaves its variables alone. Besides types it
needs only the guard of `ClientRemove`, which is the other side of the contract;
`CloseCascadeProofs` proves that side.

`ImplementsStreams` proves the refinement `Spec => StreamsSpec`: what `sm_send` accepted on a
connection goes out once and in order, and never on its successor. One step per action: a send, a
queued send and a retry are `Write`, with the bytes that go out as the first part of the stream;
a failed send is `Fail`; the end of `sm_remove_fd` is `Close`.

* The stream of a connection is the concatenation of what its own entries hold. The lemmas on
  `OwnBytes` say what an entry more at the end, or the head entry less, does to it. They rest on
  lemmas about `FlattenSeq`, each proved from its shortest counterexample, as the induction
  theorems of the library cannot be used.
* `QueuesInv` is what makes a retry a `Write`: the head of a queue that select(2) is asked about
  is the connection's own. Without it, bytes of a closed connection would go out on the next one.
* `ClosingOpen`: what is being closed is open, and once only. So each end of a removal closes a
  stream that was open.

**`CloseCascadeProofs`** proves an inductive invariant of the cascade for every number of
clients, static connections and pages, and from it:

* `ImplementsRemovals`, `Spec => RemovalsSpec`: the callbacks never remove what is not open or
  is being closed. With the theorem above the composition holds on both sides. That no
  `on_close` is called twice is `Nested`: which callback may run inside which, and that the
  caller cleared the links that would lead back to it.
* `LinksAreLive` (`LinksLive`, with its exception) and `NothingIsLeft` (`NothingLeaks`), both under
  `Overlap = FALSE`: no client asks for a static file while one is on its way. Without it
  they are false, which is finding 3; `cascade_closes` checks them under the same condition.

The invariant is about the middle of a cascade, where the graph is half undone: `Closing` (what
is allocated is open, but for objects past the first part of their callback), `Inspector` (port
and inspector point to each other, or one of them is being closed), `Clients` (a client is in
the port's table or in the snapshot of its loop until it is closed) and `Files` (a client and
its static connection point to each other). `NothingLeaks` speaks of an empty stack only and is
not inductive without them.

**`DevtoolsProofs`** proves `PointersNeverStale` (`PagePointers`), `NumbersUnique`
(`OneNumPerPage`), `NumbersKept` (`PageNumsStable`), `KilledOnlyByFaults` (`OnlyFaultsKill`),
`ListingsFollow` (`ListingsAgree`), `OwnersConnected` (`OwnerIsConnected`) and `SessionsFollow`
(`SessionsAgree`) for any apps, pages, clients, ws ids and lengths of the queues; the last two
with `RemoteClaims = FALSE`, as finding 2 is that an owner need not be connected otherwise.
Assumed are the ASSUMEs of `Devtools`: its sets are finite and disjoint, and `Noise` is what the
decoder makes of messages that are no news of apps and pages.

* The invariant is `Types`, with what may be in flight in both directions; `Graph`: a page in
  the table under one number only, a client with a page is the one that the page points to and
  has the `sender_id` that the page has; `AppKnown`: while the connection lives, the device
  lists only apps that it said were connected; `NoRemote`, which is for `OwnersConnected`.
* `PagePointers` alone is not inductive: `iwdp_stop_devtools` clears the client's pointer only
  if the page has a `sender_id` that `ws_id_to_iws` knows, which is `Graph`.
* `OnlyFaultsKill` needs `AppKnown`: a listing for an app that is not in
  `app_id_to_true` is an error, and no order of quitting and listing may lead to one.

`ListingsAgree` and `SessionsAgree` speak only of states in which both queues are empty, and no
step leads from one such state to the next. What holds in between is `InFlight` (theorem
`NewsInOrder`), which says that the messages on their way are the steps of a path:

* From the device: there are views `f[0]`, ..., `f[n]` of apps and pages, from what the proxy knows
  (`ProxyView`) to what the device has (`DeviceView`), and message i tells how `f[i-1]` becomes
  `f[i]` (`Tells`). A step of the device adds a view at the end (`ToldOn`). Handling a message takes
  the first one away (`ToldHead`), and the handler has to make exactly that view of the table, for
  each of the ways in which `iwdp_on_applicationSentListing` adds, keeps and drops pages
  (`RelistedSays`).
* To the device: for each page there are owners `u[0]`, ..., `u[k]`, the last one the client that
  the table has for the page, and each setup or close is the step between two of them (`Said`). If
  the device has a session of ours for the page, it is `u[0]`. If it has none of the table's owner,
  either the path still leads there from elsewhere (`Strays`), so that a setup is on its way, or
  the page is gone in some view of `f` (`Gone`), so that a message which ends the session at the
  proxy is on its way. This second case is the crossing of sessions and listings: a page closes
  with its session while a setup for it is in the queue. `Releases` and `Conveys` are
  what a handler that stops sessions or starts one has to tell the device; a steal is the case in
  which it tells both, in this order.

Then there is one lemma per handler and step, and with both queues empty the paths have no step:
what is known is what there is. The same path shows `NewsIsOfKnownApps`: an app that the next
message is about is in `app_id_to_true`. So the branch of `iwdp_on_applicationSentListing` for an
unknown app, which asks for a listing of another one (1347-1352), is for a device that does not
keep to its order.

**`WebSocketProofs`** proves `NothingAfterClose` (`CloseIsLast`), `MessagesAreWhole`
(`MessagesWhole`), `ErrorsHaveCauses` (`OnlyFaultsEnd`), `AnswersAreWhole` (`AnswersWhole`) and
`FramedSpecHolds` (`FramedSpec`) for any requests and frames, any number of them, files of any
number of blocks and any cut of the input. Assumed are the ASSUMEs of `WebSocket` on the fields of
requests and frames, and that a payload has a mask.

* `CloseIsLast` needs that `sent_close` is set whenever a close frame is in `out`, and that
  none is sent before the upgrade (`Closes`).
* `MessagesWhole` needs `Fragments`: the payloads in `data` are those of the last items that
  were handled, without a gap, the first one no continuation. A gap cannot come about as a
  control frame clears `data`; that is the reason for which an interrupted message is lost.
* `OnlyFaultsEnd` needs `Errors`: unless the client sent what it may not send, a control frame
  inside a message, or a payload that is not UTF-8, `continued_opcode` is set exactly when a message is open; and
  `Position` and `Phase`, that the unit at `in_head` is the first of the next item, and that this
  item is of the kind that the state expects.
* `FramedSpec` needs `Behind`: the unit that is read next is in the first item that was not
  handled, the units before it in that item were read, and no whole item is left when the loop
  waits; after a folded header (`Astray`) `in_head` is one unit behind the end of the request, which
  the mapping adds (`LineRead`). The steps of `ws_recv_loop` that handle no whole item are stutters of `FramedStream`,
  the others its `Handle`, `Wait` or `Close`.

* `AnswersWhole` needs `Answers`: `sec_key` is set exactly if a request that was handled had a key,
  and the items that static servers answer are requests of no websocket, for which nothing but
  the servers' data was sent. `RequestGood` goes through what may come of a request, and the
  lemmas from `PicksExist` to `RepliesAppend` are on `RepliesTo`, the replies to one item, which
  is a recursive function: each takes the shortest sequence for which it could be false.

**`CharBufferProofs`** proves what the parsers rely on: if the buffer is `InBounds` and its memory
holds bytes, `cb_begin_input` makes a parser read what was kept followed by what came
(`BeginInputReads`), reading n bytes leaves the rest (`AdvanceReads`) and `cb_end_input` keeps
what was not read (`EndInputKeeps`); each for the shared, the appended, the moved and the grown
memory, of any lengths and with any garbage.

**`DeviceListenerProofs`** begins with the hash table: `OperationsKeepGood` says that get with
move to front, put and remove act on the content of a table as on a function, whatever the
hashes, and `GoodIsWellFormed` that such a table has as many entries as keys. With them and the
lemmas on the buffer it proves `Invariant`, and from it `TypeCorrect` (`TypeOK`), `Listed`
(`TableIsListed`), `OpenPorts` (`OpenIsListed`) and `FramedSpecHolds` (`FramedSpec`), for any
packets, numbers, ids, hashes and bounds that meet the ASSUMEs of the model.

* `StreamOK` and `ParserOK`: what was received and not handled is one span of the stream, it
  starts where a packet does, and `body_length`, when it was read, is the size of that packet. So
  the length that was read in one call is that of the packet that is handled in a later one.
* `ListedOK` with `NumbersFree`: a number is attached only when it is free, so that the last
  packet about a number decides what the table has for it.
* `OpenOK`: iports outlive what usbmuxd says, so that the property has to be kept by detach,
  through the id that the table has for the number.

**`WebInspectorProofs`** proves `Invariant`, and from it `TypeCorrect` (`TypeOK`), `ReceivedIsWhole`
(`ReceivedWhole`), `SentIsWhole` (`SentWhole`) and `FramedSpecHolds` (`FramedSpec`), for messages
and parts of any lengths, any `MAX_RPC_LEN`, any cut of the input and any send that fails. It
begins with lemmas on lists of packets, which both sides use: what is added at the end changes
nothing before it, and the bytes of a message are those up to its last packet's last.

* `StreamOK` and `ParserOK` are as for the listener, with a length that is refused.
* `ReceivedWhole` lets the message at which the connection ended be missing, as one that cannot be
  parsed is an error. It needs `PartialOK`: what `my->partial` keeps is all that was handled of the
  message that has not ended. Only because `wi_parse_plist` clears it with the final part, and an
  empty `partial` says that there was none before, does each message start with its first byte.
* `PacketsOK` is what the device promises: a part goes on where the one before it stopped.
* `SentWhole` is kept by a send that fails in any place, as what was sent are the first packets
  of the message, and later sends fail. `NumPartsFacts` and `PartsFacts` are about the loop of
  `wi_send_plist`: every part but the last is full, the last is not empty, and marked.

Each inductive invariant was checked with TLC on the runs' instances before it was proved;
`InFlight`, which TLC cannot evaluate as it stands, with functions that compute the two paths from
the queues.

**`PortAssignProofs`** proves `TypeOK`, `OnePerPort`, `HadInv`, `ReattachKeepsPort` and
`RefusedOnlyWhenFull` for every set of devices and configurations. `OnePerPort` is inductive
with the type of the table; `ReattachKeepsPort` follows from `HadInv`: what was had is what the
iport remembers, as a sticky iport is never freed.

**Only model-checked:** all liveness (`LiveBlockedResumes`, `BlockedSendsProgress`, `LoopReturns`,
`CascadeEnds`). Every invariant and every other property that a passing run checks is a theorem,
under the conditions of its run where they are named above. Liveness under fairness and
`ENABLED` are out of the prover's reach here, and stay with TLC. No module declares a recursive operator. The pure
operators of `Rpc` and `PortConfig` are checked through the modules that use them; of
`HttpRequests`, `WebSocketProofs` also proves what an outcome may be (`RequestOutcomes`).

## 6. What is not modelled, and why

SSL set-up (calls of OpenSSL and libimobiledevice), connecting to a peer (`sm_connect`,
`wi_connect`, `dl_connect`: name service and non-blocking connects that keep no state), SHA-1,
base64 and the portability headers (third-party), the examples. Of what is modelled: the texts of
the device and page lists, of headers and of content types; masks, and of UTF-8 all but whether a
payload is valid; payloads of frames without a mask; the regular
expressions; libplist. Messages that the proxy defines and never sends
(`forwardIndicateWebView`, `getConnectedApplications`) and `ws_send_connect`, which is for clients,
are left out. Allocation never fails in the models. Descriptors above `FD_SETSIZE` are not
modelled: the code does not check them.

## 7. Plan

The order was by importance: first the loop that everything runs in, then what the callbacks do to
each other, then sessions and ports, then the streams, then what the messages say. Done are all
modules above, the contract between loop and callbacks proved on both sides, the abstract stream
of packets with its three refinements, all of them proved, and the invariants of section 5. What is
left is the composition: an abstract specification of the proxy, with sessions as an atomic map,
which `Devtools` refines. `InFlight` is most of the invariant that this would need.
