------------------------------ MODULE Devtools ------------------------------
(***************************************************************************)
(* One attached device in src/src/ios_webkit_debug_proxy.c: the pages it   *)
(* lists, the browser clients (iws) that inspect them, and the sessions    *)
(* the proxy opens and closes at the device's web inspector, which answers *)
(* late.  Every message of a socket is handled by one run of a handler, so *)
(* a handler is a step.  The web inspector is code outside the repository: *)
(* it is modelled as the handlers expect it (FIFO, one session per page,   *)
(* a listing after every change), and may send other messages (Noise).     *)
(* Sends to it do not fail here: what closing its socket does to the rest  *)
(* is CloseCascade's.                                                      *)
(* rpc.c keeps no state, so a message is converted when it is sent.        *)
(*                                                                         *)
(* Operators whose comment starts with (slip) are not part of the model:   *)
(* each is the definition that follows it with a plausible mistake, used   *)
(* to see that a property fails when the code is wrong in that way.        *)
(***************************************************************************)
EXTENDS Rpc, FiniteSets

CONSTANTS
    Apps,           \* app_ids
    PageIds,        \* pages of the device, as (app_id, page_id) pairs
    AppOf,          \* the app of a page
    Iwss,           \* addresses iwdp_iws_new can return, reused after a free
    WsIds,          \* ws_ids (uuids); one is drawn again only when forgotten
    RemoteClaims,   \* whether another inspector may claim pages
    Noise,          \* property lists that the inspector may send besides its news
    MaxPageNum,     \* bound on max_page_num
    MaxPending      \* bound on the messages in flight before a step sends more

ASSUME AppOfAssumption == AppOf \in [PageIds -> Apps]
ASSUME BoundsAssumption == MaxPageNum \in Nat /\ MaxPending \in Nat
ASSUME RemoteClaimsAssumption == RemoteClaims \in BOOLEAN

Us == "us"              \* iwi->connection_id
Remote == "remote"      \* the connection_id of another inspector
Shut == "shut"          \* the page is not open at the device
NoPage == 0             \* ipage == NULL, and page_num not set

ASSUME NamesAssumption ==
    /\ Null \notin Iwss \cup WsIds \cup Apps
    /\ {Shut, Remote} \cap WsIds = {}
ASSUME FiniteAssumption == IsFiniteSet(Apps) /\ IsFiniteSet(PageIds)
ASSUME NoiseAssumption ==       \* no news
    \A i \in DOMAIN Noise :
        RecvPlist(Noise[i]) \in {Invalid, Call("reportSetup"), Call("ignored")}

VARIABLES
    up,         \* the inspector socket is open (iport->iwi is set)
    apps,       \* app_id_to_true
    lastApp,    \* iwi->app
    pages,      \* page_num_to_ipage: page_num -> [id, conn, sender, iws]
    maxPageNum,
    iws,        \* memory of the clients: [live, id, st, ipage, pageNum, sentClose]
    running,    \* (device) apps that run
    dev,        \* (device) page -> Shut, Null, Remote or the sender of its session
    toDev, fromDev      \* messages in flight

proxy == <<up, apps, lastApp, pages, maxPageNum, iws>>
device == <<running, dev>>
vars == <<proxy, device, toDev, fromDev>>

NoIws == [live |-> FALSE, id |-> Null, st |-> "http", ipage |-> NoPage,
          pageNum |-> NoPage, sentClose |-> FALSE]

\* The messages to the device, for a page.
Setup(pg, id) == ForwardSocketSetup(Us, AppOf[pg], pg, id)
DidClose(pg, id) == ForwardDidClose(Us, AppOf[pg], pg, id)
GetListing(app) == ForwardGetListing(Us, app)

-----------------------------------------------------------------------------
(* What start and stop of a session do to the pages, the clients and the     *)
(* messages sent: h is a record [pages, iws, sent].                          *)

Heap == [pages |-> pages, iws |-> iws, sent |-> <<>>]

\* ws_id_to_iws: the client that has this ws_id, if any.
HasWsId(h, s, id) == h.iws[s].live /\ h.iws[s].id = id

\* (slip) the lag between setup and listing is not thought of.
StopDevtoolsAcked(h, n) ==
    LET p == h.pages[n]
        s == p.iws
    IN  IF s = Null \/ p.sender = Null THEN h
        ELSE IF h.iws[s].ipage # n \/ ~HasWsId(h, s, p.sender) THEN h
        ELSE [pages |-> [h.pages EXCEPT ![n] = [@ EXCEPT !.iws = Null, !.sender = Null]],
              iws   |-> [h.iws EXCEPT ![s] = [@ EXCEPT !.ipage = NoPage, !.pageNum = NoPage]],
              sent  |-> IF p.conn = Us
                        THEN Append(h.sent, DidClose(p.id, p.sender)) ELSE h.sent]

\* (slip) the client keeps its pointer to the page.
StopDevtoolsOneSided(h, n) ==
    LET p == h.pages[n]
        s == p.iws
    IN  IF s = Null \/ p.sender = Null THEN h
        ELSE IF h.iws[s].ipage # n \/ ~HasWsId(h, s, p.sender) THEN h
        ELSE [pages |-> [h.pages EXCEPT ![n] = [@ EXCEPT !.iws = Null, !.sender = Null]],
              iws   |-> h.iws,
              sent  |-> IF p.conn \in {Null, Us}
                        THEN Append(h.sent, DidClose(p.id, p.sender)) ELSE h.sent]

\* iwdp_stop_devtools: three early returns, then the session is closed at the
\* device (unless the page is listed as another inspector's) and unlinked.
StopDevtools(h, n) ==
    LET p == h.pages[n]
        s == p.iws
    IN  IF s = Null \/ p.sender = Null THEN h
        ELSE IF h.iws[s].ipage # n \/ ~HasWsId(h, s, p.sender) THEN h
        ELSE [pages |-> [h.pages EXCEPT ![n] = [@ EXCEPT !.iws = Null, !.sender = Null]],
              iws   |-> [h.iws EXCEPT ![s] = [@ EXCEPT !.ipage = NoPage, !.pageNum = NoPage]],
              sent  |-> IF p.conn \in {Null, Us}
                        THEN Append(h.sent, DidClose(p.id, p.sender)) ELSE h.sent]

\* iwdp_start_devtools: steal the page from its owner, which keeps the number
\* to report a useful error, then own it and open a session.
StartDevtools(h, n, s) ==
    LET owner == h.pages[n].iws
        h1 == IF owner = Null THEN h
              ELSE [StopDevtools(h, n) EXCEPT !.iws[owner].pageNum = n]
    IN  [pages |-> [h1.pages EXCEPT ![n] = [@ EXCEPT !.iws = s, !.sender = h1.iws[s].id]],
         iws   |-> [h1.iws EXCEPT ![s] = [@ EXCEPT !.ipage = n, !.pageNum = n]],
         sent  |-> Append(h1.sent, Setup(h1.pages[n].id, h1.iws[s].id))]

\* The orders in which the entries of a hash table may come.
Orders(S) ==
    {order \in [1..Cardinality(S) -> S] : \A e \in S : \E i \in DOMAIN order : order[i] = e}

\* Stop and free the pages numbered ns, in some order.  To stop a page touches only
\* the page and the client that points to it.
DropPages(h, ns) ==
    LET stopped(n) == StopDevtools([h EXCEPT !.sent = <<>>], n) IN
    {[pages |-> [n \in DOMAIN h.pages \ ns |-> h.pages[n]],
      iws   |-> [s \in Iwss |-> IF h.iws[s].ipage \in ns THEN stopped(h.iws[s].ipage).iws[s]
                               ELSE h.iws[s]],
      sent  |-> h.sent \o [i \in DOMAIN order |-> stopped(order[i]).sent[1]]] :
     order \in Orders({n \in ns : stopped(n).sent # <<>>})}

\* (slip) a client that was never told its page is gone is forgotten as it is.
CloseIwsNoStop(h, s) == [h EXCEPT !.iws[s] = NoIws]

\* iwdp_iws_close: stop the session if this client owns it, leave the table,
\* free (the memory is cleared).
CloseIws(h, s) ==
    LET n == h.iws[s].ipage
        owns == n # NoPage /\ h.pages[n].sender # Null /\ h.pages[n].iws = s
    IN  [(IF owns THEN StopDevtools(h, n) ELSE h) EXCEPT !.iws[s] = NoIws]

Apply(h) ==
    /\ pages' = h.pages /\ iws' = h.iws
    /\ toDev' = toDev \o h.sent

\* A handler of the inspector socket returned an error: sm_recv removes it, and
\* with it iwdp_iwi_close the pages, the browser port and every client.
Kill ==
    /\ up' = FALSE
    /\ pages' = [n \in {} |-> NoPage] /\ apps' = {} /\ lastApp' = Null
    /\ iws' = [s \in Iwss |-> NoIws]
    /\ dev' = [pg \in PageIds |-> IF dev[pg] \in WsIds THEN Null ELSE dev[pg]]
    /\ toDev' = <<>> /\ fromDev' = <<>>
    /\ UNCHANGED <<maxPageNum, running>>

-----------------------------------------------------------------------------

Init ==
    /\ up = TRUE
    /\ apps = {} /\ lastApp = Null
    /\ pages = [n \in {} |-> NoPage] /\ maxPageNum = 0
    /\ iws = [s \in Iwss |-> NoIws]
    /\ running = {} /\ dev = [pg \in PageIds |-> Shut]
    /\ toDev = <<>> /\ fromDev = <<>>

\* The inspector is connected, and (bound) there is room for messages to it.
MaySend == up /\ Len(toDev) < MaxPending

(* The browser clients.                                                      *)

IdsInUse ==
    {iws[s].id : s \in Iwss} \cup {pages[n].sender : n \in DOMAIN pages}
    \cup {dev[pg] : pg \in PageIds}
    \cup {toDev[i].args.Sender : i \in {j \in DOMAIN toDev : "Sender" \in DOMAIN toDev[j].args}}
    \cup {fromDev[i].id : i \in {j \in DOMAIN fromDev : fromDev[j].t = "data"}}

\* iwdp_iport_accept.
Accept(s, id) ==
    /\ up /\ ~iws[s].live
    /\ id \in WsIds \ IdsInUse
    /\ iws' = [iws EXCEPT ![s] = [NoIws EXCEPT !.live = TRUE, !.id = id]]
    /\ UNCHANGED <<up, apps, lastApp, pages, maxPageNum, device, toDev, fromDev>>

\* iwdp_on_devtools_request for page n, and the upgrade that follows; a page
\* that is not found is reported, and the upgrade follows all the same.
DevtoolsRequest(s, n) ==
    /\ MaySend /\ iws[s].live /\ iws[s].st = "http"
    /\ Apply(IF n \in DOMAIN pages
             THEN [StartDevtools(Heap, n, s) EXCEPT !.iws[s].st = "ws"]
             ELSE [Heap EXCEPT !.iws[s].st = "ws"])
    /\ UNCHANGED <<up, apps, lastApp, maxPageNum, device, fromDev>>

\* iwdp_on_frame, TEXT: with a page the data is forwarded, which changes nothing
\* here; without one the client is told so once, with a close frame, and when
\* it goes on the second close frame fails and the client is closed.
TextFrame(s) ==
    /\ MaySend /\ iws[s].live /\ iws[s].st = "ws" /\ iws[s].ipage = NoPage
    /\ Apply(IF iws[s].sentClose THEN CloseIws(Heap, s)
             ELSE [Heap EXCEPT !.iws[s].sentClose = TRUE])
    /\ UNCHANGED <<up, apps, lastApp, maxPageNum, device, fromDev>>

\* The client's socket ends or fails, or it sent a close frame.
CloseClient(s) ==
    /\ MaySend /\ iws[s].live
    /\ Apply(CloseIws(Heap, s))
    /\ UNCHANGED <<up, apps, lastApp, maxPageNum, device, fromDev>>

-----------------------------------------------------------------------------
(* Messages from the web inspector.                                          *)

Receives(t) == MaySend /\ fromDev # <<>> /\ fromDev[1].t = t

\* iwdp_add_app_id.
AddApps(new) ==
    /\ apps' = apps \cup new
    /\ \E order \in Orders(new \ apps) :
            toDev' = toDev \o [i \in DOMAIN order |-> GetListing(order[i])]

\* iwdp_on_applicationConnected; the app is copied with its name, which the device
\* always gives (rpc_copy_app has no place for one without).
RecvConnected ==
    /\ Receives("connected")
    /\ lastApp' = fromDev[1].app
    /\ AddApps({fromDev[1].app})
    /\ fromDev' = Tail(fromDev)
    /\ UNCHANGED <<up, pages, maxPageNum, iws, device>>

\* iwdp_on_applicationUpdated: as above, but it is not the last app.
RecvUpdated ==
    /\ Receives("updated")
    /\ AddApps({fromDev[1].app})
    /\ fromDev' = Tail(fromDev)
    /\ UNCHANGED <<up, lastApp, pages, maxPageNum, iws, device>>

\* The pages of apps.
PagesOf(as) == {n \in DOMAIN pages : AppOf[pages[n].id] \in as}

\* iwdp_remove_app_id.
RecvDisconnected ==
    /\ Receives("disconnected")
    /\ LET app == fromDev[1].app IN
         /\ apps' = apps \ {app}
         /\ \E h \in DropPages(Heap, IF app \in apps THEN PagesOf({app}) ELSE {}) : Apply(h)
    /\ fromDev' = Tail(fromDev)
    /\ UNCHANGED <<up, lastApp, maxPageNum, device>>

\* iwdp_on_reportConnectedApplicationList; an empty list is ignored.
RecvAppList ==
    /\ Receives("appList")
    /\ LET list == fromDev[1].apps IN
         IF list = {} THEN UNCHANGED <<apps, lastApp, pages, iws, toDev>>
         ELSE /\ apps' = list
              /\ lastApp' \in list
              /\ \E h \in DropPages(Heap, PagesOf(apps \ list)), order \in Orders(list \ apps) :
                    Apply([h EXCEPT !.sent = @ \o [i \in DOMAIN order |-> GetListing(order[i])]])
    /\ fromDev' = Tail(fromDev)
    /\ UNCHANGED <<up, maxPageNum, device>>

\* The page that stands for pg, if it is known.
NumOf(pg) == {n \in DOMAIN pages : pages[n].id = pg}

\* (slip) pages are numbered by how many there are.
FreshNumsByCount(k) == (Cardinality(DOMAIN pages) + 1)..(Cardinality(DOMAIN pages) + k)

\* ++max_page_num, k times.
FreshNums(k) == (maxPageNum + 1)..(maxPageNum + k)

\* (slip) a page is known only under the same connection_id.
NewPagesByConn(listed) ==
    {l.id : l \in {k \in listed : ~\E n \in NumOf(k.id) : pages[n].conn = k.conn}}

\* The listed pages that are not known.
NewPages(listed) == {l.id : l \in {k \in listed : NumOf(k.id) = {}}}

\* The pages after a listing, before old ones are dropped: new pages numbered
\* in some order, and the connection_id of every listed one brought up to date.
Relisted(listed, number) ==
    LET known(n) == pages[n].id \in {l.id : l \in listed}
        connOf(pg) == (CHOOSE l \in listed : l.id = pg).conn
    IN  [n \in DOMAIN pages \cup {number[pg] : pg \in DOMAIN number} |->
            IF n \in DOMAIN pages
            THEN IF known(n) THEN [pages[n] EXCEPT !.conn = connOf(pages[n].id)]
                             ELSE pages[n]
            ELSE LET pg == CHOOSE q \in DOMAIN number : number[q] = n
                 IN  [id |-> pg, conn |-> connOf(pg), sender |-> Null, iws |-> Null]]

\* The clients whose page is listed as another inspector's: page->iws->ipage is
\* cleared, page->iws is not.
Claimed(listed) ==
    {pages[n].iws : n \in {m \in DOMAIN pages :
        \E l \in listed : l.id = pages[m].id /\ l.conn = Remote}} \ {Null}

\* (slip) the app_ids are not compared.
OldPagesOfAnyApp(app, listed) ==
    {n \in DOMAIN pages : pages[n].id \notin {l.id : l \in listed}}

\* The known pages of an app that it does not list any more.
OldPages(app, listed) ==
    {n \in PagesOf({app}) : pages[n].id \notin {l.id : l \in listed}}

\* iwdp_on_applicationSentListing.
RecvListing ==
    /\ Receives("listing")
    /\ LET app == fromDev[1].app
           listed == fromDev[1].pages
           new == NewPages(listed) IN
         IF app \notin apps
         THEN IF lastApp = Null THEN Kill
              ELSE /\ toDev' = Append(toDev, GetListing(lastApp))
                   /\ fromDev' = Tail(fromDev)
                   /\ UNCHANGED <<proxy, device>>
         ELSE /\ maxPageNum' = maxPageNum + Cardinality(new)
              /\ maxPageNum' <= MaxPageNum
              /\ \E number \in [new -> FreshNums(Cardinality(new))] :
                    /\ \A p, q \in new : p # q => number[p] # number[q]
                    /\ LET h == [pages |-> Relisted(listed, number),
                                 iws |-> [s \in Iwss |-> IF s \in Claimed(listed)
                                            THEN [iws[s] EXCEPT !.ipage = NoPage]
                                            ELSE iws[s]],
                                 sent |-> <<>>]
                       IN \E g \in DropPages(h, OldPages(app, listed)) : Apply(g)
              /\ fromDev' = Tail(fromDev)
              /\ UNCHANGED <<up, apps, lastApp, device>>

\* iwdp_on_applicationSentData: the client that has the ws_id gets a frame, and
\* without one nothing happens.  Its websocket refuses the frame after a close
\* frame, and may fail it: for the bytes, for a message of another kind that the
\* client has not finished, for its socket (WebSocket has these).  Its error is
\* the handler's.
RecvData ==
    /\ Receives("data")
    /\ LET of == {s \in Iwss : HasWsId(Heap, s, fromDev[1].id)} IN
         \/ /\ \A s \in of : ~iws[s].sentClose
            /\ fromDev' = Tail(fromDev)
            /\ UNCHANGED <<proxy, device, toDev>>
         \/ of # {} /\ Kill

\* A message that rpc_recv_msg refuses is an error of the handler.
RecvInvalid == Receives("invalid") /\ Kill

\* iwdp_on_reportSetup only notes that the inspector is connected; two messages
\* are ignored.
RecvOther ==
    /\ \/ Receives("reportSetup")
       \/ Receives("ignored")
    /\ fromDev' = Tail(fromDev)
    /\ UNCHANGED <<proxy, device, toDev>>

-----------------------------------------------------------------------------
(* The web inspector on the device (external).                               *)

\* What the proxy gets of a message.
Message(selector, argument) ==
    RecvPlist(Node("dict", [key \in {"__selector", "__argument"} |->
                                IF key = "__selector" THEN Text(selector) ELSE argument]))

AppNode(app) ==
    Node("dict", [WIRApplicationIdentifierKey |-> Text(app), WIRApplicationNameKey |-> Text("name"),
                  WIRIsApplicationProxyKey |-> Node("bool", FALSE)])

\* A page that is not inspected has no connection.
PageNode(pg, conn) ==
    Node("dict", [key \in {"WIRPageIdentifierKey", "WIRTitleKey", "WIRURLKey"} \cup
                          (IF conn = Null THEN {} ELSE {"WIRConnectionIdentifierKey"}) |->
                    IF key = "WIRPageIdentifierKey" THEN Node("uint", pg)
                    ELSE Text(IF key = "WIRConnectionIdentifierKey" THEN conn ELSE "text")])

ConnOf(owner) == IF owner \in WsIds THEN Us ELSE owner

\* The listing of an app when the page sessions are d.
ListingOf(app, d) ==
    Message("_rpc_applicationSentListing:",
        Node("dict",
            [WIRApplicationIdentifierKey |-> Text(app),
             WIRListingKey |->
                Node("dict", [pg \in {q \in PageIds : AppOf[q] = app /\ d[q] # Shut} |->
                                PageNode(pg, ConnOf(d[pg]))])]))

MayAnswer == up /\ Len(fromDev) < MaxPending

\* A page session changes and the listing of its app is sent.
SetPage(pg, owner) ==
    /\ dev' = [dev EXCEPT ![pg] = owner]
    /\ fromDev' = Append(fromDev, ListingOf(AppOf[pg], dev'))

DevAppStarts(app) ==
    /\ MayAnswer /\ app \notin running
    /\ running' = running \cup {app}
    /\ fromDev' = Append(fromDev, Message("_rpc_applicationConnected:", AppNode(app)))
    /\ UNCHANGED <<proxy, dev, toDev>>

DevAppQuits(app) ==
    /\ MayAnswer /\ app \in running
    /\ running' = running \ {app}
    /\ dev' = [pg \in PageIds |-> IF AppOf[pg] = app THEN Shut ELSE dev[pg]]
    /\ fromDev' = Append(fromDev, Message("_rpc_applicationDisconnected:", AppNode(app)))
    /\ UNCHANGED <<proxy, toDev>>

DevAppUpdates(app) ==
    /\ MayAnswer /\ app \in running
    /\ fromDev' = Append(fromDev, Message("_rpc_applicationUpdated:", AppNode(app)))
    /\ UNCHANGED <<proxy, device, toDev>>

DevAppList ==
    /\ MayAnswer
    /\ fromDev' = Append(fromDev, Message("_rpc_reportConnectedApplicationList:",
        Node("dict", [WIRApplicationDictionaryKey |->
                        Node("dict", [app \in running |-> AppNode(app)])])))
    /\ UNCHANGED <<proxy, device, toDev>>

DevPageOpens(pg) ==
    /\ MayAnswer /\ dev[pg] = Shut /\ AppOf[pg] \in running
    /\ SetPage(pg, Null)
    /\ UNCHANGED <<proxy, running, toDev>>

DevPageCloses(pg) ==
    /\ MayAnswer /\ dev[pg] # Shut
    /\ SetPage(pg, Shut)
    /\ UNCHANGED <<proxy, running, toDev>>

DevRemoteClaims(pg) ==
    /\ RemoteClaims /\ MayAnswer /\ dev[pg] \notin {Shut, Remote}
    /\ SetPage(pg, Remote)
    /\ UNCHANGED <<proxy, running, toDev>>

DevRemoteReleases(pg) ==
    /\ MayAnswer /\ dev[pg] = Remote
    /\ SetPage(pg, Null)
    /\ UNCHANGED <<proxy, running, toDev>>

DevSendsData(pg) ==
    /\ MayAnswer /\ dev[pg] \in WsIds
    /\ fromDev' = Append(fromDev, Message("_rpc_applicationSentData:",
        Node("dict", [WIRApplicationIdentifierKey |-> Text(AppOf[pg]),
                      WIRDestinationKey |-> Text(dev[pg]),
                      WIRMessageDataKey |-> Node("data", Null)])))
    /\ UNCHANGED <<proxy, device, toDev>>

\* The next message of the proxy: a session is opened, taking the page from
\* whoever has it, or closed if it is the one named; a listing is asked for.
DevReceives ==
    /\ MayAnswer /\ toDev # <<>>
    /\ LET m == toDev[1].args
           is(selector) == toDev[1].selector = selector IN
         \/ /\ is("_rpc_forwardSocketSetup:") /\ dev[m.PageIdentifier] # Shut
            /\ SetPage(m.PageIdentifier, m.Sender)
         \/ /\ is("_rpc_forwardDidClose:") /\ dev[m.PageIdentifier] = m.Sender
            /\ SetPage(m.PageIdentifier, Null)
         \/ /\ is("_rpc_forwardGetListing:") /\ m.ApplicationIdentifier \in running
            /\ fromDev' = Append(fromDev, ListingOf(m.ApplicationIdentifier, dev))
            /\ UNCHANGED dev
         \/ /\ \/ is("_rpc_forwardSocketSetup:") /\ dev[m.PageIdentifier] = Shut
               \/ is("_rpc_forwardDidClose:") /\ dev[m.PageIdentifier] # m.Sender
               \/ is("_rpc_forwardGetListing:") /\ m.ApplicationIdentifier \notin running
            /\ UNCHANGED <<dev, fromDev>>
    /\ toDev' = Tail(toDev)
    /\ UNCHANGED <<proxy, running>>

\* Something else, marked as such.
Noisy(m) == [field \in DOMAIN m \cup {"noise"} |-> IF field = "noise" THEN TRUE ELSE m[field]]

NoisyMessages == {Noisy(RecvPlist(Noise[i])) : i \in DOMAIN Noise}

DevSendsNoise ==
    /\ MayAnswer
    /\ \E m \in NoisyMessages : fromDev' = Append(fromDev, m)
    /\ UNCHANGED <<proxy, device, toDev>>

Next ==
    \/ \E s \in Iwss, id \in WsIds : Accept(s, id)
    \/ \E s \in Iwss, n \in 1..MaxPageNum : DevtoolsRequest(s, n)
    \/ \E s \in Iwss : TextFrame(s) \/ CloseClient(s)
    \/ RecvConnected \/ RecvUpdated \/ RecvDisconnected \/ RecvAppList
    \/ RecvListing \/ RecvData \/ RecvInvalid \/ RecvOther
    \/ \E app \in Apps : DevAppStarts(app) \/ DevAppUpdates(app) \/ DevAppQuits(app)
    \/ DevAppList
    \/ \E pg \in PageIds :
        \/ DevPageOpens(pg) \/ DevPageCloses(pg)
        \/ DevRemoteClaims(pg) \/ DevRemoteReleases(pg)
        \/ DevSendsData(pg)
    \/ DevReceives \/ DevSendsNoise

Spec == Init /\ [][Next]_vars

-----------------------------------------------------------------------------

\* The inspector's connection, and with it every client of the device, is closed by
\* the proxy only when the inspector sent something that is not of its protocol, or
\* data for a client that is connected, whose websocket refused or failed it (1427);
\* never by data for a client that is gone ("error but don't kill the inspector!",
\* 1424), and never because of the order in which apps, pages, listings and sessions
\* come and go.
OnlyFaultsKill ==
    [][up /\ ~up' =>
        \/ fromDev[1].t = "invalid" /\ "noise" \in DOMAIN fromDev[1]
        \/ /\ fromDev[1].t = "data"
           /\ \E s \in Iwss : HasWsId(Heap, s, fromDev[1].id)]_vars

\* A client's page pointer is never stale: it points to a page in the table,
\* and that page points back ("ipage is set only if we own that page").  Pages
\* are freed by listings and app lists, stolen and claimed in between.
PagePointers ==
    \A s \in Iwss : iws[s].ipage # NoPage =>
        /\ iws[s].live
        /\ iws[s].ipage \in DOMAIN pages
        /\ pages[iws[s].ipage].iws = s
        /\ pages[iws[s].ipage].sender = iws[s].id

\* Page numbers, which are in the URLs that users keep, denote one page for as
\* long as it is listed and are never used for another one.
PageNumsStable ==
    [][/\ \A n \in DOMAIN pages \cap DOMAIN pages' : pages'[n].id = pages[n].id
       /\ \A n \in DOMAIN pages' \ DOMAIN pages : n > maxPageNum]_<<pages, maxPageNum>>

\* A page of the device has one number.
OneNumPerPage ==
    \A m, n \in DOMAIN pages : pages[m].id = pages[n].id => m = n

\* "set if being inspected, limit one client per page; owner is
\* iport->ws_id_to_iws": the client a page points to is connected.
OwnerIsConnected ==
    \A n \in DOMAIN pages : pages[n].iws # Null =>
        /\ HasWsId(Heap, pages[n].iws, pages[n].sender)
        /\ iws[pages[n].iws].ipage = n

\* What is left of it when another inspector claims pages: the client a page points
\* to is connected, if not any more the page's owner.  The code does not keep it: the
\* claim clears the client's pointer only (1392), and when the client closes, nothing
\* leads iwdp_iws_close from it to the page.
OwnerLives ==
    \A n \in DOMAIN pages : pages[n].iws # Null => iws[pages[n].iws].live

\* With every message delivered, the sessions at the device are the sessions
\* of the connected clients: none is left behind when a client closes, loses
\* its page or is told late, and no client waits on a session that is not there.
SessionsAgree ==
    up /\ toDev = <<>> /\ fromDev = <<>> =>
        \A pg \in PageIds, id \in WsIds :
            dev[pg] = id <=> \E s \in Iwss : /\ HasWsId(Heap, s, id)
                                             /\ iws[s].ipage \in NumOf(pg)

\* With every message delivered, the table lists the pages of the device.
ListingsAgree ==
    up /\ toDev = <<>> /\ fromDev = <<>> =>
        \A pg \in PageIds : dev[pg] # Shut <=> NumOf(pg) # {}
=============================================================================
