--------------------------- MODULE DevtoolsProofs ---------------------------
(***************************************************************************)
(* Theorems about the sessions of a device, for any apps, pages, clients   *)
(* and ws_ids, and for any length of the queues.  What a single state      *)
(* shows follows from one inductive invariant, IInv: the types, with what  *)
(* may be in flight in both directions; Graph, the links between pages and *)
(* clients; AppKnown, that the device lists pages only of apps it said     *)
(* were connected; and, while no other inspector claims pages, NoRemote.   *)
(*                                                                         *)
(* First come lemmas about the handlers' helpers, as operators on a heap   *)
(* [pages, iws, sent]; then what rpc.c makes of the device's messages and  *)
(* what a queue gains and loses; then one lemma per handler or step of the *)
(* device, and the theorems.                                               *)
(*                                                                         *)
(* What holds once every message was delivered follows from InFlight: the  *)
(* messages on their way are steps of a path from what the proxy knows to  *)
(* what the device has, and, page by page, from the session the device has *)
(* to the one the table has.  Its lemmas say what one message more at the  *)
(* end of a queue, or the first one less, does to such a path; then come   *)
(* again the handlers and steps, and the theorems.                         *)
(***************************************************************************)
EXTENDS Devtools, SequenceTheorems, FiniteSetTheorems, TLAPS

\* The messages of the proxy to the device.
ToDev ==
    {GetListing(app) : app \in Apps}
    \cup {Setup(pg, id) : pg \in PageIds, id \in WsIds}
    \cup {DidClose(pg, id) : pg \in PageIds, id \in WsIds}

\* The messages of the device: news of apps, listings, data of a session, noise.
Listed == [id : PageIds, conn : {Us, Remote, Null}]
AppNews == [t : {"connected", "disconnected", "updated"}, app : Apps]
AppLists == [t : {"appList"}, apps : SUBSET Apps]
Listings == [t : {"listing"}, app : Apps, pages : SUBSET Listed]
AllData == [t : {"data"}, id : WsIds]
NoiseCalls == {Invalid, Call("reportSetup"), Call("ignored")}
FromDev ==
    AppNews \cup AppLists \cup Listings \cup AllData \cup {Noisy(m) : m \in NoiseCalls}

\* What the table holds for a page, and the memory of a client.
PageRecs == [id : PageIds, conn : {Us, Remote, Null}, sender : WsIds \cup {Null},
             iws : Iwss \cup {Null}]
IwsRecs == [live : BOOLEAN, id : WsIds \cup {Null}, st : {"http", "ws"}, ipage : Nat,
            pageNum : Nat, sentClose : BOOLEAN]

\* What is true of pages P, numbered to top, and clients C.
Graph(P, C, top) ==
    /\ P \in [DOMAIN P -> PageRecs] /\ DOMAIN P \subseteq 1..top
    /\ C \in [Iwss -> IwsRecs]
    /\ \A s \in Iwss : C[s].live => C[s].id \in WsIds
    /\ \A s \in Iwss : C[s].st = "http" => C[s].ipage = NoPage
    /\ \A s \in Iwss : C[s].ipage # NoPage =>
        /\ C[s].live
        /\ C[s].ipage \in DOMAIN P
        /\ P[C[s].ipage].iws = s
        /\ P[C[s].ipage].sender = C[s].id
    /\ \A m, n \in DOMAIN P : P[m].id = P[n].id => m = n

\* The client a page points to points back.
Owned(P, C) ==
    \A n \in DOMAIN P : P[n].iws # Null =>
        /\ C[P[n].iws].live /\ C[P[n].iws].id = P[n].sender
        /\ C[P[n].iws].ipage = n

-----------------------------------------------------------------------------

\* From pages P and clients C to Q and D: pages numbered ns are stopped, and may be freed.
Forgets(P, C, ns, Q, D) ==
    /\ DOMAIN Q \subseteq DOMAIN P /\ DOMAIN P \ ns \subseteq DOMAIN Q
    /\ Q \in [DOMAIN Q -> PageRecs] /\ D \in [Iwss -> IwsRecs]
    /\ \A n \in DOMAIN Q : Q[n].id = P[n].id /\ (n \notin ns => Q[n] = P[n])
    /\ \A s \in Iwss :
        /\ C[s].ipage \notin ns => D[s] = C[s]
        /\ C[s].ipage \in ns => D[s].ipage = NoPage
        /\ D[s].live = C[s].live /\ D[s].id = C[s].id
        /\ D[s].st = C[s].st /\ D[s].sentClose = C[s].sentClose
    /\ Owned(P, C) => \A n \in DOMAIN Q \cap ns : Q[n].iws = Null

\* Forgetting pages keeps the links in order (iwdp_stop_devtools, then iwdp_ipage_free).
LEMMA ForgetsKeeps ==
    ASSUME NEW P, NEW C, NEW top, Graph(P, C, top), NEW ns, NEW Q, NEW D, Forgets(P, C, ns, Q, D)
    PROVE  Graph(Q, D, top) /\ (Owned(P, C) => Owned(Q, D))
<1>1. ASSUME NEW s \in Iwss, D[s].ipage # NoPage
      PROVE  /\ D[s].live /\ D[s].ipage \in DOMAIN Q
             /\ Q[D[s].ipage].iws = s /\ Q[D[s].ipage].sender = D[s].id
  <2>1. D[s] = C[s] /\ C[s].ipage \notin ns
    BY <1>1 DEF Forgets
  <2>2. /\ C[s].live /\ C[s].ipage \in DOMAIN P
        /\ P[C[s].ipage].iws = s /\ P[C[s].ipage].sender = C[s].id
    BY <1>1, <2>1 DEF Graph
  <2> QED BY <2>1, <2>2 DEF Forgets
<1>2. \A m, n \in DOMAIN Q : Q[m].id = Q[n].id => m = n
  BY DEF Graph, Forgets
<1>3. \A s \in Iwss : /\ D[s].live => D[s].id \in WsIds
                      /\ D[s].st = "http" => D[s].ipage = NoPage
  BY DEF Graph, Forgets
<1>4. Graph(Q, D, top)
  BY <1>1, <1>2, <1>3 DEF Graph, Forgets
<1>5. ASSUME Owned(P, C), NEW n \in DOMAIN Q, Q[n].iws # Null
      PROVE  D[Q[n].iws].live /\ D[Q[n].iws].id = Q[n].sender /\ D[Q[n].iws].ipage = n
  <2>1. n \in DOMAIN P /\ n \notin ns /\ Q[n] = P[n]
    BY <1>5 DEF Forgets
  <2>2. P[n].iws \in Iwss
    BY <1>5, <2>1 DEF Graph, PageRecs
  <2>3. C[P[n].iws].live /\ C[P[n].iws].id = P[n].sender /\ C[P[n].iws].ipage = n
    BY <1>5, <2>1 DEF Owned
  <2> QED BY <2>1, <2>2, <2>3 DEF Forgets
<1> QED BY <1>4, <1>5 DEF Owned

\* iwdp_stop_devtools forgets one page at most and sends at most one message, whichever of
\* its early returns is taken.
LEMMA StopForgets ==
    ASSUME NEW h, NEW top, Graph(h.pages, h.iws, top), NEW n \in DOMAIN h.pages,
           h.sent \in Seq(ToDev), NEW r, r = StopDevtools(h, n)
    PROVE  /\ Forgets(h.pages, h.iws, {n}, r.pages, r.iws)
           /\ DOMAIN r.pages = DOMAIN h.pages
           /\ r.sent = h.sent \/ \E m \in ToDev : r.sent = Append(h.sent, m)
           /\ r.sent \in Seq(ToDev)
<1> DEFINE s == h.pages[n].iws
<1>0. n # NoPage /\ NoPage \in Nat /\ h.pages[n] \in PageRecs
  BY DEF Graph, NoPage
<1>1. CASE s = Null \/ h.pages[n].sender = Null
           \/ h.iws[s].ipage # n \/ ~HasWsId(h, s, h.pages[n].sender)
  <2>1. r = h
    BY <1>1 DEF StopDevtools
  <2>2. \A c \in Iwss : h.iws[c].ipage # n
    BY <1>0, <1>1, NamesAssumption DEF Graph, HasWsId
  <2>3. Owned(h.pages, h.iws) => h.pages[n].iws = Null
    BY <1>0, <2>2 DEF Owned, PageRecs
  <2>4. /\ h.pages \in [DOMAIN h.pages -> PageRecs] /\ h.iws \in [Iwss -> IwsRecs]
        /\ \A c \in Iwss : h.iws[c].ipage \notin {n}
    BY <2>2 DEF Graph
  <2> QED BY <2>1, <2>3, <2>4 DEF Forgets
<1>2. CASE ~(s = Null \/ h.pages[n].sender = Null
             \/ h.iws[s].ipage # n \/ ~HasWsId(h, s, h.pages[n].sender))
  <2>1. s \in Iwss /\ h.iws[s].ipage = n /\ h.pages[n].sender \in WsIds /\ h.pages[n].id \in PageIds
    BY <1>0, <1>2 DEF PageRecs
  <2>2. h.iws[s] \in IwsRecs
    BY <2>1 DEF Graph
  <2>3. PICK p \in PageRecs : p = [h.pages[n] EXCEPT !.iws = Null, !.sender = Null]
    BY <1>0 DEF PageRecs
  <2>4. p.id = h.pages[n].id /\ p.iws = Null
    BY <1>0, <2>3 DEF PageRecs
  <2>5. PICK e \in IwsRecs : e = [h.iws[s] EXCEPT !.ipage = NoPage, !.pageNum = NoPage]
    BY <1>0, <2>2 DEF IwsRecs
  <2>6. /\ e.ipage = NoPage /\ e.live = h.iws[s].live /\ e.id = h.iws[s].id
        /\ e.st = h.iws[s].st /\ e.sentClose = h.iws[s].sentClose
    BY <2>2, <2>5 DEF IwsRecs
  <2>7. PICK m \in ToDev : m = DidClose(h.pages[n].id, h.pages[n].sender)
    BY <2>1 DEF ToDev
  <2>8. /\ r.pages = [h.pages EXCEPT ![n] = p] /\ r.iws = [h.iws EXCEPT ![s] = e]
        /\ r.sent = h.sent \/ r.sent = Append(h.sent, m)
    BY <1>2, <2>3, <2>5, <2>7 DEF StopDevtools
  <2>9. /\ r.pages \in [DOMAIN h.pages -> PageRecs] /\ r.pages[n] = p
        /\ \A k \in DOMAIN h.pages : k # n => r.pages[k] = h.pages[k]
    BY <2>8 DEF Graph
  <2>10. /\ r.iws \in [Iwss -> IwsRecs] /\ r.iws[s] = e
         /\ \A c \in Iwss : c # s => r.iws[c] = h.iws[c]
    BY <2>1, <2>8 DEF Graph
  <2>11. \A c \in Iwss : h.iws[c].ipage = n => c = s
    BY <1>0 DEF Graph
  <2>12. DOMAIN r.pages = DOMAIN h.pages
    BY <2>9
  <2>13. \A k \in DOMAIN h.pages : r.pages[k].id = h.pages[k].id
    BY <2>4, <2>9
  <2>14. \A c \in Iwss :
            /\ h.iws[c].ipage \notin {n} => r.iws[c] = h.iws[c]
            /\ h.iws[c].ipage \in {n} => r.iws[c].ipage = NoPage
            /\ r.iws[c].live = h.iws[c].live /\ r.iws[c].id = h.iws[c].id
            /\ r.iws[c].st = h.iws[c].st /\ r.iws[c].sentClose = h.iws[c].sentClose
    BY <2>1, <2>6, <2>10, <2>11
  <2>15. Forgets(h.pages, h.iws, {n}, r.pages, r.iws)
    <3>1. r.pages \in [DOMAIN r.pages -> PageRecs]
      BY <2>9, <2>12
    <3>2. \A k \in DOMAIN r.pages :
            r.pages[k].id = h.pages[k].id /\ (k \notin {n} => r.pages[k] = h.pages[k])
      BY <2>9, <2>12, <2>13
    <3>3. \A k \in DOMAIN r.pages \cap {n} : r.pages[k].iws = Null
      BY <2>4, <2>9
    <3> QED BY <2>10, <2>12, <2>14, <3>1, <3>2, <3>3 DEF Forgets
  <2>16. r.sent \in Seq(ToDev)
    <3>1. Append(h.sent, m) \in Seq(ToDev)
      BY AppendProperties
    <3> QED BY <2>8, <3>1
  <2> QED BY <2>8, <2>12, <2>15, <2>16
<1> QED BY <1>1, <1>2

\* A heap has three fields and no more.
Shaped(h) == h = [pages |-> h.pages, iws |-> h.iws, sent |-> h.sent]

\* iwdp_stop_devtools leaves a heap a heap.
LEMMA StopShape ==
    ASSUME NEW h, Shaped(h), NEW n, NEW r, r = StopDevtools(h, n)
    PROVE  Shaped(r)
BY DEF Shaped, StopDevtools

\* The memory of a client changes, the links stay.
LEMMA SameLinks ==
    ASSUME NEW P, NEW C, NEW top, Graph(P, C, top), NEW D \in [Iwss -> IwsRecs],
           \A s \in Iwss : /\ D[s].live = C[s].live /\ D[s].id = C[s].id
                           /\ D[s].ipage = C[s].ipage
                           /\ D[s].st = "http" => D[s].ipage = NoPage
    PROVE  Graph(P, D, top) /\ (Owned(P, C) => Owned(P, D))
<1>1. Graph(P, D, top)
  BY DEF Graph
<1>2. ASSUME Owned(P, C), NEW n \in DOMAIN P, P[n].iws # Null
      PROVE  D[P[n].iws].live /\ D[P[n].iws].id = P[n].sender /\ D[P[n].iws].ipage = n
  <2>1. P[n].iws \in Iwss
    BY <1>2 DEF Graph, PageRecs
  <2> QED BY <1>2, <2>1 DEF Owned
<1> QED BY <1>1, <1>2 DEF Owned

\* A client without a page comes, goes or changes.
LEMMA ClientChanges ==
    ASSUME NEW P, NEW C, NEW top, Graph(P, C, top), NEW s \in Iwss, C[s].ipage = NoPage,
           NEW e \in IwsRecs, e.ipage = NoPage, e.live => e.id \in WsIds,
           NEW D, D = [C EXCEPT ![s] = e]
    PROVE  Graph(P, D, top) /\ (Owned(P, C) => Owned(P, D))
<1>1. /\ D \in [Iwss -> IwsRecs] /\ D[s] = e
      /\ \A c \in Iwss : c # s => D[c] = C[c]
  BY DEF Graph
<1>2. Graph(P, D, top)
  BY <1>1 DEF Graph
<1>3. ASSUME Owned(P, C), NEW n \in DOMAIN P, P[n].iws # Null
      PROVE  D[P[n].iws].live /\ D[P[n].iws].id = P[n].sender /\ D[P[n].iws].ipage = n
  <2>1. P[n].iws \in Iwss /\ n # NoPage
    BY <1>3 DEF Graph, PageRecs, NoPage
  <2>2. C[P[n].iws].live /\ C[P[n].iws].id = P[n].sender /\ C[P[n].iws].ipage = n
    BY <1>3 DEF Owned
  <2> QED BY <1>1, <2>1, <2>2
<1> QED BY <1>2, <1>3 DEF Owned

\* A client that is not there is no member of any link.
LEMMA NoIwsRec == NoIws \in IwsRecs /\ NoIws.ipage = NoPage /\ ~NoIws.live
BY DEF NoIws, IwsRecs, NoPage

\* From h to r the links stay in order, and no page comes or changes its number.
Keeps(h, r, top) ==
    /\ Graph(r.pages, r.iws, top) /\ r.sent \in Seq(ToDev)
    /\ Owned(h.pages, h.iws) => Owned(r.pages, r.iws)
    /\ DOMAIN r.pages \subseteq DOMAIN h.pages
    /\ \A m \in DOMAIN r.pages : r.pages[m].id = h.pages[m].id

\* To close a client keeps the links in order, those of the others and of the pages.
LEMMA CloseKeeps ==
    ASSUME NEW h, Shaped(h), NEW top, Graph(h.pages, h.iws, top), h.sent \in Seq(ToDev),
           NEW s \in Iwss, NEW r, r = CloseIws(h, s)
    PROVE  Keeps(h, r, top)
<1> DEFINE n == h.iws[s].ipage
           owns == n # NoPage /\ h.pages[n].sender # Null /\ h.pages[n].iws = s
<1>1. PICK g : g = IF owns THEN StopDevtools(h, n) ELSE h
  OBVIOUS
<1>2. r = [g EXCEPT !.iws[s] = NoIws]
  BY <1>1 DEF CloseIws
<1>3. n # NoPage => owns /\ n \in DOMAIN h.pages
  BY NamesAssumption DEF Graph
<1>4. /\ Shaped(g) /\ Graph(g.pages, g.iws, top) /\ g.sent \in Seq(ToDev)
      /\ g.iws[s].ipage = NoPage
      /\ Owned(h.pages, h.iws) => Owned(g.pages, g.iws)
      /\ DOMAIN g.pages = DOMAIN h.pages
      /\ \A m \in DOMAIN h.pages : g.pages[m].id = h.pages[m].id
  <2>1. CASE n = NoPage
    <3>1. g = h
      BY <1>1, <2>1
    <3> QED BY <2>1, <3>1
  <2>2. CASE n # NoPage
    <3>1. g = StopDevtools(h, n) /\ n \in DOMAIN h.pages
      BY <1>1, <1>3, <2>2
    <3>2. Shaped(g)
      BY <3>1, StopShape
    <3>3. /\ Forgets(h.pages, h.iws, {n}, g.pages, g.iws)
          /\ DOMAIN g.pages = DOMAIN h.pages /\ g.sent \in Seq(ToDev)
      BY <3>1, StopForgets
    <3>4. Graph(g.pages, g.iws, top) /\ (Owned(h.pages, h.iws) => Owned(g.pages, g.iws))
      BY <3>3, ForgetsKeeps
    <3> QED BY <3>2, <3>3, <3>4 DEF Forgets
  <2> QED BY <2>1, <2>2
<1> HIDE DEF n, owns
<1>5. r.pages = g.pages /\ r.sent = g.sent /\ r.iws = [g.iws EXCEPT ![s] = NoIws]
  BY <1>2, <1>4 DEF Shaped
<1>6. Graph(g.pages, r.iws, top) /\ (Owned(g.pages, g.iws) => Owned(g.pages, r.iws))
  BY <1>4, <1>5, NoIwsRec, ClientChanges
<1> QED BY <1>4, <1>5, <1>6 DEF Keeps

\* Client s takes page n.
Takes(P, C, n, s, Q, D) ==
    /\ DOMAIN Q = DOMAIN P /\ Q \in [DOMAIN Q -> PageRecs] /\ D \in [Iwss -> IwsRecs]
    /\ \A k \in DOMAIN P : Q[k].id = P[k].id /\ (k # n => Q[k] = P[k])
    /\ Q[n].iws = s /\ Q[n].sender = C[s].id
    /\ \A c \in Iwss : c # s => D[c] = C[c]
    /\ D[s].live /\ D[s].id = C[s].id /\ D[s].ipage = n /\ D[s].st = "ws"

\* A client without a page takes one that no client has.
LEMMA TakesKeeps ==
    ASSUME NEW P, NEW C, NEW top, Graph(P, C, top), NEW n \in DOMAIN P, NEW s \in Iwss,
           C[s].id \in WsIds, C[s].ipage = NoPage, \A c \in Iwss : C[c].ipage # n,
           NEW Q, NEW D, Takes(P, C, n, s, Q, D)
    PROVE  Graph(Q, D, top) /\ (Owned(P, C) => Owned(Q, D))
<1> USE DEF Takes
<1>4. ASSUME NEW c \in Iwss, D[c].ipage # NoPage
      PROVE  /\ D[c].live /\ D[c].ipage \in DOMAIN Q
             /\ Q[D[c].ipage].iws = c /\ Q[D[c].ipage].sender = D[c].id
  <2>1. CASE c = s
    BY <2>1
  <2>2. CASE c # s
    <3>1. D[c] = C[c] /\ C[c].ipage # n
      BY <2>2
    <3>2. /\ C[c].live /\ C[c].ipage \in DOMAIN P
          /\ P[C[c].ipage].iws = c /\ P[C[c].ipage].sender = C[c].id
      BY <1>4, <3>1 DEF Graph
    <3> QED BY <3>1, <3>2
  <2> QED BY <2>1, <2>2
<1>5. \A k, l \in DOMAIN Q : Q[k].id = Q[l].id => k = l
  BY DEF Graph
<1>6. \A c \in Iwss : /\ D[c].live => D[c].id \in WsIds
                      /\ D[c].st = "http" => D[c].ipage = NoPage
  BY DEF Graph
<1>7. DOMAIN Q \subseteq 1..top /\ Q \in [DOMAIN Q -> PageRecs]
  BY DEF Graph
<1>8. Graph(Q, D, top)
  BY <1>4, <1>5, <1>6, <1>7 DEF Graph
<1>9. ASSUME Owned(P, C), NEW k \in DOMAIN Q, Q[k].iws # Null
      PROVE  D[Q[k].iws].live /\ D[Q[k].iws].id = Q[k].sender /\ D[Q[k].iws].ipage = k
  <2>1. CASE k = n
    BY <2>1
  <2>2. CASE k # n
    <3>1. k \in DOMAIN P /\ Q[k] = P[k] /\ k # NoPage
      BY <2>2 DEF Graph, NoPage
    <3>2. P[k].iws \in Iwss
      BY <1>9, <3>1 DEF Graph, PageRecs
    <3>3. C[P[k].iws].live /\ C[P[k].iws].id = P[k].sender /\ C[P[k].iws].ipage = k
      BY <1>9, <3>1 DEF Owned
    <3> QED BY <3>1, <3>2, <3>3
  <2> QED BY <2>1, <2>2
<1> QED BY <1>8, <1>9 DEF Owned

\* What a request for a page that is found does.
Started(h, n, s) == [StartDevtools(h, n, s) EXCEPT !.iws[s].st = "ws"]

\* Client s, which has no page, asks for page n.
MayStart(h, n, s, top) ==
    /\ Shaped(h) /\ Graph(h.pages, h.iws, top) /\ h.sent \in Seq(ToDev)
    /\ s \in Iwss /\ h.iws[s].live /\ h.iws[s].ipage = NoPage
    /\ n \in DOMAIN h.pages

\* iwdp_start_devtools keeps the links in order, though it may take the page from another
\* client, which is told so later.
LEMMA StartKeeps ==
    ASSUME NEW h, NEW n, NEW s, NEW top, MayStart(h, n, s, top)
    PROVE  Keeps(h, Started(h, n, s), top)
<1> SUFFICES ASSUME NEW r, r = Started(h, n, s) PROVE Keeps(h, r, top)
  OBVIOUS
<1> USE DEF MayStart
<1> DEFINE owner == h.pages[n].iws
<1>0. /\ n # NoPage /\ n \in Nat /\ NoPage \in Nat
      /\ h.pages[n] \in PageRecs /\ owner \in Iwss \cup {Null}
  BY DEF Graph, NoPage, PageRecs
<1>1. PICK g : g = IF owner = Null THEN h ELSE [StopDevtools(h, n) EXCEPT !.iws[owner].pageNum = n]
  OBVIOUS
<1>2. StartDevtools(h, n, s) =
        [pages |-> [g.pages EXCEPT ![n] = [@ EXCEPT !.iws = s, !.sender = g.iws[s].id]],
         iws   |-> [g.iws EXCEPT ![s] = [@ EXCEPT !.ipage = n, !.pageNum = n]],
         sent  |-> Append(g.sent, Setup(g.pages[n].id, g.iws[s].id))]
  BY <1>1 DEF StartDevtools
<1>3. /\ Shaped(g) /\ Graph(g.pages, g.iws, top) /\ g.sent \in Seq(ToDev)
      /\ \A c \in Iwss : g.iws[c].ipage # n
      /\ g.iws[s].live /\ g.iws[s].ipage = NoPage
      /\ Owned(h.pages, h.iws) => Owned(g.pages, g.iws)
      /\ DOMAIN g.pages = DOMAIN h.pages
      /\ \A m \in DOMAIN h.pages : g.pages[m].id = h.pages[m].id
  <2>1. CASE owner = Null
    <3>1. g = h
      BY <1>1, <2>1
    <3>2. \A c \in Iwss : h.iws[c].ipage # n
      BY <1>0, <2>1, NamesAssumption DEF Graph
    <3> QED BY <3>1, <3>2
  <2>2. CASE owner # Null
    <3>0. owner \in Iwss
      BY <1>0, <2>2
    <3>1. PICK f : f = StopDevtools(h, n)
      OBVIOUS
    <3>2. g = [f EXCEPT !.iws[owner].pageNum = n] /\ Shaped(f)
      BY <1>1, <2>2, <3>1, StopShape
    <3>3. /\ Forgets(h.pages, h.iws, {n}, f.pages, f.iws)
          /\ DOMAIN f.pages = DOMAIN h.pages /\ f.sent \in Seq(ToDev)
      BY <3>1, StopForgets
    <3>4. Graph(f.pages, f.iws, top) /\ (Owned(h.pages, h.iws) => Owned(f.pages, f.iws))
      BY <3>3, ForgetsKeeps
    <3>5. /\ Shaped(g) /\ g.pages = f.pages /\ g.sent = f.sent
          /\ g.iws = [f.iws EXCEPT ![owner] = [f.iws[owner] EXCEPT !.pageNum = n]]
      BY <3>2 DEF Shaped
    <3>6. f.iws \in [Iwss -> IwsRecs] /\ f.iws[owner] \in IwsRecs
      BY <3>0, <3>4 DEF Graph
    <3>7. PICK e \in IwsRecs : e = [f.iws[owner] EXCEPT !.pageNum = n]
      BY <1>0, <3>6 DEF IwsRecs
    <3>8. /\ e.live = f.iws[owner].live /\ e.id = f.iws[owner].id
          /\ e.ipage = f.iws[owner].ipage /\ e.st = f.iws[owner].st
      BY <3>6, <3>7 DEF IwsRecs
    <3>9. g.iws = [f.iws EXCEPT ![owner] = e]
      BY <3>5, <3>7
    <3>10. /\ g.iws \in [Iwss -> IwsRecs]
           /\ \A c \in Iwss : /\ g.iws[c].live = f.iws[c].live /\ g.iws[c].id = f.iws[c].id
                              /\ g.iws[c].ipage = f.iws[c].ipage
                              /\ g.iws[c].st = f.iws[c].st
      BY <3>0, <3>6, <3>8, <3>9
    <3>11. \A c \in Iwss : g.iws[c].st = "http" => g.iws[c].ipage = NoPage
      BY <3>4, <3>10 DEF Graph
    <3>12. Graph(f.pages, g.iws, top) /\ (Owned(f.pages, f.iws) => Owned(f.pages, g.iws))
      BY <3>4, <3>10, <3>11, SameLinks
    <3>13. \A c \in Iwss : g.iws[c].ipage # n
      BY <1>0, <3>3, <3>10 DEF Forgets
    <3>14. g.iws[s].live /\ g.iws[s].ipage = NoPage
      BY <1>0, <3>3, <3>10 DEF Forgets
    <3>15. \A m \in DOMAIN h.pages : f.pages[m].id = h.pages[m].id
      BY <3>3 DEF Forgets
    <3>16. /\ Shaped(g) /\ g.pages = f.pages /\ g.sent = f.sent
      BY <3>5
    <3>17. Graph(g.pages, g.iws, top) /\ (Owned(h.pages, h.iws) => Owned(g.pages, g.iws))
      BY <3>4, <3>12, <3>16
    <3> QED BY <3>3, <3>13, <3>14, <3>15, <3>16, <3>17
  <2> QED BY <2>1, <2>2
<1> HIDE DEF owner
<1>4. /\ g.pages[n] \in PageRecs /\ g.iws[s] \in IwsRecs
      /\ g.iws[s].id \in WsIds /\ g.pages[n].id \in PageIds
  BY <1>3 DEF Graph, PageRecs
<1>5. PICK p \in PageRecs : p = [g.pages[n] EXCEPT !.iws = s, !.sender = g.iws[s].id]
  BY <1>4 DEF PageRecs
<1>6. p.id = g.pages[n].id /\ p.iws = s /\ p.sender = g.iws[s].id
  BY <1>4, <1>5 DEF PageRecs
<1>7. PICK d \in IwsRecs : d = [g.iws[s] EXCEPT !.ipage = n, !.pageNum = n]
  BY <1>0, <1>4 DEF IwsRecs
<1>8. PICK e \in IwsRecs : e = [d EXCEPT !.st = "ws"]
  BY <1>0, <1>4 DEF IwsRecs
<1>9. e.ipage = n /\ e.st = "ws" /\ e.live = g.iws[s].live /\ e.id = g.iws[s].id
  BY <1>4, <1>7, <1>8 DEF IwsRecs
<1>10. PICK m \in ToDev : m = Setup(g.pages[n].id, g.iws[s].id)
  BY <1>4 DEF ToDev
<1>11. StartDevtools(h, n, s) = [pages |-> [g.pages EXCEPT ![n] = p],
                                 iws |-> [g.iws EXCEPT ![s] = d], sent |-> Append(g.sent, m)]
  BY <1>2, <1>5, <1>7, <1>10
<1>12. [[g.iws EXCEPT ![s] = d] EXCEPT ![s].st = "ws"] = [g.iws EXCEPT ![s] = e]
  BY <1>3, <1>8 DEF Graph
<1>13. /\ r.pages = [g.pages EXCEPT ![n] = p] /\ r.iws = [g.iws EXCEPT ![s] = e]
       /\ r.sent = Append(g.sent, m)
  <2>1. PICK f : f = StartDevtools(h, n, s)
    OBVIOUS
  <2>2. r = [f EXCEPT !.iws[s].st = "ws"]
    BY <2>1 DEF Started
  <2> QED BY <1>11, <1>12, <2>1, <2>2
<1>14. Append(g.sent, m) \in Seq(ToDev)
  BY <1>3, AppendProperties
<1>15. PICK P, C, Q, D : /\ P = g.pages /\ C = g.iws
                         /\ Q = [P EXCEPT ![n] = p] /\ D = [C EXCEPT ![s] = e]
  OBVIOUS
<1>16. /\ Graph(Q, D, top) /\ (Owned(P, C) => Owned(Q, D))
       /\ DOMAIN Q = DOMAIN P /\ \A k \in DOMAIN P : Q[k].id = P[k].id
  <2>1. /\ Graph(P, C, top) /\ n \in DOMAIN P
        /\ C[s].id \in WsIds /\ C[s].ipage = NoPage /\ \A c \in Iwss : C[c].ipage # n
    BY <1>3, <1>4, <1>15
  <2>2. P \in [DOMAIN P -> PageRecs] /\ C \in [Iwss -> IwsRecs]
    BY <2>1 DEF Graph
  <2>3. /\ DOMAIN Q = DOMAIN P /\ Q \in [DOMAIN Q -> PageRecs] /\ Q[n] = p
        /\ \A k \in DOMAIN P : k # n => Q[k] = P[k]
    BY <1>15, <2>1, <2>2
  <2>4. /\ D \in [Iwss -> IwsRecs] /\ D[s] = e
        /\ \A c \in Iwss : c # s => D[c] = C[c]
    BY <1>15, <2>2
  <2>5. p.id = P[n].id /\ p.iws = s /\ p.sender = C[s].id
    BY <1>6, <1>15
  <2>6. e.ipage = n /\ e.st = "ws" /\ e.live /\ e.id = C[s].id
    BY <1>3, <1>9, <1>15
  <2>7. Takes(P, C, n, s, Q, D)
    BY <2>3, <2>4, <2>5, <2>6 DEF Takes
  <2>8. Graph(Q, D, top) /\ (Owned(P, C) => Owned(Q, D))
    BY <2>1, <2>7, TakesKeeps
  <2> QED BY <2>7, <2>8 DEF Takes
<1>17. PICK q \in Seq(ToDev) : q = Append(g.sent, m)
  BY <1>14
<1>18. r.pages = Q /\ r.iws = D /\ r.sent = q
  BY <1>13, <1>15, <1>17
<1>19. Owned(h.pages, h.iws) => Owned(Q, D)
  BY <1>3, <1>15, <1>16
<1>20. DOMAIN Q = DOMAIN h.pages /\ \A k \in DOMAIN h.pages : Q[k].id = h.pages[k].id
  BY <1>3, <1>15, <1>16
<1> QED BY <1>16, <1>18, <1>19, <1>20 DEF Keeps

\* The entries of a finite hash table come in a sequence.
LEMMA OrderSeq ==
    ASSUME NEW S, IsFiniteSet(S), NEW order \in Orders(S)
    PROVE  \E k \in Nat : order \in [1..k -> S]
BY FS_CardinalityType DEF Orders

\* There are finitely many page numbers.
LEMMA NumbersFinite ==
    ASSUME NEW top \in Nat, NEW ns \in SUBSET (1..top)
    PROVE  IsFiniteSet(ns)
<1>1. IsFiniteSet(1..top)
  BY FS_Interval
<1> QED BY <1>1, FS_Subset

\* To stop and free some pages, in any order, keeps the links in order.
LEMMA DropKeeps ==
    ASSUME NEW h, Shaped(h), NEW top \in Nat, Graph(h.pages, h.iws, top), h.sent \in Seq(ToDev),
           NEW ns, ns \subseteq DOMAIN h.pages, NEW r \in DropPages(h, ns)
    PROVE  Shaped(r) /\ Keeps(h, r, top)
<1> DEFINE stopped(n) == StopDevtools([h EXCEPT !.sent = <<>>], n)
           S == {n \in ns : stopped(n).sent # <<>>}
<1>1. PICK order \in Orders(S) :
        r = [pages |-> [n \in DOMAIN h.pages \ ns |-> h.pages[n]],
             iws   |-> [s \in Iwss |-> IF h.iws[s].ipage \in ns THEN stopped(h.iws[s].ipage).iws[s]
                                      ELSE h.iws[s]],
             sent  |-> h.sent \o [i \in DOMAIN order |-> stopped(order[i]).sent[1]]]
  BY DEF DropPages
<1>2. ASSUME NEW n \in ns
      PROVE  /\ Forgets(h.pages, h.iws, {n}, stopped(n).pages, stopped(n).iws)
             /\ stopped(n).sent = <<>> \/ \E m \in ToDev : stopped(n).sent = <<m>>
  <2>1. PICK z : z = [h EXCEPT !.sent = <<>>]
    OBVIOUS
  <2>2. z.pages = h.pages /\ z.iws = h.iws /\ z.sent = <<>>
    BY <2>1 DEF Shaped
  <2>3. PICK f : f = StopDevtools(z, n)
    OBVIOUS
  <2>4. /\ Forgets(z.pages, z.iws, {n}, f.pages, f.iws)
        /\ f.sent = z.sent \/ \E m \in ToDev : f.sent = Append(z.sent, m)
    <3>1. Graph(z.pages, z.iws, top) /\ n \in DOMAIN z.pages /\ z.sent \in Seq(ToDev)
      BY <2>2
    <3> QED BY <2>3, <3>1, StopForgets
  <2>5. f = stopped(n)
    BY <2>1, <2>3
  <2>6. \A m : Append(<<>>, m) = <<m>>
    OBVIOUS
  <2> QED BY <2>2, <2>4, <2>5, <2>6
<1> HIDE DEF stopped
<1>3. Forgets(h.pages, h.iws, ns, r.pages, r.iws)
  <2>1. DOMAIN r.pages = DOMAIN h.pages \ ns /\ \A n \in DOMAIN r.pages : r.pages[n] = h.pages[n]
    BY <1>1
  <2>2. r.pages \in [DOMAIN r.pages -> PageRecs]
    BY <1>1, <2>1 DEF Graph
  <2>3. ASSUME NEW s \in Iwss
        PROVE  /\ r.iws[s] \in IwsRecs
               /\ h.iws[s].ipage \notin ns => r.iws[s] = h.iws[s]
               /\ h.iws[s].ipage \in ns => r.iws[s].ipage = NoPage
               /\ r.iws[s].live = h.iws[s].live /\ r.iws[s].id = h.iws[s].id
               /\ r.iws[s].st = h.iws[s].st /\ r.iws[s].sentClose = h.iws[s].sentClose
    <3>1. CASE h.iws[s].ipage \notin ns
      <4>1. r.iws[s] = h.iws[s]
        BY <1>1, <3>1
      <4> QED BY <3>1, <4>1 DEF Graph
    <3>2. CASE h.iws[s].ipage \in ns
      <4>1. r.iws[s] = stopped(h.iws[s].ipage).iws[s]
        BY <1>1, <3>2
      <4>2. Forgets(h.pages, h.iws, {h.iws[s].ipage}, stopped(h.iws[s].ipage).pages,
                    stopped(h.iws[s].ipage).iws)
        BY <1>2, <3>2
      <4> QED BY <3>2, <4>1, <4>2 DEF Forgets
    <3> QED BY <3>1, <3>2
  <2>4. r.iws \in [Iwss -> IwsRecs]
    <3>1. DOMAIN r.iws = Iwss /\ r.iws = [s \in Iwss |-> r.iws[s]]
      BY <1>1
    <3> QED BY <2>3, <3>1
  <2> QED BY <2>1, <2>2, <2>3, <2>4 DEF Forgets
<1>4. r.sent \in Seq(ToDev)
  <2>1. IsFiniteSet(S)
    BY NumbersFinite DEF Graph
  <2>2. PICK k \in Nat : order \in [1..k -> S]
    BY <2>1, OrderSeq
  <2>3. PICK q : q = [i \in 1..k |-> stopped(order[i]).sent[1]]
    OBVIOUS
  <2>4. ASSUME NEW i \in 1..k PROVE q[i] \in ToDev
    <3>1. order[i] \in ns /\ stopped(order[i]).sent # <<>>
      BY <2>2
    <3>2. PICK m \in ToDev : stopped(order[i]).sent = <<m>>
      BY <1>2, <3>1
    <3> QED BY <2>3, <3>2
  <2>5. q \in Seq(ToDev)
    BY <2>3, <2>4, SeqDef
  <2>6. r.sent = h.sent \o q
    BY <1>1, <2>2, <2>3
  <2> QED BY <2>5, <2>6, ConcatProperties
<1>5. Shaped(r)
  BY <1>1 DEF Shaped
<1>6. Graph(r.pages, r.iws, top) /\ (Owned(h.pages, h.iws) => Owned(r.pages, r.iws))
  BY <1>3, ForgetsKeeps
<1> QED BY <1>3, <1>4, <1>5, <1>6 DEF Forgets, Keeps

\* What a listing makes of the table before old pages are dropped.
LEMMA RelistedKeeps ==
    ASSUME Graph(pages, iws, maxPageNum), maxPageNum \in Nat, NEW listed \in SUBSET Listed,
           NEW number \in [NewPages(listed) -> FreshNums(Cardinality(NewPages(listed)))],
           \A p, q \in NewPages(listed) : p # q => number[p] # number[q],
           NEW P, P = Relisted(listed, number),
           NEW C, C = [s \in Iwss |-> IF s \in Claimed(listed) THEN [iws[s] EXCEPT !.ipage = NoPage]
                                      ELSE iws[s]]
    PROVE  /\ maxPageNum + Cardinality(NewPages(listed)) \in Nat
           /\ Graph(P, C, maxPageNum + Cardinality(NewPages(listed)))
           /\ \A n \in DOMAIN pages : n \in DOMAIN P /\ P[n].id = pages[n].id
           /\ \A n \in DOMAIN P \ DOMAIN pages : n > maxPageNum
           /\ (\A l \in listed : l.conn # Remote) /\ Owned(pages, iws) => Owned(P, C)
<1> DEFINE new == NewPages(listed)
           k == Cardinality(new)
           connOf(pg) == (CHOOSE l \in listed : l.id = pg).conn
<1>1. new \subseteq PageIds /\ \A pg \in new : NumOf(pg) = {} /\ \E l \in listed : l.id = pg
  BY DEF NewPages, Listed
<1>2. k \in Nat
  BY <1>1, FiniteAssumption, FS_Subset, FS_CardinalityType
<1>3. ASSUME NEW pg, \E l \in listed : l.id = pg PROVE connOf(pg) \in {Us, Remote, Null}
  BY <1>3 DEF Listed
<1> HIDE DEF k, connOf
<1>4. ASSUME NEW pg \in new PROVE number[pg] \in (maxPageNum + 1)..(maxPageNum + k)
  BY DEF FreshNums, k
<1>5. \A n \in DOMAIN pages : n \in 1..maxPageNum /\ pages[n] \in PageRecs
  BY DEF Graph
<1>6. DOMAIN P = DOMAIN pages \cup {number[pg] : pg \in new}
  BY DEF Relisted
<1>7. ASSUME NEW n \in DOMAIN pages
      PROVE  /\ P[n] \in PageRecs
             /\ P[n].id = pages[n].id /\ P[n].iws = pages[n].iws /\ P[n].sender = pages[n].sender
  <2>1. P[n] = IF pages[n].id \in {l.id : l \in listed}
               THEN [pages[n] EXCEPT !.conn = connOf(pages[n].id)] ELSE pages[n]
    BY <1>6 DEF Relisted, connOf
  <2>2. CASE pages[n].id \in {l.id : l \in listed}
    <3>1. connOf(pages[n].id) \in {Us, Remote, Null}
      BY <1>3, <2>2
    <3>2. P[n] = [pages[n] EXCEPT !.conn = connOf(pages[n].id)] /\ pages[n] \in PageRecs
      BY <1>5, <2>1, <2>2
    <3> QED BY <3>1, <3>2 DEF PageRecs
  <2>3. CASE pages[n].id \notin {l.id : l \in listed}
    BY <1>5, <2>1, <2>3
  <2> QED BY <2>2, <2>3
<1>8. ASSUME NEW n \in DOMAIN P \ DOMAIN pages
      PROVE  /\ P[n] \in PageRecs /\ P[n].iws = Null /\ P[n].id \in new /\ number[P[n].id] = n
             /\ n \in (maxPageNum + 1)..(maxPageNum + k)
  <2>1. \E pg \in DOMAIN number : number[pg] = n
    BY <1>6, <1>8
  <2>2. PICK pg : pg = CHOOSE q \in DOMAIN number : number[q] = n
    OBVIOUS
  <2>3. pg \in new /\ number[pg] = n
    BY <2>1, <2>2
  <2>4. P[n] = [id |-> pg, conn |-> connOf(pg), sender |-> Null, iws |-> Null]
    BY <1>6, <1>8, <2>2 DEF Relisted, connOf
  <2>5. connOf(pg) \in {Us, Remote, Null} /\ pg \in PageIds
    BY <1>1, <1>3, <2>3
  <2> QED BY <1>4, <2>3, <2>4, <2>5 DEF PageRecs
<1>9. P \in [DOMAIN P -> PageRecs]
  <2>1. P = [n \in DOMAIN P |-> P[n]]
    BY DEF Relisted
  <2> QED BY <1>7, <1>8, <2>1
<1>10. DOMAIN P \subseteq 1..(maxPageNum + k)
  BY <1>2, <1>5, <1>8
<1>11. ASSUME NEW m \in DOMAIN P, NEW n \in DOMAIN P, P[m].id = P[n].id PROVE m = n
  <2>1. \A i \in DOMAIN pages : pages[i].id \notin new
    BY <1>1 DEF NumOf
  <2>2. CASE m \in DOMAIN pages /\ n \in DOMAIN pages
    BY <1>7, <1>11, <2>2 DEF Graph
  <2>3. CASE m \notin DOMAIN pages /\ n \notin DOMAIN pages
    BY <1>8, <1>11, <2>3
  <2> QED BY <1>7, <1>8, <1>11, <2>1, <2>2, <2>3
<1>12. ASSUME NEW s \in Iwss
       PROVE  /\ C[s] \in IwsRecs /\ C[s].ipage \in {NoPage, iws[s].ipage}
              /\ C[s].live = iws[s].live /\ C[s].id = iws[s].id /\ C[s].st = iws[s].st
              /\ s \notin Claimed(listed) => C[s] = iws[s]
  <2>1. iws[s] \in IwsRecs
    BY DEF Graph
  <2>2. C[s] = IF s \in Claimed(listed) THEN [iws[s] EXCEPT !.ipage = NoPage] ELSE iws[s]
    OBVIOUS
  <2> QED BY <2>1, <2>2 DEF IwsRecs, NoPage
<1>13. C \in [Iwss -> IwsRecs]
  BY <1>12
<1>14. ASSUME NEW s \in Iwss, C[s].ipage # NoPage
       PROVE  /\ C[s].live /\ C[s].ipage \in DOMAIN P
              /\ P[C[s].ipage].iws = s /\ P[C[s].ipage].sender = C[s].id
  <2>1. iws[s].ipage # NoPage /\ C[s].ipage = iws[s].ipage
    BY <1>12, <1>14
  <2>2. /\ iws[s].live /\ iws[s].ipage \in DOMAIN pages
        /\ pages[iws[s].ipage].iws = s /\ pages[iws[s].ipage].sender = iws[s].id
    BY <2>1 DEF Graph
  <2> QED BY <1>6, <1>7, <1>12, <2>1, <2>2
<1>15. \A s \in Iwss : /\ C[s].live => C[s].id \in WsIds
                       /\ C[s].st = "http" => C[s].ipage = NoPage
  BY <1>12 DEF Graph
<1>16. Graph(P, C, maxPageNum + k)
  BY <1>9, <1>10, <1>11, <1>13, <1>14, <1>15 DEF Graph
<1>17. ASSUME \A l \in listed : l.conn # Remote, Owned(pages, iws),
              NEW n \in DOMAIN P, P[n].iws # Null
       PROVE  C[P[n].iws].live /\ C[P[n].iws].id = P[n].sender /\ C[P[n].iws].ipage = n
  <2>1. n \in DOMAIN pages /\ P[n].iws = pages[n].iws /\ P[n].sender = pages[n].sender
    BY <1>7, <1>8, <1>17
  <2>2. /\ iws[pages[n].iws].live /\ iws[pages[n].iws].id = pages[n].sender
        /\ iws[pages[n].iws].ipage = n
    BY <1>17, <2>1 DEF Owned
  <2>3. pages[n].iws \in Iwss
    BY <1>5, <1>17, <2>1 DEF PageRecs
  <2>4. pages[n].iws \notin Claimed(listed)
    BY <1>17 DEF Claimed
  <2> QED BY <1>12, <2>1, <2>2, <2>3, <2>4
<1>18. (\A l \in listed : l.conn # Remote) /\ Owned(pages, iws) => Owned(P, C)
  BY <1>17 DEF Owned
<1>19. \A n \in DOMAIN P \ DOMAIN pages : n > maxPageNum
  BY <1>2, <1>8
<1> QED BY <1>2, <1>6, <1>7, <1>16, <1>18, <1>19 DEF k, new

-----------------------------------------------------------------------------
(* What rpc.c makes of the messages of the device.                         *)

\* A message of the device is converted as rpc_recv_msg does.
LEMMA MessageDecoded ==
    ASSUME NEW selector, NEW argument
    PROVE  Message(selector, argument) = RecvMsg(selector, argument)
<1> DEFINE f == [key \in {"__selector", "__argument"} |->
                    IF key = "__selector" THEN Text(selector) ELSE argument]
<1>1. /\ Item(Node("dict", f), "__selector") = Text(selector)
      /\ Item(Node("dict", f), "__argument") = argument
  BY DEF Item, Node
<1> QED BY <1>1 DEF Message, RecvPlist, Text, Node

\* rpc_parse_app understands what the device says of an app.
LEMMA AppDecoded ==
    ASSUME NEW app
    PROVE  IsApp(AppNode(app)) /\ AppId(AppNode(app)) = app
BY DEF IsApp, AppId, AppNode, HasRequired, HasOptional, Item, Node, Text

\* An app that starts, quits or changes is understood.
LEMMA AppMessages ==
    ASSUME NEW app \in Apps
    PROVE  /\ Message("_rpc_applicationConnected:", AppNode(app)) = AppCall("connected", app)
           /\ Message("_rpc_applicationDisconnected:", AppNode(app)) = AppCall("disconnected", app)
           /\ Message("_rpc_applicationUpdated:", AppNode(app)) = AppCall("updated", app)
<1>1. IsUpdate(AppNode(app))
  BY DEF IsUpdate, AppNode, HasRequired, Item, Node, Text
<1> QED BY <1>1, MessageDecoded, AppDecoded DEF RecvMsg

\* The list of apps is understood.
LEMMA AppListMessage ==
    ASSUME NEW list \in SUBSET Apps
    PROVE  Message("_rpc_reportConnectedApplicationList:",
              Node("dict", [WIRApplicationDictionaryKey |->
                                Node("dict", [app \in list |-> AppNode(app)])])) = AppList(list)
<1> DEFINE f == [app \in list |-> AppNode(app)]
           args == Node("dict", [WIRApplicationDictionaryKey |-> Node("dict", f)])
<1>1. Item(args, "WIRApplicationDictionaryKey") = Node("dict", f)
  BY DEF Item, Node
<1>2. AreApps(Node("dict", f))
  BY AppDecoded DEF AreApps, Node
<1>3. DOMAIN Node("dict", f).value = list
  BY DEF Node
<1> HIDE DEF args
<1>4. RecvMsg("_rpc_reportConnectedApplicationList:", args) = AppList(list)
  BY <1>1, <1>2, <1>3 DEF RecvMsg
<1> QED BY <1>4, MessageDecoded DEF args

\* Data for a client is understood.
LEMMA DataMessage ==
    ASSUME NEW app, NEW id
    PROVE  Message("_rpc_applicationSentData:",
              Node("dict", [WIRApplicationIdentifierKey |-> Text(app),
                            WIRDestinationKey |-> Text(id),
                            WIRMessageDataKey |-> Node("data", Null)])) = Data(id)
<1> DEFINE args == Node("dict", [WIRApplicationIdentifierKey |-> Text(app),
                                 WIRDestinationKey |-> Text(id),
                                 WIRMessageDataKey |-> Node("data", Null)])
<1>1. IsData(args) /\ Item(args, "WIRDestinationKey").value = id
  BY DEF IsData, HasRequired, Item, Node, Text
<1> HIDE DEF args
<1>2. RecvMsg("_rpc_applicationSentData:", args) = Data(id)
  BY <1>1 DEF RecvMsg
<1> QED BY <1>2, MessageDecoded DEF args

\* rpc_parse_page understands what the device says of a page.
LEMMA PageDecoded ==
    ASSUME NEW pg, NEW conn
    PROVE  IsPage(PageNode(pg, conn)) /\ PageOf(PageNode(pg, conn)) = [id |-> pg, conn |-> conn]
<1> DEFINE keys == {"WIRPageIdentifierKey", "WIRTitleKey", "WIRURLKey"} \cup
                   (IF conn = Null THEN {} ELSE {"WIRConnectionIdentifierKey"})
           f == [key \in keys |->
                    IF key = "WIRPageIdentifierKey" THEN Node("uint", pg)
                    ELSE Text(IF key = "WIRConnectionIdentifierKey" THEN conn ELSE "text")]
           node == Node("dict", f)
<1>1. node = PageNode(pg, conn) /\ node.type = "dict" /\ node.value = f
  BY DEF PageNode, Node
<1>2. Item(node, "WIRPageIdentifierKey") = Node("uint", pg)
  BY <1>1 DEF Item
<1>3. Item(node, "WIRTitleKey") = Text("text") /\ Item(node, "WIRURLKey") = Text("text")
  BY <1>1 DEF Item
<1>4. Item(node, "WIRConnectionIdentifierKey") = IF conn = Null THEN NoNode ELSE Text(conn)
  BY <1>1 DEF Item
<1> HIDE DEF node
<1>5. IsPage(node)
  BY <1>1, <1>2, <1>3, <1>4 DEF IsPage, HasRequired, HasOptional, Node, Text, NoNode
<1>6. PageOf(node) = [id |-> pg, conn |-> conn]
  BY <1>2, <1>4 DEF PageOf, Node, Text, NoNode
<1> QED BY <1>1, <1>5, <1>6

\* A listing is understood, page by page: nothing in it is refused.
LEMMA ListingMessage ==
    ASSUME NEW app \in Apps, NEW d
    PROVE  ListingOf(app, d) =
                Listing(app, {[id |-> pg, conn |-> ConnOf(d[pg])] :
                                pg \in {q \in PageIds : AppOf[q] = app /\ d[q] # Shut}})
<1> DEFINE pgs == {q \in PageIds : AppOf[q] = app /\ d[q] # Shut}
           f == [pg \in pgs |-> PageNode(pg, ConnOf(d[pg]))]
           args == Node("dict", [WIRApplicationIdentifierKey |-> Text(app),
                                 WIRListingKey |-> Node("dict", f)])
<1>1. /\ Item(args, "WIRListingKey") = Node("dict", f)
      /\ HasRequired(args, "WIRApplicationIdentifierKey", "string") /\ AppId(args) = app
  BY DEF Item, Node, Text, HasRequired, AppId
<1>2. \A pg \in pgs : IsPage(f[pg]) /\ PageOf(f[pg]) = [id |-> pg, conn |-> ConnOf(d[pg])]
  BY PageDecoded
<1>3. DOMAIN f = pgs /\ Node("dict", f).value = f /\ Node("dict", f).type = "dict"
  BY DEF Node
<1> HIDE DEF f
<1>4. ArePages(Node("dict", f))
  <2>1. ASSUME NEW pg \in pgs PROVE PageOf(f[pg]).id = pg
    <3>1. PageOf(f[pg]) = [id |-> pg, conn |-> ConnOf(d[pg])]
      BY <1>2
    <3> QED BY <3>1
  <2> QED BY <1>2, <1>3, <2>1 DEF ArePages
<1>5. {PageOf(f[pg]) : pg \in pgs} = {[id |-> pg, conn |-> ConnOf(d[pg])] : pg \in pgs}
  BY <1>2
<1> HIDE DEF args, pgs
<1>6. RecvMsg("_rpc_applicationSentListing:", args) =
        Listing(app, {PageOf(f[pg]) : pg \in pgs})
  BY <1>1, <1>3, <1>4 DEF RecvMsg, IsListing
<1>7. RecvMsg("_rpc_applicationSentListing:", args) = ListingOf(app, d)
  BY MessageDecoded DEF ListingOf, args, f, pgs
<1> QED BY <1>5, <1>6, <1>7 DEF pgs

-----------------------------------------------------------------------------
(* The invariant.                                                          *)

\* What the variables hold, the links apart.
Types ==
    /\ up \in BOOLEAN /\ apps \subseteq Apps /\ lastApp \in Apps \cup {Null}
    /\ maxPageNum \in Nat
    /\ running \subseteq Apps /\ dev \in [PageIds -> WsIds \cup {Shut, Null, Remote}]
    /\ toDev \in Seq(ToDev) /\ fromDev \in Seq(FromDev)

\* An app runs as long as it has pages; an app was connected before it lists pages, so when
\* a listing comes there is an app to ask for the next one.
AppKnown ==
    /\ \A pg \in PageIds : dev[pg] # Shut => AppOf[pg] \in running
    /\ lastApp = Null =>
        \/ running = {} /\ \A i \in 1..Len(fromDev) : fromDev[i].t # "listing"
        \/ \E i \in 1..Len(fromDev) :
            /\ fromDev[i].t = "connected"
            /\ \A j \in 1..(i - 1) : fromDev[j].t # "listing"

\* As long as no other inspector claims pages.
NoRemote ==
    ~RemoteClaims =>
    /\ \A pg \in PageIds : dev[pg] # Remote
    /\ \A i \in 1..Len(fromDev) : fromDev[i].t = "listing" =>
            \A l \in fromDev[i].pages : l.conn # Remote
    /\ Owned(pages, iws)

\* The inductive invariant.
IInv ==
    /\ Types
    /\ Graph(pages, iws, maxPageNum)
    /\ up => AppKnown
    /\ NoRemote

\* What PageNumsStable says of a step.
NumsKept ==
    /\ \A n \in DOMAIN pages \cap DOMAIN pages' : pages'[n].id = pages[n].id
    /\ \A n \in DOMAIN pages' \ DOMAIN pages : n > maxPageNum

\* What else the inspector sends is a message, and is marked.
LEMMA NoisyCalls ==
    ASSUME NEW m \in NoiseCalls
    PROVE  /\ Noisy(m) \in FromDev /\ "noise" \in DOMAIN Noisy(m)
           /\ Noisy(m).t \in {"invalid", "reportSetup", "ignored"}
<1>1. DOMAIN m = {"t"} /\ m.t \in {"invalid", "reportSetup", "ignored"}
  BY DEF NoiseCalls, Invalid, Call
<1>2. DOMAIN Noisy(m) = {"t", "noise"} /\ Noisy(m).t = m.t
  BY <1>1 DEF Noisy
<1> QED BY <1>1, <1>2 DEF FromDev

\* What a message is, by the handler it calls.
LEMMA MessageKinds ==
    ASSUME NEW m \in FromDev
    PROVE  /\ m.t \in {"connected", "disconnected", "updated"} => m.app \in Apps
           /\ m.t = "appList" => m.apps \in SUBSET Apps
           /\ m.t = "listing" => m.app \in Apps /\ m.pages \in SUBSET Listed
           /\ m.t = "data" => m.id \in WsIds
           /\ m.t = "invalid" => "noise" \in DOMAIN m
<1>1. CASE m \in AppNews
  BY <1>1 DEF AppNews
<1>2. CASE m \in AppLists
  BY <1>2 DEF AppLists
<1>3. CASE m \in Listings
  BY <1>3 DEF Listings
<1>4. CASE m \in AllData
  BY <1>4 DEF AllData
<1>5. CASE \E n \in NoiseCalls : m = Noisy(n)
  BY <1>5, NoisyCalls
<1> QED BY <1>1, <1>2, <1>3, <1>4, <1>5 DEF FromDev

\* What the device may send.
LEMMA DeviceSends ==
    /\ \A app \in Apps : \A t \in {"connected", "disconnected", "updated"} :
            AppCall(t, app) \in FromDev
    /\ \A list \in SUBSET Apps : AppList(list) \in FromDev
    /\ \A id \in WsIds : Data(id) \in FromDev
    /\ \A app \in Apps : \A ls \in SUBSET Listed : Listing(app, ls) \in FromDev
    /\ \A i \in DOMAIN Noise : Noisy(RecvPlist(Noise[i])) \in FromDev
<1>1. \A i \in DOMAIN Noise : Noisy(RecvPlist(Noise[i])) \in FromDev
  BY NoiseAssumption, NoisyCalls DEF NoiseCalls
<1>2. \A app \in Apps : \A t \in {"connected", "disconnected", "updated"} :
            AppCall(t, app) \in FromDev
  BY DEF AppCall, FromDev, AppNews
<1>3. \A list \in SUBSET Apps : AppList(list) \in FromDev
  BY DEF AppList, FromDev, AppLists
<1>4. \A id \in WsIds : Data(id) \in FromDev
  BY DEF Data, FromDev, AllData
<1>5. \A app \in Apps : \A ls \in SUBSET Listed : Listing(app, ls) \in FromDev
  BY DEF Listing, FromDev, Listings
<1> QED BY <1>1, <1>2, <1>3, <1>4, <1>5

\* A listing, when sessions are d.
LEMMA ListingSent ==
    ASSUME NEW app \in Apps, NEW d \in [PageIds -> WsIds \cup {Shut, Null, Remote}]
    PROVE  /\ ListingOf(app, d) \in FromDev /\ ListingOf(app, d).t = "listing"
           /\ (\A pg \in PageIds : d[pg] # Remote) =>
                \A l \in ListingOf(app, d).pages : l.conn # Remote
<1> DEFINE ls == {[id |-> pg, conn |-> ConnOf(d[pg])] :
                    pg \in {q \in PageIds : AppOf[q] = app /\ d[q] # Shut}}
<1>1. ListingOf(app, d) = Listing(app, ls)
  BY ListingMessage
<1>2. \A pg \in PageIds : d[pg] # Shut => ConnOf(d[pg]) \in {Us, Null, Remote}
  BY DEF ConnOf
<1>3. ls \in SUBSET Listed
  BY <1>2 DEF Listed
<1>4. \A pg \in PageIds : d[pg] # Remote => ConnOf(d[pg]) # Remote
  BY DEF ConnOf, Us, Remote
<1>5. (\A pg \in PageIds : d[pg] # Remote) => \A l \in ls : l.conn # Remote
  BY <1>4
<1> HIDE DEF ls
<1> QED BY <1>1, <1>3, <1>5, DeviceSends DEF Listing

-----------------------------------------------------------------------------
(* The messages in flight.                                                 *)

\* A queue after a message was put on it.
LEMMA SentOn ==
    ASSUME NEW T, NEW q \in Seq(T), NEW m \in T, NEW p, p = Append(q, m)
    PROVE  /\ p \in Seq(T) /\ Len(p) = Len(q) + 1 /\ Len(q) \in Nat
           /\ p[Len(q) + 1] = m /\ \A i \in 1..Len(q) : p[i] = q[i]
BY AppendProperties, LenProperties

\* A queue after its first message was taken.
LEMMA TakenOff ==
    ASSUME NEW T, NEW q \in Seq(T), q # <<>>, NEW p, p = Tail(q)
    PROVE  /\ p \in Seq(T) /\ Len(p) = Len(q) - 1 /\ Len(q) \in Nat \ {0}
           /\ q[1] \in T /\ \A i \in 1..(Len(q) - 1) : p[i] = q[i + 1]
BY HeadTailProperties, LenProperties, ElementOfSeq, EmptySeq

\* A message of the device is handled.
LEMMA Handled ==
    ASSUME Types, AppKnown, NoRemote, fromDev # <<>>, fromDev' = Tail(fromDev),
           UNCHANGED device,
           lastApp' # Null \/ (lastApp' = lastApp /\ fromDev[1].t # "connected")
    PROVE  /\ fromDev' \in Seq(FromDev) /\ AppKnown'
           /\ ~RemoteClaims => \A i \in 1..Len(fromDev') : fromDev'[i].t = "listing" =>
                                    \A l \in fromDev'[i].pages : l.conn # Remote
<1>1. /\ fromDev' \in Seq(FromDev) /\ Len(fromDev') = Len(fromDev) - 1 /\ Len(fromDev) \in Nat \ {0}
      /\ \A i \in 1..(Len(fromDev) - 1) : fromDev'[i] = fromDev[i + 1]
  BY TakenOff DEF Types
<1>2. \A i \in 1..(Len(fromDev) - 1) : i + 1 \in 1..Len(fromDev)
  BY <1>1
<1>3. \A pg \in PageIds : dev'[pg] # Shut => AppOf[pg] \in running'
  BY DEF AppKnown, device
<1>4. ASSUME lastApp' = Null
      PROVE  \/ running' = {} /\ \A i \in 1..Len(fromDev') : fromDev'[i].t # "listing"
             \/ \E i \in 1..Len(fromDev') :
                /\ fromDev'[i].t = "connected"
                /\ \A j \in 1..(i - 1) : fromDev'[j].t # "listing"
  <2>1. CASE running = {} /\ \A i \in 1..Len(fromDev) : fromDev[i].t # "listing"
    BY <1>1, <1>2, <2>1 DEF device
  <2>2. CASE \E i \in 1..Len(fromDev) : /\ fromDev[i].t = "connected"
                                        /\ \A j \in 1..(i - 1) : fromDev[j].t # "listing"
    <3>1. PICK i \in 1..Len(fromDev) : /\ fromDev[i].t = "connected"
                                       /\ \A j \in 1..(i - 1) : fromDev[j].t # "listing"
      BY <2>2
    <3>2. PICK k \in 1..(Len(fromDev) - 1) : i = k + 1
      BY <1>1, <1>4, <3>1
    <3>3. fromDev'[k].t = "connected"
      BY <1>1, <3>1, <3>2
    <3>4. \A j \in 1..(k - 1) : j + 1 \in 1..(i - 1) /\ j \in 1..(Len(fromDev) - 1)
      BY <1>1, <3>2
    <3>5. \A j \in 1..(k - 1) : fromDev'[j].t # "listing"
      BY <1>1, <3>1, <3>4
    <3> QED BY <1>1, <3>3, <3>5
  <2> QED BY <1>4, <2>1, <2>2 DEF AppKnown
<1>5. ~RemoteClaims => \A i \in 1..Len(fromDev') : fromDev'[i].t = "listing" =>
                            \A l \in fromDev'[i].pages : l.conn # Remote
  BY <1>1, <1>2 DEF NoRemote
<1> QED BY <1>1, <1>3, <1>4, <1>5 DEF AppKnown

\* The device sends a message.
LEMMA Answered ==
    ASSUME Types, AppKnown, NoRemote, NEW m \in FromDev, fromDev' = Append(fromDev, m),
           lastApp' = lastApp,
           m.t = "listing" => running # {},
           running' # {} => running # {} \/ m.t = "connected",
           \A pg \in PageIds : dev'[pg] # Shut => AppOf[pg] \in running',
           ~RemoteClaims /\ m.t = "listing" => \A l \in m.pages : l.conn # Remote
    PROVE  /\ fromDev' \in Seq(FromDev) /\ AppKnown'
           /\ ~RemoteClaims => \A i \in 1..Len(fromDev') : fromDev'[i].t = "listing" =>
                                    \A l \in fromDev'[i].pages : l.conn # Remote
<1>1. /\ fromDev' \in Seq(FromDev) /\ Len(fromDev') = Len(fromDev) + 1 /\ Len(fromDev) \in Nat
      /\ fromDev'[Len(fromDev) + 1] = m
      /\ \A i \in 1..Len(fromDev) : fromDev'[i] = fromDev[i]
  BY SentOn DEF Types
<1>2. \A i \in 1..(Len(fromDev) + 1) : i = Len(fromDev) + 1 \/ i \in 1..Len(fromDev)
  BY <1>1
<1>3. ASSUME lastApp = Null
      PROVE  \/ running' = {} /\ \A i \in 1..Len(fromDev') : fromDev'[i].t # "listing"
             \/ \E i \in 1..Len(fromDev') :
                /\ fromDev'[i].t = "connected"
                /\ \A j \in 1..(i - 1) : fromDev'[j].t # "listing"
  <2>1. CASE running = {} /\ \A i \in 1..Len(fromDev) : fromDev[i].t # "listing"
    <3>1. \A j \in 1..(Len(fromDev) + 1 - 1) : j \in 1..Len(fromDev)
      BY <1>1
    <3> QED BY <1>1, <1>2, <2>1, <3>1
  <2>2. CASE \E i \in 1..Len(fromDev) : /\ fromDev[i].t = "connected"
                                        /\ \A j \in 1..(i - 1) : fromDev[j].t # "listing"
    <3>1. PICK i \in 1..Len(fromDev) : /\ fromDev[i].t = "connected"
                                       /\ \A j \in 1..(i - 1) : fromDev[j].t # "listing"
      BY <2>2
    <3>2. i \in 1..Len(fromDev') /\ \A j \in 1..(i - 1) : j \in 1..Len(fromDev)
      BY <1>1
    <3> QED BY <1>1, <3>1, <3>2
  <2> QED BY <1>3, <2>1, <2>2 DEF AppKnown
<1>4. ~RemoteClaims => \A i \in 1..Len(fromDev') : fromDev'[i].t = "listing" =>
                            \A l \in fromDev'[i].pages : l.conn # Remote
  BY <1>1, <1>2 DEF NoRemote
<1> QED BY <1>1, <1>3, <1>4 DEF AppKnown

\* What a handler makes of the links and sends becomes the state's.
LEMMA Applied ==
    ASSUME Types, NEW h, Graph(h.pages, h.iws, maxPageNum'), h.sent \in Seq(ToDev),
           Apply(h), maxPageNum' \in Nat
    PROVE  Graph(pages, iws, maxPageNum)' /\ toDev' \in Seq(ToDev)
<1>1. pages' = h.pages /\ iws' = h.iws /\ toDev' = toDev \o h.sent
  BY DEF Apply
<1>2. toDev' \in Seq(ToDev)
  BY <1>1, ConcatProperties DEF Types
<1> QED BY <1>1, <1>2

\* What the handlers of a client start from.
LEMMA HeapFields ==
    /\ Shaped(Heap) /\ Heap.pages = pages /\ Heap.iws = iws /\ Heap.sent = <<>>
    /\ Heap.sent \in Seq(ToDev)
BY EmptySeq DEF Heap, Shaped

\* A handler of a browser client.
LEMMA ClientStep ==
    ASSUME IInv, NEW h, Keeps(Heap, h, maxPageNum), Apply(h),
           UNCHANGED <<up, apps, lastApp, maxPageNum, device, fromDev>>
    PROVE  IInv' /\ NumsKept
<1>0. /\ Graph(h.pages, h.iws, maxPageNum) /\ h.sent \in Seq(ToDev)
      /\ Owned(pages, iws) => Owned(h.pages, h.iws)
      /\ DOMAIN h.pages \subseteq DOMAIN pages
      /\ \A n \in DOMAIN h.pages : h.pages[n].id = pages[n].id
  BY HeapFields DEF Keeps
<1>1. pages' = h.pages /\ iws' = h.iws
  BY DEF Apply
<1>2. Graph(pages, iws, maxPageNum)' /\ toDev' \in Seq(ToDev)
  BY <1>0, Applied DEF IInv, Types
<1>3. NumsKept
  BY <1>0, <1>1 DEF NumsKept
<1>4. Types'
  BY <1>2 DEF IInv, Types, device
<1>5. up' => AppKnown'
  BY DEF IInv, AppKnown, device
<1>6. NoRemote'
  BY <1>0, <1>1 DEF IInv, NoRemote, device
<1> QED BY <1>2, <1>3, <1>4, <1>5, <1>6 DEF IInv

\* Only the memory of client s changes, from here to e.
LEMMA ClientMemory ==
    ASSUME IInv, NEW s \in Iwss, NEW e \in IwsRecs, iws' = [iws EXCEPT ![s] = e],
           e.ipage = iws[s].ipage, e.st = "http" => e.ipage = NoPage,
           \/ e.live = iws[s].live /\ e.id = iws[s].id
           \/ e.ipage = NoPage /\ e.id \in WsIds,
           pages' = pages, toDev' = toDev,
           UNCHANGED <<up, apps, lastApp, maxPageNum, device, fromDev>>
    PROVE  IInv' /\ NumsKept
<1>1. PICK P, C, D : P = pages /\ C = iws /\ D = [iws EXCEPT ![s] = e]
  OBVIOUS
<1>2. Graph(P, C, maxPageNum) /\ (~RemoteClaims => Owned(P, C))
  BY <1>1 DEF IInv, NoRemote
<1>3. /\ D \in [Iwss -> IwsRecs] /\ D[s] = e /\ D = [C EXCEPT ![s] = e]
      /\ \A c \in Iwss : c # s => D[c] = C[c]
  BY <1>1, <1>2 DEF Graph
<1>4. Graph(P, D, maxPageNum) /\ (Owned(P, C) => Owned(P, D))
  <2>1. CASE e.live = iws[s].live /\ e.id = iws[s].id
    <3>1. \A c \in Iwss : /\ D[c].live = C[c].live /\ D[c].id = C[c].id
                          /\ D[c].ipage = C[c].ipage
                          /\ D[c].st = "http" => D[c].ipage = NoPage
      BY <1>1, <1>2, <1>3, <2>1 DEF Graph
    <3> QED BY <1>2, <1>3, <3>1, SameLinks
  <2>2. CASE e.ipage = NoPage /\ e.id \in WsIds
    <3>1. C[s].ipage = NoPage
      BY <1>1, <2>2
    <3> QED BY <1>2, <1>3, <2>2, <3>1, ClientChanges
  <2> QED BY <2>1, <2>2
<1>5. pages' = P /\ iws' = D
  BY <1>1
<1>6. Types'
  BY DEF IInv, Types, device
<1>7. up' => AppKnown'
  BY DEF IInv, AppKnown, device
<1>8. NoRemote'
  BY <1>2, <1>4, <1>5 DEF IInv, NoRemote, device
<1>9. Graph(pages, iws, maxPageNum)'
  BY <1>4, <1>5
<1>10. NumsKept
  BY DEF NumsKept
<1> QED BY <1>6, <1>7, <1>8, <1>9, <1>10 DEF IInv

\* iwdp_iport_accept keeps the invariant.
LEMMA AcceptStep ==
    ASSUME IInv, NEW s \in Iwss, NEW id \in WsIds, Accept(s, id)
    PROVE  IInv' /\ NumsKept
<1>1. iws[s] \in IwsRecs /\ iws[s].ipage = NoPage
  BY DEF IInv, Graph, Accept
<1>2. PICK e \in IwsRecs : e = [NoIws EXCEPT !.live = TRUE, !.id = id]
  BY NoIwsRec DEF IwsRecs
<1>3. e.ipage = NoPage /\ e.id = id
  BY <1>2, NoIwsRec DEF IwsRecs
<1>4. /\ iws' = [iws EXCEPT ![s] = e] /\ pages' = pages /\ toDev' = toDev
      /\ UNCHANGED <<up, apps, lastApp, maxPageNum, device, fromDev>>
  BY <1>2 DEF Accept
<1> QED BY <1>1, <1>3, <1>4, ClientMemory

\* A client of the device is closed.
LEMMA CloseStep ==
    ASSUME IInv, NEW s \in Iwss, Apply(CloseIws(Heap, s)),
           UNCHANGED <<up, apps, lastApp, maxPageNum, device, fromDev>>
    PROVE  IInv' /\ NumsKept
<1>1. PICK h, r : h = Heap /\ r = CloseIws(h, s)
  OBVIOUS
<1>2. Shaped(h) /\ h.pages = pages /\ h.iws = iws /\ h.sent \in Seq(ToDev)
  BY <1>1, HeapFields
<1>3. r = CloseIws(h, s) /\ Graph(h.pages, h.iws, maxPageNum)
  BY <1>1, <1>2 DEF IInv
<1>4. Keeps(h, r, maxPageNum)
  BY <1>2, <1>3, CloseKeeps
<1>5. Apply(r) /\ Keeps(Heap, r, maxPageNum)
  BY <1>1, <1>4
<1> QED BY <1>5, ClientStep

\* iwdp_iws_close, called for the socket, keeps the invariant.
LEMMA CloseClientStep ==
    ASSUME IInv, NEW s \in Iwss, CloseClient(s)
    PROVE  IInv' /\ NumsKept
BY CloseStep DEF CloseClient

\* iwdp_on_frame keeps the invariant.
LEMMA TextFrameStep ==
    ASSUME IInv, NEW s \in Iwss, TextFrame(s)
    PROVE  IInv' /\ NumsKept
<1>0. iws[s] \in IwsRecs /\ toDev \in Seq(ToDev) /\ iws[s].ipage = NoPage
  BY DEF IInv, Graph, Types, TextFrame
<1>1. CASE iws[s].sentClose
  BY <1>1, CloseStep DEF TextFrame
<1>2. CASE ~iws[s].sentClose
  <2>1. PICK e \in IwsRecs : e = [iws[s] EXCEPT !.sentClose = TRUE]
    BY <1>0 DEF IwsRecs
  <2>2. /\ e.ipage = iws[s].ipage /\ e.st = iws[s].st
        /\ e.live = iws[s].live /\ e.id = iws[s].id
    BY <1>0, <2>1 DEF IwsRecs
  <2>3. Apply([Heap EXCEPT !.iws[s].sentClose = TRUE])
    BY <1>2 DEF TextFrame
  <2>4. iws' = [iws EXCEPT ![s] = e] /\ pages' = pages /\ toDev' = toDev \o <<>>
    BY <2>1, <2>3 DEF Apply, Heap
  <2>5. toDev' = toDev
    BY <1>0, <2>4, ConcatEmptySeq
  <2>6. UNCHANGED <<up, apps, lastApp, maxPageNum, device, fromDev>>
    BY DEF TextFrame
  <2> QED BY <1>0, <2>2, <2>4, <2>5, <2>6, ClientMemory
<1> QED BY <1>1, <1>2

\* iwdp_on_devtools_request keeps the invariant, whether the page is found or not.
LEMMA DevtoolsRequestStep ==
    ASSUME IInv, NEW s \in Iwss, NEW n, DevtoolsRequest(s, n)
    PROVE  IInv' /\ NumsKept
<1>0. /\ iws[s] \in IwsRecs /\ toDev \in Seq(ToDev)
      /\ iws[s].live /\ iws[s].ipage = NoPage
  BY DEF IInv, Graph, Types, DevtoolsRequest
<1>1. UNCHANGED <<up, apps, lastApp, maxPageNum, device, fromDev>>
  BY DEF DevtoolsRequest
<1>2. CASE n \in DOMAIN pages
  <2>1. PICK h : h = Heap
    OBVIOUS
  <2>2. /\ Shaped(h) /\ h.pages = pages /\ h.iws = iws /\ h.sent \in Seq(ToDev)
        /\ n \in DOMAIN h.pages
    BY <1>2, <2>1, HeapFields
  <2>3. MayStart(h, n, s, maxPageNum)
    BY <1>0, <2>2 DEF MayStart, IInv
  <2>4. PICK r : r = Started(h, n, s)
    OBVIOUS
  <2>5. Keeps(h, r, maxPageNum)
    BY <2>3, <2>4, StartKeeps
  <2>6. Apply(r) /\ Keeps(Heap, r, maxPageNum)
    BY <1>2, <2>1, <2>4, <2>5 DEF DevtoolsRequest, Started
  <2> QED BY <1>1, <2>6, ClientStep
<1>3. CASE n \notin DOMAIN pages
  <2>1. PICK e \in IwsRecs : e = [iws[s] EXCEPT !.st = "ws"]
    BY <1>0 DEF IwsRecs
  <2>2. /\ e.ipage = iws[s].ipage /\ e.st = "ws"
        /\ e.live = iws[s].live /\ e.id = iws[s].id
    BY <1>0, <2>1 DEF IwsRecs
  <2>3. Apply([Heap EXCEPT !.iws[s].st = "ws"])
    BY <1>3 DEF DevtoolsRequest
  <2>4. iws' = [iws EXCEPT ![s] = e] /\ pages' = pages /\ toDev' = toDev \o <<>>
    BY <2>1, <2>3 DEF Apply, Heap
  <2>5. toDev' = toDev
    BY <1>0, <2>4, ConcatEmptySeq
  <2> QED BY <1>1, <2>2, <2>4, <2>5, ClientMemory
<1> QED BY <1>2, <1>3

-----------------------------------------------------------------------------
(* The messages of the device, handled.                                    *)

\* What the cases have in common: a message is taken, and the device is as it was.
LEMMA ReceiveStep ==
    ASSUME IInv, MaySend, fromDev # <<>>, fromDev' = Tail(fromDev), UNCHANGED <<up, device>>,
           apps' \subseteq Apps, lastApp' \in Apps \cup {Null},
           lastApp' # Null \/ (lastApp' = lastApp /\ fromDev[1].t # "connected"),
           maxPageNum' \in Nat, toDev' \in Seq(ToDev),
           Graph(pages, iws, maxPageNum)', ~RemoteClaims => Owned(pages, iws)'
    PROVE  IInv'
<1>1. Types /\ AppKnown /\ NoRemote /\ up' = up /\ UNCHANGED device
  BY DEF IInv, MaySend
<1>2. /\ fromDev' \in Seq(FromDev) /\ AppKnown'
      /\ ~RemoteClaims => \A i \in 1..Len(fromDev') : fromDev'[i].t = "listing" =>
                                \A l \in fromDev'[i].pages : l.conn # Remote
  BY <1>1, Handled
<1>3. Types'
  BY <1>1, <1>2 DEF Types, device
<1>4. NoRemote'
  BY <1>1, <1>2 DEF NoRemote, device
<1> QED BY <1>2, <1>3, <1>4 DEF IInv

\* What is handled next is a message.
LEMMA FirstMessage ==
    ASSUME IInv, fromDev # <<>>
    PROVE  fromDev[1] \in FromDev
BY TakenOff DEF IInv, Types

\* The closing of the inspector with all its clients keeps the invariant.
LEMMA KillStep ==
    ASSUME IInv, Kill
    PROVE  IInv' /\ NumsKept
<1>1. /\ DOMAIN pages' = {} /\ pages' \in [{} -> PageRecs]
      /\ iws' \in [Iwss -> IwsRecs] /\ \A s \in Iwss : iws'[s] = NoIws
  BY NoIwsRec DEF Kill
<1>2. Graph(pages, iws, maxPageNum)'
  BY <1>1, NoIwsRec DEF Graph
<1>3. Owned(pages, iws)'
  BY <1>1 DEF Owned
<1>4. NumsKept
  BY <1>1 DEF NumsKept
<1>5. dev' \in [PageIds -> WsIds \cup {Shut, Null, Remote}]
  BY DEF Kill, IInv, Types
<1>6. toDev' \in Seq(ToDev) /\ fromDev' \in Seq(FromDev) /\ Len(fromDev') = 0
  BY EmptySeq DEF Kill
<1>7. Types'
  BY <1>5, <1>6 DEF Kill, IInv, Types
<1>8. ~up'
  BY DEF Kill
<1>9. ~RemoteClaims => \A pg \in PageIds : dev'[pg] # Remote
  BY DEF Kill, IInv, NoRemote, Remote, Null
<1>10. NoRemote'
  BY <1>3, <1>6, <1>9 DEF NoRemote
<1> QED BY <1>2, <1>4, <1>7, <1>8, <1>10 DEF IInv

\* The handler has no news.
LEMMA IgnoredStep ==
    ASSUME IInv, MaySend, fromDev # <<>>, fromDev' = Tail(fromDev), UNCHANGED <<proxy, device>>,
           fromDev[1].t # "connected", toDev' \in Seq(ToDev)
    PROVE  IInv' /\ NumsKept
<1>1. UNCHANGED <<up, apps, lastApp, pages, maxPageNum, iws>>
  BY DEF proxy
<1>2. apps' \subseteq Apps /\ lastApp' \in Apps \cup {Null} /\ maxPageNum' \in Nat
  BY <1>1 DEF IInv, Types
<1>3. Graph(pages, iws, maxPageNum)' /\ (~RemoteClaims => Owned(pages, iws)')
  BY <1>1 DEF IInv, NoRemote
<1>4. IInv'
  BY <1>1, <1>2, <1>3, ReceiveStep
<1>5. NumsKept
  BY <1>1 DEF NumsKept
<1> QED BY <1>4, <1>5

\* Messages that are ignored keep the invariant.
LEMMA RecvOtherStep ==
    ASSUME IInv, RecvOther
    PROVE  IInv' /\ NumsKept
<1>1. /\ MaySend /\ fromDev # <<>> /\ fromDev' = Tail(fromDev) /\ UNCHANGED <<proxy, device>>
      /\ fromDev[1].t # "connected" /\ toDev' = toDev
  BY DEF RecvOther, Receives
<1>2. toDev' \in Seq(ToDev)
  BY <1>1 DEF IInv, Types
<1> QED BY <1>1, <1>2, IgnoredStep

\* A message that is refused keeps the invariant.
LEMMA RecvInvalidStep ==
    ASSUME IInv, RecvInvalid
    PROVE  IInv' /\ NumsKept
BY KillStep DEF RecvInvalid

\* iwdp_on_applicationSentData keeps the invariant.
LEMMA RecvDataStep ==
    ASSUME IInv, RecvData
    PROVE  IInv' /\ NumsKept
<1>1. CASE Kill
  BY <1>1, KillStep
<1>2. CASE fromDev' = Tail(fromDev) /\ UNCHANGED <<proxy, device, toDev>>
  <2>1. /\ MaySend /\ fromDev # <<>> /\ fromDev[1].t # "connected"
        /\ UNCHANGED <<proxy, device>> /\ toDev' = toDev
    BY <1>2 DEF RecvData, Receives
  <2>2. toDev' \in Seq(ToDev)
    BY <2>1 DEF IInv, Types
  <2> QED BY <1>2, <2>1, <2>2, IgnoredStep
<1> QED BY <1>1, <1>2 DEF RecvData

\* For each of some apps, in some order, its listing is asked for.
LEMMA ListingsAsked ==
    ASSUME NEW S \in SUBSET Apps, NEW order \in Orders(S)
    PROVE  [i \in DOMAIN order |-> GetListing(order[i])] \in Seq(ToDev)
<1>1. IsFiniteSet(S)
  BY FiniteAssumption, FS_Subset
<1>2. PICK k \in Nat : order \in [1..k -> S]
  BY <1>1, OrderSeq
<1>3. PICK q : q = [i \in 1..k |-> GetListing(order[i])]
  OBVIOUS
<1>4. \A i \in 1..k : q[i] \in ToDev
  BY <1>2, <1>3 DEF ToDev
<1>5. q \in Seq(ToDev)
  BY <1>3, <1>4, SeqDef
<1>6. DOMAIN order = 1..k
  BY <1>2
<1> QED BY <1>3, <1>5, <1>6

\* iwdp_add_app_id keeps the invariant.
LEMMA AddAppStep ==
    ASSUME IInv, MaySend, fromDev # <<>>, fromDev' = Tail(fromDev),
           NEW app \in Apps, AddApps({app}),
           lastApp' = app \/ (lastApp' = lastApp /\ fromDev[1].t # "connected"),
           UNCHANGED <<up, pages, maxPageNum, iws, device>>
    PROVE  IInv' /\ NumsKept
<1>1. PICK order \in Orders({app} \ apps) :
            toDev' = toDev \o [i \in DOMAIN order |-> GetListing(order[i])]
  BY DEF AddApps
<1>2. PICK q : q = [i \in DOMAIN order |-> GetListing(order[i])]
  OBVIOUS
<1>3. q \in Seq(ToDev)
  BY <1>2, ListingsAsked
<1>4. toDev' \in Seq(ToDev)
  BY <1>1, <1>2, <1>3, ConcatProperties DEF IInv, Types
<1>5. apps' \subseteq Apps /\ maxPageNum' \in Nat /\ lastApp' \in Apps \cup {Null}
  BY DEF AddApps, IInv, Types
<1>6. lastApp' # Null \/ (lastApp' = lastApp /\ fromDev[1].t # "connected")
  BY NamesAssumption
<1>7. Graph(pages, iws, maxPageNum)' /\ (~RemoteClaims => Owned(pages, iws)')
  BY DEF IInv, NoRemote
<1>8. IInv'
  BY <1>4, <1>5, <1>6, <1>7, ReceiveStep
<1>9. NumsKept
  BY DEF NumsKept
<1> QED BY <1>8, <1>9

\* iwdp_on_applicationConnected keeps the invariant.
LEMMA RecvConnectedStep ==
    ASSUME IInv, RecvConnected
    PROVE  IInv' /\ NumsKept
<1>1. fromDev[1].app \in Apps
  BY FirstMessage, MessageKinds DEF RecvConnected, Receives
<1> QED BY <1>1, AddAppStep DEF RecvConnected, Receives

\* iwdp_on_applicationUpdated keeps the invariant.
LEMMA RecvUpdatedStep ==
    ASSUME IInv, RecvUpdated
    PROVE  IInv' /\ NumsKept
<1>1. fromDev[1].app \in Apps
  BY FirstMessage, MessageKinds DEF RecvUpdated, Receives
<1> QED BY <1>1, AddAppStep DEF RecvUpdated, Receives

\* Pages are dropped.
LEMMA DropFromHeap ==
    ASSUME IInv, NEW ns, ns \subseteq DOMAIN pages, NEW r \in DropPages(Heap, ns)
    PROVE  /\ Shaped(r) /\ Graph(r.pages, r.iws, maxPageNum) /\ r.sent \in Seq(ToDev)
           /\ Owned(pages, iws) => Owned(r.pages, r.iws)
           /\ DOMAIN r.pages \subseteq DOMAIN pages
           /\ \A n \in DOMAIN r.pages : r.pages[n].id = pages[n].id
<1>1. PICK h : h = Heap
  OBVIOUS
<1>2. /\ Shaped(h) /\ h.pages = pages /\ h.iws = iws /\ h.sent \in Seq(ToDev)
      /\ ns \subseteq DOMAIN h.pages /\ r \in DropPages(h, ns) /\ maxPageNum \in Nat
  BY <1>1, HeapFields DEF IInv, Types
<1>3. Graph(h.pages, h.iws, maxPageNum)
  BY <1>2 DEF IInv
<1>4. Shaped(r) /\ Keeps(h, r, maxPageNum)
  BY <1>2, <1>3, DropKeeps
<1> QED BY <1>2, <1>4 DEF Keeps

\* Pages are dropped, and the listings in q are asked for.
LEMMA DropStep ==
    ASSUME IInv, MaySend, fromDev # <<>>, fromDev' = Tail(fromDev), fromDev[1].t # "connected",
           NEW ns, ns \subseteq DOMAIN pages, NEW r \in DropPages(Heap, ns),
           NEW q \in Seq(ToDev),
           pages' = r.pages, iws' = r.iws, toDev' = toDev \o (r.sent \o q),
           apps' \subseteq Apps, lastApp' = lastApp \/ lastApp' \in Apps,
           UNCHANGED <<up, maxPageNum, device>>
    PROVE  IInv' /\ NumsKept
<1>2. maxPageNum \in Nat
  BY DEF IInv, Types
<1>5. /\ Graph(r.pages, r.iws, maxPageNum) /\ r.sent \in Seq(ToDev)
      /\ Owned(pages, iws) => Owned(r.pages, r.iws)
      /\ DOMAIN r.pages \subseteq DOMAIN pages
      /\ \A n \in DOMAIN r.pages : r.pages[n].id = pages[n].id
  BY DropFromHeap
<1>6. r.sent \o q \in Seq(ToDev)
  BY <1>5, ConcatProperties
<1>7. toDev' \in Seq(ToDev)
  BY <1>6, ConcatProperties DEF IInv, Types
<1>8. Graph(pages, iws, maxPageNum)' /\ (~RemoteClaims => Owned(pages, iws)')
  BY <1>5 DEF IInv, NoRemote
<1>9. lastApp' \in Apps \cup {Null} /\ (lastApp' # Null \/ lastApp' = lastApp)
  BY NamesAssumption DEF IInv, Types
<1>10. IInv'
  BY <1>2, <1>7, <1>8, <1>9, ReceiveStep
<1>11. NumsKept
  BY <1>5 DEF NumsKept
<1> QED BY <1>10, <1>11

\* iwdp_on_applicationDisconnected keeps the invariant.
LEMMA RecvDisconnectedStep ==
    ASSUME IInv, RecvDisconnected
    PROVE  IInv' /\ NumsKept
<1>1. PICK ns : ns = IF fromDev[1].app \in apps THEN PagesOf({fromDev[1].app}) ELSE {}
  OBVIOUS
<1>2. ns \subseteq DOMAIN pages
  BY <1>1 DEF PagesOf
<1>3. PICK r \in DropPages(Heap, ns) : Apply(r)
  BY <1>1 DEF RecvDisconnected
<1>4. r.sent \in Seq(ToDev)
  BY <1>2, DropFromHeap
<1>5. r.sent \o <<>> = r.sent /\ <<>> \in Seq(ToDev)
  BY <1>4, ConcatEmptySeq, EmptySeq
<1>6. PICK q \in Seq(ToDev) : r.sent \o q = r.sent
  BY <1>5
<1>7. pages' = r.pages /\ iws' = r.iws /\ toDev' = toDev \o (r.sent \o q)
  BY <1>3, <1>6 DEF Apply
<1>8. /\ MaySend /\ fromDev # <<>> /\ fromDev[1].t # "connected" /\ fromDev' = Tail(fromDev)
      /\ lastApp' = lastApp /\ UNCHANGED <<up, maxPageNum, device>>
  BY DEF RecvDisconnected, Receives
<1>9. apps' \subseteq Apps
  BY DEF RecvDisconnected, IInv, Types
<1> QED BY <1>2, <1>7, <1>8, <1>9, DropStep

\* iwdp_on_reportConnectedApplicationList keeps the invariant.
LEMMA RecvAppListStep ==
    ASSUME IInv, RecvAppList
    PROVE  IInv' /\ NumsKept
<1>1. /\ MaySend /\ fromDev # <<>> /\ fromDev[1].t # "connected" /\ fromDev' = Tail(fromDev)
      /\ UNCHANGED <<up, maxPageNum, device>>
  BY DEF RecvAppList, Receives
<1>2. PICK list \in SUBSET Apps : list = fromDev[1].apps
  BY FirstMessage, MessageKinds DEF RecvAppList, Receives
<1>3. CASE list = {}
  <2>1. UNCHANGED <<proxy, device>> /\ toDev' = toDev
    BY <1>1, <1>2, <1>3 DEF RecvAppList, proxy
  <2>2. toDev' \in Seq(ToDev)
    BY <2>1 DEF IInv, Types
  <2> QED BY <1>1, <2>1, <2>2, IgnoredStep
<1>4. CASE list # {}
  <2>1. PICK ns : ns = PagesOf(apps \ list)
    OBVIOUS
  <2>2. ns \subseteq DOMAIN pages
    BY <2>1 DEF PagesOf
  <2>3. PICK r \in DropPages(Heap, ns), order \in Orders(list \ apps) :
            Apply([r EXCEPT !.sent = @ \o [i \in DOMAIN order |-> GetListing(order[i])]])
    BY <1>2, <1>4, <2>1 DEF RecvAppList
  <2>4. PICK q \in Seq(ToDev) : q = [i \in DOMAIN order |-> GetListing(order[i])]
    <3>1. list \ apps \in SUBSET Apps
      BY <1>2
    <3> QED BY <3>1, ListingsAsked
  <2>5. Shaped(r)
    BY <2>2, DropFromHeap
  <2>6. pages' = r.pages /\ iws' = r.iws /\ toDev' = toDev \o (r.sent \o q)
    BY <2>3, <2>4, <2>5 DEF Apply, Shaped
  <2>7. apps' \subseteq Apps /\ lastApp' \in Apps
    BY <1>2, <1>4 DEF RecvAppList
  <2> QED BY <1>1, <2>2, <2>6, <2>7, DropStep
<1> QED BY <1>3, <1>4

\* iwdp_on_applicationSentListing keeps the invariant: known pages get their connection_id,
\* claimed ones lose their client, new ones are numbered and old ones dropped.
LEMMA RecvListingStep ==
    ASSUME IInv, RecvListing
    PROVE  IInv' /\ NumsKept
<1>1. /\ up /\ MaySend /\ fromDev # <<>> /\ fromDev[1].t = "listing"
      /\ fromDev[1].t # "connected"
  BY DEF RecvListing, Receives, MaySend
<1>2. PICK app \in Apps, listed \in SUBSET Listed :
            app = fromDev[1].app /\ listed = fromDev[1].pages
  BY <1>1, FirstMessage, MessageKinds
<1>3. CASE app \notin apps /\ Kill
  BY <1>3, KillStep
<1>4. CASE app \notin apps /\ ~Kill
  <2>1. /\ lastApp # Null /\ toDev' = Append(toDev, GetListing(lastApp))
        /\ fromDev' = Tail(fromDev) /\ UNCHANGED <<proxy, device>>
    BY <1>2, <1>4 DEF RecvListing
  <2>2. GetListing(lastApp) \in ToDev
    BY <2>1 DEF ToDev, IInv, Types
  <2>3. PICK m \in ToDev : m = GetListing(lastApp)
    BY <2>2
  <2>4. toDev' = Append(toDev, m) /\ toDev \in Seq(ToDev)
    BY <2>1, <2>3 DEF IInv, Types
  <2>5. Append(toDev, m) \in Seq(ToDev)
    BY <2>4, AppendProperties
  <2> QED BY <1>1, <2>1, <2>4, <2>5, IgnoredStep
<1>5. CASE app \in apps
  <2>1. PICK new : new = NewPages(listed)
    OBVIOUS
  <2>2. /\ maxPageNum' = maxPageNum + Cardinality(new) /\ fromDev' = Tail(fromDev)
        /\ apps' = apps /\ lastApp' = lastApp /\ UNCHANGED <<up, device>>
    BY <1>2, <1>5, <2>1 DEF RecvListing
  <2>3. PICK number \in [new -> FreshNums(Cardinality(new))] :
            /\ \A p, q \in new : p # q => number[p] # number[q]
            /\ LET h == [pages |-> Relisted(listed, number),
                         iws |-> [s \in Iwss |-> IF s \in Claimed(listed)
                                    THEN [iws[s] EXCEPT !.ipage = NoPage]
                                    ELSE iws[s]],
                         sent |-> <<>>]
               IN \E g \in DropPages(h, OldPages(app, listed)) : Apply(g)
    BY <1>2, <1>5, <2>1 DEF RecvListing
  <2>4. PICK P, C : /\ P = Relisted(listed, number)
                    /\ C = [s \in Iwss |-> IF s \in Claimed(listed)
                                           THEN [iws[s] EXCEPT !.ipage = NoPage] ELSE iws[s]]
    OBVIOUS
  <2>5. PICK h : h = [pages |-> P, iws |-> C, sent |-> <<>>]
    OBVIOUS
  <2>6. PICK ns : ns = OldPages(app, listed)
    OBVIOUS
  <2>7. PICK r \in DropPages(h, ns) : Apply(r)
    BY <2>3, <2>4, <2>5, <2>6
  <2>8. maxPageNum \in Nat /\ Graph(pages, iws, maxPageNum)
    BY DEF IInv, Types
  <2>9. /\ maxPageNum + Cardinality(new) \in Nat
        /\ Graph(P, C, maxPageNum + Cardinality(new))
        /\ \A n \in DOMAIN pages : n \in DOMAIN P /\ P[n].id = pages[n].id
        /\ \A n \in DOMAIN P \ DOMAIN pages : n > maxPageNum
        /\ (\A l \in listed : l.conn # Remote) /\ Owned(pages, iws) => Owned(P, C)
    BY <2>1, <2>3, <2>4, <2>8, RelistedKeeps
  <2>10. PICK top \in Nat : top = maxPageNum + Cardinality(new)
    BY <2>9
  <2>11. /\ Shaped(h) /\ h.pages = P /\ h.iws = C /\ h.sent \in Seq(ToDev)
    BY <2>5, EmptySeq DEF Shaped
  <2>12. ns \subseteq DOMAIN h.pages /\ Graph(h.pages, h.iws, top)
    BY <2>6, <2>9, <2>10, <2>11 DEF OldPages, PagesOf
  <2>13. /\ Graph(r.pages, r.iws, top) /\ r.sent \in Seq(ToDev)
         /\ Owned(P, C) => Owned(r.pages, r.iws)
         /\ DOMAIN r.pages \subseteq DOMAIN P
         /\ \A n \in DOMAIN r.pages : r.pages[n].id = P[n].id
    <3>1. Keeps(h, r, top)
      BY <2>11, <2>12, DropKeeps
    <3> QED BY <2>11, <3>1 DEF Keeps
  <2>14. pages' = r.pages /\ iws' = r.iws /\ toDev' = toDev \o r.sent /\ maxPageNum' = top
    BY <2>2, <2>7, <2>10 DEF Apply
  <2>15. toDev' \in Seq(ToDev)
    BY <2>13, <2>14, ConcatProperties DEF IInv, Types
  <2>16. Graph(pages, iws, maxPageNum)'
    BY <2>13, <2>14
  <2>17. ~RemoteClaims => \A l \in listed : l.conn # Remote
    <3>1. 1 \in 1..Len(fromDev)
      BY <1>1, TakenOff DEF IInv, Types
    <3> QED BY <1>1, <1>2, <3>1 DEF IInv, NoRemote
  <2>18. ~RemoteClaims => Owned(pages, iws)'
    BY <2>9, <2>13, <2>14, <2>17 DEF IInv, NoRemote
  <2>19. apps' \subseteq Apps /\ lastApp' \in Apps \cup {Null}
    BY <2>2 DEF IInv, Types
  <2>20. IInv'
    BY <1>1, <2>2, <2>10, <2>14, <2>15, <2>16, <2>18, <2>19, ReceiveStep
  <2>21. NumsKept
    BY <2>9, <2>13, <2>14 DEF NumsKept
  <2> QED BY <2>20, <2>21
<1> QED BY <1>3, <1>4, <1>5

-----------------------------------------------------------------------------
(* What the device does.                                                   *)

\* What the cases have in common: the proxy is as it was.
LEMMA DeviceStep ==
    ASSUME IInv, UNCHANGED proxy, toDev' \in Seq(ToDev), running' \subseteq Apps,
           dev' \in [PageIds -> WsIds \cup {Shut, Null, Remote}],
           ~RemoteClaims => \A pg \in PageIds : dev'[pg] # Remote,
           fromDev' \in Seq(FromDev), AppKnown',
           ~RemoteClaims => \A i \in 1..Len(fromDev') : fromDev'[i].t = "listing" =>
                                \A l \in fromDev'[i].pages : l.conn # Remote
    PROVE  IInv' /\ NumsKept
<1>1. UNCHANGED <<up, apps, lastApp, pages, maxPageNum, iws>>
  BY DEF proxy
<1>2. Types'
  BY <1>1 DEF IInv, Types
<1>3. Graph(pages, iws, maxPageNum)'
  BY <1>1 DEF IInv
<1>4. NoRemote'
  BY <1>1 DEF IInv, NoRemote
<1>5. NumsKept
  BY <1>1 DEF NumsKept
<1> QED BY <1>2, <1>3, <1>4, <1>5 DEF IInv

\* The device says something, and its pages are as they were.
LEMMA SaysStep ==
    ASSUME IInv, up, UNCHANGED <<proxy, dev, toDev>>, NEW m \in FromDev,
           fromDev' = Append(fromDev, m), m.t # "listing",
           running' \subseteq Apps, running \subseteq running',
           running' = running \/ m.t = "connected"
    PROVE  IInv' /\ NumsKept
<1>1. Types /\ AppKnown /\ NoRemote /\ lastApp' = lastApp
  BY DEF IInv, proxy
<1>2. /\ running' # {} => running # {} \/ m.t = "connected"
      /\ \A pg \in PageIds : dev'[pg] # Shut => AppOf[pg] \in running'
  BY <1>1 DEF AppKnown
<1>3. /\ fromDev' \in Seq(FromDev) /\ AppKnown'
      /\ ~RemoteClaims => \A i \in 1..Len(fromDev') : fromDev'[i].t = "listing" =>
                                \A l \in fromDev'[i].pages : l.conn # Remote
  BY <1>1, <1>2, Answered
<1>4. /\ toDev' \in Seq(ToDev) /\ dev' \in [PageIds -> WsIds \cup {Shut, Null, Remote}]
      /\ ~RemoteClaims => \A pg \in PageIds : dev'[pg] # Remote
  BY <1>1 DEF Types, NoRemote
<1> QED BY <1>3, <1>4, DeviceStep

\* The sessions become d, and the listing of an app is sent.
LEMMA ListsStep ==
    ASSUME IInv, up, UNCHANGED <<proxy, running>>, toDev' \in Seq(ToDev),
           NEW d \in [PageIds -> WsIds \cup {Shut, Null, Remote}], dev' = d,
           NEW app \in running, fromDev' = Append(fromDev, ListingOf(app, d)),
           \A pg \in PageIds : d[pg] # Shut => AppOf[pg] \in running,
           ~RemoteClaims => \A pg \in PageIds : d[pg] # Remote
    PROVE  IInv' /\ NumsKept
<1>1. Types /\ AppKnown /\ NoRemote /\ lastApp' = lastApp
  BY DEF IInv, proxy
<1>2. app \in Apps
  BY <1>1 DEF Types
<1>3. PICK m \in FromDev : m = ListingOf(app, d)
  BY <1>2, ListingSent
<1>4. m.t = "listing" /\ (~RemoteClaims => \A l \in m.pages : l.conn # Remote)
  BY <1>2, <1>3, ListingSent
<1>5. /\ fromDev' \in Seq(FromDev) /\ AppKnown'
      /\ ~RemoteClaims => \A i \in 1..Len(fromDev') : fromDev'[i].t = "listing" =>
                                \A l \in fromDev'[i].pages : l.conn # Remote
  <2>1. fromDev' = Append(fromDev, m)
    BY <1>3
  <2>2. \A pg \in PageIds : dev'[pg] # Shut => AppOf[pg] \in running'
    OBVIOUS
  <2> QED BY <1>1, <1>4, <2>1, <2>2, Answered
<1>6. running' \subseteq Apps /\ dev' \in [PageIds -> WsIds \cup {Shut, Null, Remote}]
  BY <1>1 DEF Types
<1> QED BY <1>5, <1>6, DeviceStep

\* A session begins or ends, and the listing tells.
LEMMA SetPageStep ==
    ASSUME IInv, up, UNCHANGED <<proxy, running>>, toDev' \in Seq(ToDev),
           NEW pg \in PageIds, NEW owner \in WsIds \cup {Shut, Null, Remote}, SetPage(pg, owner),
           AppOf[pg] \in running, owner = Remote => RemoteClaims
    PROVE  IInv' /\ NumsKept
<1>1. PICK d : d = [dev EXCEPT ![pg] = owner]
  OBVIOUS
<1>2. dev' = d /\ fromDev' = Append(fromDev, ListingOf(AppOf[pg], d))
  BY <1>1 DEF SetPage
<1>3. dev \in [PageIds -> WsIds \cup {Shut, Null, Remote}]
  BY DEF IInv, Types
<1>4. d \in [PageIds -> WsIds \cup {Shut, Null, Remote}]
  BY <1>1, <1>3
<1>5. \A q \in PageIds : d[q] # Shut => AppOf[q] \in running
  BY <1>1, <1>3 DEF IInv, AppKnown
<1>6. ~RemoteClaims => \A q \in PageIds : d[q] # Remote
  BY <1>1, <1>3 DEF IInv, NoRemote
<1> QED BY <1>2, <1>4, <1>5, <1>6, ListsStep

\* An app starts, changes or quits.
LEMMA AppStep ==
    ASSUME IInv, NEW app \in Apps, DevAppStarts(app) \/ DevAppUpdates(app) \/ DevAppQuits(app)
    PROVE  IInv' /\ NumsKept
<1>0. Types /\ AppKnown /\ NoRemote /\ up
  BY DEF IInv, DevAppStarts, DevAppUpdates, DevAppQuits, MayAnswer
<1>1. CASE DevAppStarts(app)
  <2>1. PICK m \in FromDev : m = AppCall("connected", app)
    BY DeviceSends
  <2>2. fromDev' = Append(fromDev, m) /\ m.t = "connected"
    BY <1>1, <2>1, AppMessages DEF DevAppStarts, AppCall
  <2>3. /\ UNCHANGED <<proxy, dev, toDev>> /\ running' \subseteq Apps
        /\ running \subseteq running'
    BY <1>0, <1>1 DEF DevAppStarts, Types
  <2> QED BY <1>0, <2>2, <2>3, SaysStep
<1>2. CASE DevAppUpdates(app)
  <2>1. PICK m \in FromDev : m = AppCall("updated", app)
    BY DeviceSends
  <2>2. fromDev' = Append(fromDev, m) /\ m.t # "listing"
    BY <1>2, <2>1, AppMessages DEF DevAppUpdates, AppCall
  <2>3. UNCHANGED <<proxy, dev, toDev>> /\ running' \subseteq Apps /\ running' = running
    BY <1>0, <1>2 DEF DevAppUpdates, Types, device
  <2> QED BY <1>0, <2>2, <2>3, SaysStep
<1>3. CASE DevAppQuits(app)
  <2>1. PICK m \in FromDev : m = AppCall("disconnected", app)
    BY DeviceSends
  <2>2. fromDev' = Append(fromDev, m) /\ m.t = "disconnected"
    BY <1>3, <2>1, AppMessages DEF DevAppQuits, AppCall
  <2>3. /\ UNCHANGED <<proxy, toDev>> /\ running' = running \ {app}
        /\ dev' = [pg \in PageIds |-> IF AppOf[pg] = app THEN Shut ELSE dev[pg]]
    BY <1>3 DEF DevAppQuits
  <2>4. /\ dev' \in [PageIds -> WsIds \cup {Shut, Null, Remote}]
        /\ \A pg \in PageIds : dev'[pg] # Shut => AppOf[pg] \in running'
        /\ ~RemoteClaims => \A pg \in PageIds : dev'[pg] # Remote
    <3>1. \A pg \in PageIds : dev'[pg] \in {Shut, dev[pg]} /\ (dev'[pg] # Shut => AppOf[pg] # app)
      BY <2>3
    <3>2. Shut # Remote
      BY DEF Shut, Remote
    <3> QED BY <1>0, <2>3, <3>1, <3>2 DEF Types, AppKnown, NoRemote
  <2>5. /\ fromDev' \in Seq(FromDev) /\ AppKnown'
        /\ ~RemoteClaims => \A i \in 1..Len(fromDev') : fromDev'[i].t = "listing" =>
                                  \A l \in fromDev'[i].pages : l.conn # Remote
    <3>1. lastApp' = lastApp /\ (running' # {} => running # {})
      BY <2>3 DEF proxy
    <3>2. m.t # "listing"
      BY <2>2
    <3> QED BY <1>0, <2>2, <2>4, <3>1, <3>2, Answered
  <2>6. running' \subseteq Apps /\ toDev' \in Seq(ToDev)
    BY <1>0, <2>3 DEF Types
  <2> QED BY <2>3, <2>4, <2>5, <2>6, DeviceStep
<1> QED BY <1>1, <1>2, <1>3

\* The device lists its apps.
LEMMA AppListStep ==
    ASSUME IInv, DevAppList
    PROVE  IInv' /\ NumsKept
<1>1. up /\ UNCHANGED <<proxy, device, toDev>> /\ running \in SUBSET Apps
  BY DEF DevAppList, MayAnswer, IInv, Types
<1>2. PICK m \in FromDev : m = AppList(running)
  BY <1>1, DeviceSends
<1>3. fromDev' = Append(fromDev, m) /\ m.t # "listing"
  BY <1>1, <1>2, AppListMessage DEF DevAppList, AppList
<1>4. UNCHANGED <<proxy, dev, toDev>> /\ running' \subseteq Apps /\ running' = running
  BY <1>1 DEF device
<1> QED BY <1>1, <1>3, <1>4, SaysStep

\* A page opens or closes, is claimed or released, or its session sends data.
LEMMA PageStep ==
    ASSUME IInv, NEW pg \in PageIds,
           \/ DevPageOpens(pg) \/ DevPageCloses(pg)
           \/ DevRemoteClaims(pg) \/ DevRemoteReleases(pg)
           \/ DevSendsData(pg)
    PROVE  IInv' /\ NumsKept
<1>0. Types /\ AppKnown /\ NoRemote /\ up
  BY DEF IInv, DevPageOpens, DevPageCloses, DevRemoteClaims, DevRemoteReleases, DevSendsData,
         MayAnswer
<1>1. CASE DevSendsData(pg)
  <2>1. PICK m \in FromDev : m = Data(dev[pg])
    BY <1>1, DeviceSends DEF DevSendsData
  <2>2. fromDev' = Append(fromDev, m) /\ m.t # "listing"
    BY <1>1, <2>1, DataMessage DEF DevSendsData, Data
  <2>3. UNCHANGED <<proxy, dev, toDev>> /\ running' \subseteq Apps /\ running' = running
    BY <1>0, <1>1 DEF DevSendsData, Types, device
  <2> QED BY <1>0, <2>2, <2>3, SaysStep
<1>2. CASE DevPageOpens(pg) \/ DevPageCloses(pg) \/ DevRemoteClaims(pg) \/ DevRemoteReleases(pg)
  <2>1. PICK owner \in {Shut, Null, Remote} :
            SetPage(pg, owner) /\ (owner = Remote => RemoteClaims)
    BY <1>2 DEF DevPageOpens, DevPageCloses, DevRemoteClaims, DevRemoteReleases,
                Shut, Null, Remote
  <2>2. UNCHANGED <<proxy, running>> /\ toDev' \in Seq(ToDev)
    BY <1>0, <1>2 DEF DevPageOpens, DevPageCloses, DevRemoteClaims, DevRemoteReleases, Types
  <2>3. AppOf[pg] \in running
    BY <1>0, <1>2 DEF DevPageOpens, DevPageCloses, DevRemoteClaims, DevRemoteReleases,
                      AppKnown, Shut, Remote
  <2> QED BY <1>0, <2>1, <2>2, <2>3, SetPageStep
<1> QED BY <1>1, <1>2

\* The pages and senders that the proxy names are such.
LEMMA ToDevKinds ==
    ASSUME NEW m \in ToDev
    PROVE  /\ m.selector \in {"_rpc_forwardSocketSetup:", "_rpc_forwardDidClose:"} =>
                m.args.PageIdentifier \in PageIds /\ m.args.Sender \in WsIds
           /\ m.selector = "_rpc_forwardGetListing:" => m.args.ApplicationIdentifier \in Apps
<1> USE DEF SendMsg
<1>1. CASE \E app \in Apps : m = GetListing(app)
  BY <1>1 DEF GetListing, ForwardGetListing
<1>2. CASE \E pg \in PageIds, id \in WsIds : m = Setup(pg, id)
  BY <1>2 DEF Setup, ForwardSocketSetup
<1>3. CASE \E pg \in PageIds, id \in WsIds : m = DidClose(pg, id)
  BY <1>3 DEF DidClose, ForwardDidClose
<1> QED BY <1>1, <1>2, <1>3 DEF ToDev

\* The device handles a message of the proxy.
LEMMA DevReceivesStep ==
    ASSUME IInv, DevReceives
    PROVE  IInv' /\ NumsKept
<1>0. Types /\ AppKnown /\ NoRemote /\ up /\ UNCHANGED <<proxy, running>>
  BY DEF IInv, DevReceives, MayAnswer
<1>1. toDev # <<>> /\ toDev' = Tail(toDev)
  BY DEF DevReceives
<1>2. toDev' \in Seq(ToDev) /\ toDev[1] \in ToDev
  BY <1>0, <1>1, TakenOff DEF Types
<1> DEFINE m == toDev[1].args
           is(selector) == toDev[1].selector = selector
<1>3. CASE is("_rpc_forwardSocketSetup:") /\ dev[m.PageIdentifier] # Shut
           /\ SetPage(m.PageIdentifier, m.Sender)
  <2>1. m.PageIdentifier \in PageIds /\ m.Sender \in WsIds
    BY <1>2, <1>3, ToDevKinds
  <2>2. AppOf[m.PageIdentifier] \in running /\ m.Sender # Remote
    BY <1>0, <1>3, <2>1, NamesAssumption DEF AppKnown
  <2>3. PICK pg \in PageIds, owner \in WsIds \cup {Shut, Null, Remote} :
            SetPage(pg, owner) /\ AppOf[pg] \in running /\ owner # Remote
    BY <1>3, <2>1, <2>2
  <2> QED BY <1>0, <1>2, <2>3, SetPageStep
<1>4. CASE is("_rpc_forwardDidClose:") /\ dev[m.PageIdentifier] = m.Sender
           /\ SetPage(m.PageIdentifier, Null)
  <2>1. m.PageIdentifier \in PageIds /\ m.Sender \in WsIds
    BY <1>2, <1>4, ToDevKinds
  <2>2. AppOf[m.PageIdentifier] \in running /\ Null # Remote
    BY <1>0, <1>4, <2>1, NamesAssumption DEF AppKnown, Null, Remote
  <2>3. PICK pg \in PageIds, owner \in WsIds \cup {Shut, Null, Remote} :
            SetPage(pg, owner) /\ AppOf[pg] \in running /\ owner # Remote
    BY <1>4, <2>1, <2>2
  <2> QED BY <1>0, <1>2, <2>3, SetPageStep
<1>5. CASE is("_rpc_forwardGetListing:") /\ m.ApplicationIdentifier \in running
           /\ fromDev' = Append(fromDev, ListingOf(m.ApplicationIdentifier, dev))
           /\ UNCHANGED dev
  <2>0. PICK app \in running : app = m.ApplicationIdentifier
    BY <1>5
  <2>1. PICK d : d = dev
    OBVIOUS
  <2>2. /\ d \in [PageIds -> WsIds \cup {Shut, Null, Remote}] /\ dev' = d
        /\ fromDev' = Append(fromDev, ListingOf(app, d))
        /\ \A pg \in PageIds : d[pg] # Shut => AppOf[pg] \in running
        /\ ~RemoteClaims => \A pg \in PageIds : d[pg] # Remote
    BY <1>0, <1>5, <2>0, <2>1 DEF Types, AppKnown, NoRemote
  <2> QED BY <1>0, <1>2, <2>2, ListsStep
<1>6. CASE UNCHANGED <<dev, fromDev>>
  <2>1. /\ running' \subseteq Apps /\ dev' \in [PageIds -> WsIds \cup {Shut, Null, Remote}]
        /\ fromDev' \in Seq(FromDev)
    BY <1>0, <1>6 DEF Types
  <2>2. /\ ~RemoteClaims => \A pg \in PageIds : dev'[pg] # Remote
        /\ ~RemoteClaims => \A i \in 1..Len(fromDev') : fromDev'[i].t = "listing" =>
                                \A l \in fromDev'[i].pages : l.conn # Remote
    BY <1>0, <1>6 DEF NoRemote
  <2>3. AppKnown'
    BY <1>0, <1>6 DEF AppKnown, proxy
  <2> QED BY <1>0, <1>2, <2>1, <2>2, <2>3, DeviceStep
<1> QED BY <1>3, <1>4, <1>5, <1>6 DEF DevReceives

\* The inspector sends something else.
LEMMA NoiseStep ==
    ASSUME IInv, DevSendsNoise
    PROVE  IInv' /\ NumsKept
<1>1. /\ up /\ UNCHANGED <<proxy, dev, toDev>> /\ running' = running /\ running \subseteq Apps
  BY DEF DevSendsNoise, MayAnswer, device, IInv, Types
<1>2. PICK i \in DOMAIN Noise : fromDev' = Append(fromDev, Noisy(RecvPlist(Noise[i])))
  BY DEF DevSendsNoise, NoisyMessages
<1>3. PICK n \in NoiseCalls : n = RecvPlist(Noise[i])
  BY NoiseAssumption DEF NoiseCalls
<1>4. PICK m \in FromDev : m = Noisy(n)
  BY NoisyCalls
<1>5. m.t # "listing" /\ fromDev' = Append(fromDev, m)
  BY <1>2, <1>3, <1>4, NoisyCalls
<1> QED BY <1>1, <1>5, SaysStep

-----------------------------------------------------------------------------
(* The theorems that follow from IInv.                                     *)

\* IInv holds at first.
LEMMA IndInit == Init => IInv
<1> SUFFICES ASSUME Init PROVE IInv
  OBVIOUS
<1>1. /\ DOMAIN pages = {} /\ pages \in [{} -> PageRecs]
      /\ iws \in [Iwss -> IwsRecs] /\ \A s \in Iwss : iws[s] = NoIws
  BY NoIwsRec DEF Init
<1>2. Graph(pages, iws, maxPageNum) /\ Owned(pages, iws)
  BY <1>1, NoIwsRec DEF Graph, Owned
<1>3. toDev \in Seq(ToDev) /\ fromDev \in Seq(FromDev) /\ Len(fromDev) = 0
  BY EmptySeq DEF Init
<1>4. Types
  BY <1>3 DEF Init, Types
<1>5. AppKnown
  BY <1>3 DEF Init, AppKnown
<1>6. NoRemote
  BY <1>2, <1>3 DEF Init, NoRemote, Shut, Remote
<1> QED BY <1>2, <1>4, <1>5, <1>6 DEF IInv

\* Every step keeps IInv, and the numbers of the pages.
LEMMA IndStep == IInv /\ [Next]_vars => IInv' /\ NumsKept
<1> SUFFICES ASSUME IInv, [Next]_vars PROVE IInv' /\ NumsKept
  OBVIOUS
<1>1. ASSUME NEW s \in Iwss, NEW id \in WsIds, Accept(s, id) PROVE IInv' /\ NumsKept
  BY <1>1, AcceptStep
<1>2. ASSUME NEW s \in Iwss, NEW n \in 1..MaxPageNum, DevtoolsRequest(s, n)
      PROVE  IInv' /\ NumsKept
  BY <1>2, DevtoolsRequestStep
<1>3. ASSUME NEW s \in Iwss, TextFrame(s) \/ CloseClient(s) PROVE IInv' /\ NumsKept
  BY <1>3, TextFrameStep, CloseClientStep
<1>4. CASE RecvConnected \/ RecvUpdated \/ RecvDisconnected \/ RecvAppList
  BY <1>4, RecvConnectedStep, RecvUpdatedStep, RecvDisconnectedStep, RecvAppListStep
<1>5. CASE RecvListing \/ RecvData \/ RecvInvalid \/ RecvOther
  BY <1>5, RecvListingStep, RecvDataStep, RecvInvalidStep, RecvOtherStep
<1>6. ASSUME NEW app \in Apps, DevAppStarts(app) \/ DevAppUpdates(app) \/ DevAppQuits(app)
      PROVE  IInv' /\ NumsKept
  BY <1>6, AppStep
<1>7. CASE DevAppList
  BY <1>7, AppListStep
<1>8. ASSUME NEW pg \in PageIds,
             \/ DevPageOpens(pg) \/ DevPageCloses(pg)
             \/ DevRemoteClaims(pg) \/ DevRemoteReleases(pg)
             \/ DevSendsData(pg)
      PROVE  IInv' /\ NumsKept
  BY <1>8, PageStep
<1>9. CASE DevReceives \/ DevSendsNoise
  BY <1>9, DevReceivesStep, NoiseStep
<1>10. CASE UNCHANGED vars
  <2>1. /\ UNCHANGED <<up, apps, lastApp, pages, maxPageNum, iws, running, dev>>
        /\ toDev' = toDev /\ fromDev' = fromDev
    BY <1>10 DEF vars, proxy, device
  <2>2. Types' /\ (up' => AppKnown')
    BY <2>1 DEF IInv, Types, AppKnown
  <2>3. Graph(pages, iws, maxPageNum)' /\ NoRemote'
    BY <2>1 DEF IInv, NoRemote
  <2>4. NumsKept
    BY <2>1 DEF NumsKept
  <2> QED BY <2>2, <2>3, <2>4 DEF IInv
<1> QED BY <1>1, <1>2, <1>3, <1>4, <1>5, <1>6, <1>7, <1>8, <1>9, <1>10 DEF Next

\* In every reachable state IInv holds: types, the links between pages and clients, that the
\* device lists pages only of apps it said were connected, and, when no other inspector
\* claims pages, that a page's client is connected.
THEOREM Inductive == Spec => []IInv
<1>1. Init => IInv
  BY IndInit
<1>2. IInv /\ [Next]_vars => IInv'
  BY IndStep
<1> QED BY <1>1, <1>2, PTL DEF Spec

\* A client's pointer to a page (iws->ipage) is never stale: iwdp_stop_devtools and the
\* listings clear it before a page is freed, stolen or claimed, whatever the order.
THEOREM PointersNeverStale == Spec => []PagePointers
<1>1. IInv => PagePointers
  BY DEF IInv, Graph, PagePointers
<1> QED BY <1>1, Inductive, PTL

\* A page of the device has one number in the table, however often it is listed, and under
\* whatever connection_id.
THEOREM NumbersUnique == Spec => []OneNumPerPage
<1>1. IInv => OneNumPerPage
  BY DEF IInv, Graph, OneNumPerPage
<1> QED BY <1>1, Inductive, PTL

\* No step gives a page's number to another page or uses again a number that was used.
THEOREM NumbersKept == Spec => PageNumsStable
<1>1. IInv /\ [Next]_vars =>
        [/\ \A n \in DOMAIN pages \cap DOMAIN pages' : pages'[n].id = pages[n].id
         /\ \A n \in DOMAIN pages' \ DOMAIN pages : n > maxPageNum]_<<pages, maxPageNum>>
  BY IndStep DEF NumsKept
<1> QED BY <1>1, Inductive, PTL DEF Spec, PageNumsStable

\* As long as no other inspector claims a page, the client that a page points to is connected
\* and points back; the run devtools_owner shows the listing that breaks it otherwise.
THEOREM OwnersConnected ==
    ASSUME RemoteClaims = FALSE
    PROVE  Spec => []OwnerIsConnected
<1>1. IInv => OwnerIsConnected
  BY DEF IInv, NoRemote, Owned, OwnerIsConnected, HasWsId, Heap
<1> QED BY <1>1, Inductive, PTL

\* What iwdp_on_applicationSentListing calls an error cannot happen: when an app lists its
\* pages some app is known.
LEMMA ListingNeverKills ==
    ASSUME IInv, RecvListing
    PROVE  lastApp # Null
<1>1. up /\ fromDev # <<>> /\ fromDev[1].t = "listing"
  BY DEF RecvListing, Receives, MaySend
<1>2. Len(fromDev) \in Nat \ {0} /\ AppKnown
  BY <1>1, TakenOff DEF IInv, Types
<1>3. ~\A i \in 1..Len(fromDev) : fromDev[i].t # "listing"
  BY <1>1, <1>2
<1>4. ASSUME NEW i \in 1..Len(fromDev), fromDev[i].t = "connected",
             \A j \in 1..(i - 1) : fromDev[j].t # "listing"
      PROVE  FALSE
  <2>1. i # 1
    BY <1>1, <1>4
  <2>2. 1 \in 1..(i - 1)
    BY <1>2, <2>1
  <2> QED BY <1>1, <1>4, <2>2
<1> QED BY <1>2, <1>3, <1>4 DEF AppKnown

\* The step that ends the device is the handling of a faulty message.
LEMMA KilledByFault ==
    ASSUME IInv, [Next]_vars, up, ~up'
    PROVE  \/ fromDev[1].t = "invalid" /\ "noise" \in DOMAIN fromDev[1]
           \/ /\ fromDev[1].t = "data"
              /\ \E s \in Iwss : HasWsId(Heap, s, fromDev[1].id)
<1>1. CASE RecvInvalid
  <2>1. fromDev[1].t = "invalid" /\ fromDev[1] \in FromDev
    BY <1>1, FirstMessage DEF RecvInvalid, Receives
  <2> QED BY <2>1, MessageKinds
<1>2. CASE RecvData
  <2>1. fromDev[1].t = "data"
    BY <1>2 DEF RecvData, Receives
  <2>2. \E s \in Iwss : HasWsId(Heap, s, fromDev[1].id)
    BY <1>2 DEF RecvData, proxy
  <2> QED BY <2>1, <2>2
<1>3. CASE RecvListing
  <2>1. lastApp # Null
    BY <1>3, ListingNeverKills
  <2>2. up' = up
    BY <1>3, <2>1 DEF RecvListing, proxy
  <2> QED BY <2>2
<1>4. CASE RecvConnected \/ RecvUpdated \/ RecvDisconnected \/ RecvAppList \/ RecvOther
  BY <1>4 DEF RecvConnected, RecvUpdated, RecvDisconnected, RecvAppList, RecvOther, proxy
<1>5. \A s \in Iwss : /\ \A id \in WsIds : ~Accept(s, id)
                      /\ \A n \in 1..MaxPageNum : ~DevtoolsRequest(s, n)
                      /\ ~TextFrame(s) /\ ~CloseClient(s)
  BY DEF Accept, DevtoolsRequest, TextFrame, CloseClient
<1>6. UNCHANGED proxy => FALSE
  BY DEF proxy
<1>7. \A app \in Apps : ~DevAppStarts(app) /\ ~DevAppUpdates(app) /\ ~DevAppQuits(app)
  BY <1>6 DEF DevAppStarts, DevAppUpdates, DevAppQuits
<1>8. \A pg \in PageIds : /\ ~DevPageOpens(pg) /\ ~DevPageCloses(pg) /\ ~DevSendsData(pg)
                          /\ ~DevRemoteClaims(pg) /\ ~DevRemoteReleases(pg)
  BY <1>6 DEF DevPageOpens, DevPageCloses, DevRemoteClaims, DevRemoteReleases, DevSendsData
<1>9. ~DevAppList /\ ~DevReceives /\ ~DevSendsNoise /\ ~UNCHANGED vars
  BY <1>6 DEF DevAppList, DevReceives, DevSendsNoise, vars
<1> QED BY <1>1, <1>2, <1>3, <1>4, <1>5, <1>7, <1>8, <1>9 DEF Next

\* The inspector's connection is closed by the proxy only for a message that is not of the
\* protocol, or for data to a connected client whose websocket refuses or fails the frame:
\* no order of the device's news, no listing that comes late and no data for a client that
\* is gone is an error.
THEOREM KilledOnlyByFaults == Spec => OnlyFaultsKill
<1>1. IInv /\ [Next]_vars =>
        [up /\ ~up' =>
            \/ fromDev[1].t = "invalid" /\ "noise" \in DOMAIN fromDev[1]
            \/ /\ fromDev[1].t = "data"
               /\ \E s \in Iwss : HasWsId(Heap, s, fromDev[1].id)]_vars
  BY KilledByFault
<1> QED BY <1>1, Inductive, PTL DEF Spec, OnlyFaultsKill

-----------------------------------------------------------------------------
(* What the messages of the device tell of its apps and pages.             *)

\* What may be known of a device: its apps and its pages.
Views == [apps : SUBSET Apps, pages : SUBSET PageIds]

\* What the proxy knows, with apps and pages P; what the device has, with sessions d.
ProxyView(as, P) == [apps |-> as, pages |-> {P[n].id : n \in DOMAIN P}]
DeviceView(as, d) == [apps |-> as, pages |-> {pg \in PageIds : d[pg] # Shut}]

\* The pages of an app.
PagesIn(app) == {pg \in PageIds : AppOf[pg] = app}

\* What a message of the device makes of what is known, which it fits.
Tells(m, v, w) ==
    /\ m.t \in {"updated", "disconnected", "listing"} => m.app \in v.apps
    /\ m.t = "appList" => m.apps = v.apps
    /\ m.t = "connected" => w = [apps |-> v.apps \cup {m.app}, pages |-> v.pages]
    /\ m.t = "disconnected" =>
            w = [apps |-> v.apps \ {m.app}, pages |-> v.pages \ PagesIn(m.app)]
    /\ m.t = "listing" =>
        /\ \A l \in m.pages : AppOf[l.id] = m.app
        /\ w = [apps |-> v.apps,
                pages |-> (v.pages \ PagesIn(m.app)) \cup {l.id : l \in m.pages}]
    /\ m.t \notin {"connected", "disconnected", "listing"} => w = v

\* The messages q tell, one by one, how v becomes w; f is what is known on the way.
Told(f, q, v, w) ==
    /\ f \in [0..Len(q) -> Views] /\ f[0] = v /\ f[Len(q)] = w
    /\ \A i \in 1..Len(q) : Tells(q[i], f[i - 1], f[i])

\* On the way the page is not there.
Gone(f, q, pg) == \E i \in 0..Len(q) : pg \notin f[i].pages

\* What is told when the first message was taken.
LEMMA ToldHead ==
    ASSUME NEW f, NEW q \in Seq(FromDev), q # <<>>, NEW v, NEW w, Told(f, q, v, w)
    PROVE  \E g : /\ Told(g, Tail(q), f[1], w) /\ Tells(q[1], v, f[1]) /\ f[1] \in Views
                  /\ \A pg : Gone(f, q, pg) => Gone(g, Tail(q), pg) \/ pg \notin v.pages
<1>1. PICK p : p = Tail(q)
  OBVIOUS
<1>2. PICK k \in Nat : k = Len(p)
  BY <1>1, TakenOff
<1>3. /\ Len(q) = k + 1 /\ \A i \in 1..k : p[i] = q[i + 1]
  BY <1>1, <1>2, TakenOff
<1>4. PICK g : g = [i \in 0..k |-> f[i + 1]]
  OBVIOUS
<1>5. /\ f \in [0..(k + 1) -> Views] /\ f[0] = v /\ f[k + 1] = w
      /\ \A i \in 1..(k + 1) : Tells(q[i], f[i - 1], f[i])
  BY <1>3 DEF Told
<1>6. \A i \in 0..k : i + 1 \in 0..(k + 1) /\ g[i] = f[i + 1] /\ g[i] \in Views
  BY <1>4, <1>5
<1>7. g \in [0..k -> Views] /\ g[0] = f[1] /\ g[k] = w
  <2>1. g \in [0..k -> Views]
    BY <1>4, <1>6
  <2>2. 0 \in 0..k /\ k \in 0..k
    OBVIOUS
  <2>3. g[0] = f[0 + 1] /\ g[k] = f[k + 1]
    BY <1>6, <2>2
  <2> QED BY <1>5, <2>1, <2>3
<1>8. ASSUME NEW i \in 1..k PROVE Tells(p[i], g[i - 1], g[i])
  <2>1. i + 1 \in 1..(k + 1) /\ i - 1 \in 0..k /\ i \in 0..k /\ (i + 1) - 1 = i /\ (i - 1) + 1 = i
    OBVIOUS
  <2>2. Tells(q[i + 1], f[(i + 1) - 1], f[i + 1])
    BY <1>5, <2>1
  <2>3. g[i - 1] = f[i] /\ g[i] = f[i + 1] /\ p[i] = q[i + 1]
    BY <1>3, <1>6, <2>1
  <2> QED BY <2>1, <2>2, <2>3
<1>9. Told(g, p, f[1], w)
  BY <1>2, <1>7, <1>8 DEF Told
<1>10. Tells(q[1], v, f[1]) /\ f[1] \in Views
  <2>1. 1 \in 1..(k + 1) /\ 1 - 1 = 0
    OBVIOUS
  <2>2. Tells(q[1], f[1 - 1], f[1]) /\ f[1] \in Views
    BY <1>5, <2>1
  <2> QED BY <1>5, <2>1, <2>2
<1>11. ASSUME NEW pg, Gone(f, q, pg) PROVE Gone(g, p, pg) \/ pg \notin v.pages
  <2>1. PICK i \in 0..(k + 1) : pg \notin f[i].pages
    BY <1>3, <1>11 DEF Gone
  <2>2. CASE i = 0
    BY <1>5, <2>1, <2>2
  <2>3. CASE i # 0
    <3>1. PICK j \in 0..k : i = j + 1
      <4>1. i - 1 \in 0..k /\ i = (i - 1) + 1
        BY <2>3
      <4> QED BY <4>1
    <3>2. pg \notin g[j].pages
      BY <1>6, <2>1, <3>1
    <3> QED BY <1>2, <3>2 DEF Gone
  <2> QED BY <2>2, <2>3
<1> QED BY <1>1, <1>9, <1>10, <1>11

\* What is told when the device sends one message more.
LEMMA ToldOn ==
    ASSUME NEW f, NEW q \in Seq(FromDev), NEW v, NEW w, Told(f, q, v, w),
           NEW m \in FromDev, NEW x \in Views, Tells(m, w, x)
    PROVE  \E g : /\ Told(g, Append(q, m), v, x)
                  /\ \A pg : /\ Gone(f, q, pg) => Gone(g, Append(q, m), pg)
                             /\ pg \notin w.pages => Gone(g, Append(q, m), pg)
                             /\ pg \notin x.pages => Gone(g, Append(q, m), pg)
<1>1. PICK p : p = Append(q, m)
  OBVIOUS
<1>2. PICK k \in Nat : k = Len(q)
  BY LenProperties
<1>3. /\ Len(p) = k + 1 /\ p[k + 1] = m /\ \A i \in 1..k : p[i] = q[i]
  BY <1>1, <1>2, SentOn
<1>4. PICK g : g = [i \in 0..(k + 1) |-> IF i = k + 1 THEN x ELSE f[i]]
  OBVIOUS
<1>5. /\ f \in [0..k -> Views] /\ f[0] = v /\ f[k] = w
      /\ \A i \in 1..k : Tells(q[i], f[i - 1], f[i])
  BY <1>2 DEF Told
<1>6. /\ g[k + 1] = x /\ \A i \in 0..k : i \in 0..(k + 1) /\ g[i] = f[i]
  <2>1. \A i \in 0..k : i \in 0..(k + 1) /\ i # k + 1
    OBVIOUS
  <2> QED BY <1>4, <2>1
<1>7. \A i \in 0..(k + 1) : i = k + 1 \/ i \in 0..k
  OBVIOUS
<1>8. g \in [0..(k + 1) -> Views]
  BY <1>4, <1>5, <1>7
<1>9. ASSUME NEW i \in 1..(k + 1) PROVE Tells(p[i], g[i - 1], g[i])
  <2>1. CASE i = k + 1
    <3>1. i - 1 = k /\ k \in 0..k
      BY <2>1
    <3> QED BY <1>3, <1>5, <1>6, <2>1, <3>1
  <2>2. CASE i # k + 1
    <3>1. i \in 1..k /\ i \in 0..k /\ i - 1 \in 0..k
      BY <2>2
    <3> QED BY <1>3, <1>5, <1>6, <3>1
  <2> QED BY <2>1, <2>2
<1>10. Told(g, p, v, x)
  <2>1. 0 \in 0..k
    OBVIOUS
  <2>2. g[0] = v
    BY <1>5, <1>6, <2>1
  <2> QED BY <1>3, <1>6, <1>8, <1>9, <2>2 DEF Told
<1>11. ASSUME NEW pg, \E i \in 0..(k + 1) : pg \notin g[i].pages PROVE Gone(g, p, pg)
  BY <1>3, <1>11 DEF Gone
<1>12. ASSUME NEW pg, Gone(f, q, pg) PROVE Gone(g, p, pg)
  <2>1. PICK i \in 0..k : pg \notin f[i].pages
    BY <1>2, <1>12 DEF Gone
  <2>2. i \in 0..(k + 1) /\ pg \notin g[i].pages
    BY <1>6, <2>1
  <2> QED BY <1>11, <2>2
<1>13. ASSUME NEW pg, pg \notin w.pages PROVE Gone(g, p, pg)
  <2>1. k \in 0..(k + 1) /\ k \in 0..k
    OBVIOUS
  <2>2. pg \notin g[k].pages
    BY <1>5, <1>6, <1>13, <2>1
  <2> QED BY <1>11, <2>1, <2>2
<1>14. ASSUME NEW pg, pg \notin x.pages PROVE Gone(g, p, pg)
  <2>1. k + 1 \in 0..(k + 1)
    OBVIOUS
  <2>2. pg \notin g[k + 1].pages
    BY <1>6, <1>14
  <2> QED BY <1>11, <2>1, <2>2
<1> QED BY <1>1, <1>10, <1>12, <1>13, <1>14

-----------------------------------------------------------------------------
(* The owner of a page, on the way through the messages of the proxy.      *)

Owners == WsIds \cup {Null}

\* A message of the proxy that opens or closes a session of the page.
About(m, pg) == \E id \in WsIds : m = Setup(pg, id) \/ m = DidClose(pg, id)

\* What such a message, sent when the page's owner is o, makes of it.
Opens(m, pg, o, r) == o = Null /\ r \in WsIds /\ m = Setup(pg, r)
Closes(m, pg, o, r) == o \in WsIds /\ r = Null /\ m = DidClose(pg, o)
Moves(m, pg, o, r) ==
    Opens(m, pg, o, r) \/ Closes(m, pg, o, r) \/ (~About(m, pg) /\ r = o)

\* The messages q are of a page whose owner was o and becomes r; u is who owns it on the way.
Said(u, q, pg, o, r) ==
    /\ u \in [0..Len(q) -> Owners] /\ u[0] = o /\ u[Len(q)] = r
    /\ \A i \in 1..Len(q) : Moves(q[i], pg, u[i - 1], u[i])

\* On the way someone else than r has the page, or no one.
Strays(u, q, r) == \E i \in 0..Len(q) : u[i] # r

\* With messages q in flight and owner r, the device has session x for the page, or will
\* hear of another, or its page is gone.
Sess(pg, r, q, x, gone) ==
    \E o, u :
        /\ o \in Owners /\ Said(u, q, pg, o, r)
        /\ x \in WsIds => o = x
        /\ r = Null \/ x = r \/ gone \/ Strays(u, q, r)

\* A message names its page and its session.
LEMMA OneMeaning ==
    ASSUME NEW pg, NEW id, NEW p, NEW i
    PROVE  /\ Setup(pg, id) = Setup(p, i) => pg = p /\ id = i
           /\ DidClose(pg, id) = DidClose(p, i) => pg = p /\ id = i
           /\ Setup(pg, id) # DidClose(p, i)
           /\ \A app : GetListing(app) # Setup(pg, id) /\ GetListing(app) # DidClose(pg, id)
<1> USE DEF SendMsg, Setup, DidClose, GetListing, ForwardSocketSetup, ForwardDidClose,
            ForwardGetListing
<1>1. /\ Setup(pg, id).selector = "_rpc_forwardSocketSetup:"
      /\ Setup(pg, id).args.PageIdentifier = pg /\ Setup(pg, id).args.Sender = id
      /\ Setup(p, i).args.PageIdentifier = p /\ Setup(p, i).args.Sender = i
  OBVIOUS
<1>2. /\ DidClose(pg, id).selector = "_rpc_forwardDidClose:"
      /\ DidClose(pg, id).args.PageIdentifier = pg /\ DidClose(pg, id).args.Sender = id
      /\ DidClose(p, i).args.PageIdentifier = p /\ DidClose(p, i).args.Sender = i
      /\ DidClose(p, i).selector = "_rpc_forwardDidClose:"
  OBVIOUS
<1>3. \A app : GetListing(app).selector = "_rpc_forwardGetListing:"
  OBVIOUS
<1> HIDE DEF SendMsg, Setup, DidClose, GetListing, ForwardSocketSetup, ForwardDidClose,
             ForwardGetListing
<1>4. Setup(pg, id) # DidClose(p, i)
  <2>1. "_rpc_forwardSocketSetup:" # "_rpc_forwardDidClose:"
    OBVIOUS
  <2> QED BY <1>1, <1>2, <2>1
<1>5. \A app : GetListing(app) # Setup(pg, id) /\ GetListing(app) # DidClose(pg, id)
  <2>1. /\ "_rpc_forwardSocketSetup:" # "_rpc_forwardGetListing:"
        /\ "_rpc_forwardDidClose:" # "_rpc_forwardGetListing:"
    OBVIOUS
  <2> QED BY <1>1, <1>2, <1>3, <2>1
<1> QED BY <1>1, <1>2, <1>4, <1>5

\* What is said when the first message was taken.
LEMMA SaidHead ==
    ASSUME NEW u, NEW q \in Seq(ToDev), q # <<>>, NEW pg, NEW o, NEW r, Said(u, q, pg, o, r)
    PROVE  \E z : /\ Said(z, Tail(q), pg, u[1], r) /\ Moves(q[1], pg, o, u[1])
                  /\ z[0] = u[1] /\ u[1] \in Owners
                  /\ Strays(u, q, r) =>
                        o # r \/ Strays(z, Tail(q), r)
<1>1. PICK p : p = Tail(q)
  OBVIOUS
<1>2. PICK k \in Nat : k = Len(p)
  BY <1>1, TakenOff
<1>3. /\ Len(q) = k + 1 /\ \A i \in 1..k : p[i] = q[i + 1]
  BY <1>1, <1>2, TakenOff
<1>4. PICK z : z = [i \in 0..k |-> u[i + 1]]
  OBVIOUS
<1>5. /\ u \in [0..(k + 1) -> Owners] /\ u[0] = o /\ u[k + 1] = r
      /\ \A i \in 1..(k + 1) : Moves(q[i], pg, u[i - 1], u[i])
  BY <1>3 DEF Said
<1>6. \A i \in 0..k : i + 1 \in 0..(k + 1) /\ z[i] = u[i + 1] /\ z[i] \in Owners
  BY <1>4, <1>5
<1>7. z \in [0..k -> Owners] /\ z[0] = u[1] /\ z[k] = r
  <2>1. z \in [0..k -> Owners]
    BY <1>4, <1>6
  <2>2. 0 \in 0..k /\ k \in 0..k
    OBVIOUS
  <2>3. z[0] = u[0 + 1] /\ z[k] = u[k + 1]
    BY <1>6, <2>2
  <2> QED BY <1>5, <2>1, <2>3
<1>8. ASSUME NEW i \in 1..k PROVE Moves(p[i], pg, z[i - 1], z[i])
  <2>1. i + 1 \in 1..(k + 1) /\ i - 1 \in 0..k /\ i \in 0..k /\ (i + 1) - 1 = i /\ (i - 1) + 1 = i
    OBVIOUS
  <2>2. Moves(q[i + 1], pg, u[(i + 1) - 1], u[i + 1])
    BY <1>5, <2>1
  <2>3. z[i - 1] = u[i] /\ z[i] = u[i + 1] /\ p[i] = q[i + 1]
    BY <1>3, <1>6, <2>1
  <2> QED BY <2>1, <2>2, <2>3
<1>9. Said(z, p, pg, u[1], r)
  BY <1>2, <1>7, <1>8 DEF Said
<1>10. Moves(q[1], pg, o, u[1]) /\ u[1] \in Owners
  <2>1. 1 \in 1..(k + 1) /\ 1 - 1 = 0
    OBVIOUS
  <2>2. Moves(q[1], pg, u[1 - 1], u[1]) /\ u[1] \in Owners
    BY <1>5, <2>1
  <2> QED BY <1>5, <2>1, <2>2
<1>11. ASSUME Strays(u, q, r), o = r PROVE Strays(z, p, r)
  <2>1. PICK i \in 0..(k + 1) : u[i] # r
    BY <1>3, <1>11 DEF Strays
  <2>2. i # 0
    BY <1>5, <1>11, <2>1
  <2>3. PICK j \in 0..k : i = j + 1
    <3>1. i - 1 \in 0..k /\ i = (i - 1) + 1
      BY <2>2
    <3> QED BY <3>1
  <2>4. z[j] # r
    BY <1>6, <2>1, <2>3
  <2> QED BY <1>2, <2>4 DEF Strays
<1> QED BY <1>1, <1>7, <1>9, <1>10, <1>11

\* What is said when the proxy sends more messages.
LEMMA SaidOn ==
    ASSUME NEW u, NEW q \in Seq(ToDev), NEW pg, NEW o, NEW r, Said(u, q, pg, o, r),
           NEW z, NEW s \in Seq(ToDev), NEW t, Said(z, s, pg, r, t)
    PROVE  \E y : /\ Said(y, q \o s, pg, o, t)
                  /\ \A x : Strays(u, q, x) => Strays(y, q \o s, x)
                  /\ \A x : Strays(z, s, x) => Strays(y, q \o s, x)
<1>1. PICK p : p = q \o s
  OBVIOUS
<1>2. PICK k \in Nat, l \in Nat : k = Len(q) /\ l = Len(s)
  BY LenProperties
<1>3. /\ Len(p) = k + l /\ (\A i \in 1..k : p[i] = q[i]) /\ \A i \in 1..l : p[k + i] = s[i]
  <2>1. Len(p) = k + l
    BY <1>1, <1>2
  <2>2. \A i \in 1..k : p[i] = q[i]
    BY <1>1, <1>2
  <2>3. \A i \in 1..l : p[k + i] = s[i]
    BY <1>1, <1>2
  <2> QED BY <2>1, <2>2, <2>3
<1>4. PICK y : y = [i \in 0..(k + l) |-> IF i <= k THEN u[i] ELSE z[i - k]]
  OBVIOUS
<1>5. /\ u \in [0..k -> Owners] /\ u[0] = o /\ u[k] = r
      /\ \A i \in 1..k : Moves(q[i], pg, u[i - 1], u[i])
  BY <1>2 DEF Said
<1>6. /\ z \in [0..l -> Owners] /\ z[0] = r /\ z[l] = t
      /\ \A i \in 1..l : Moves(s[i], pg, z[i - 1], z[i])
  BY <1>2 DEF Said
<1>7. \A i \in 0..k : i \in 0..(k + l) /\ y[i] = u[i]
  BY <1>4
<1>8. \A i \in 0..l : k + i \in 0..(k + l) /\ y[k + i] = z[i]
  <2>1. ASSUME NEW i \in 0..l PROVE k + i \in 0..(k + l) /\ y[k + i] = z[i]
    <3>1. k + i \in 0..(k + l) /\ (k + i) - k = i
      OBVIOUS
    <3>2. CASE i = 0
      <4>1. k \in 0..k /\ k + i = k
        BY <3>2
      <4> QED BY <1>5, <1>6, <1>7, <3>1, <3>2, <4>1
    <3>3. CASE i # 0
      <4>1. ~(k + i <= k)
        BY <3>3
      <4> QED BY <1>4, <3>1, <4>1
    <3> QED BY <3>2, <3>3
  <2> QED BY <2>1
<1>9. \A i \in 0..(k + l) : i \in 0..k \/ \E j \in 1..l : i = k + j
  <2>1. ASSUME NEW i \in 0..(k + l), i \notin 0..k PROVE i - k \in 1..l /\ i = k + (i - k)
    BY <2>1
  <2> QED BY <2>1
<1>10. y \in [0..(k + l) -> Owners]
  <2>1. ASSUME NEW i \in 0..(k + l) PROVE y[i] \in Owners
    <3>1. CASE i \in 0..k
      BY <1>5, <1>7, <3>1
    <3>2. CASE \E j \in 1..l : i = k + j
      <4>1. PICK j \in 0..l : i = k + j
        BY <3>2
      <4> QED BY <1>6, <1>8, <4>1
    <3> QED BY <1>9, <3>1, <3>2
  <2> QED BY <1>4, <2>1
<1>11. ASSUME NEW i \in 1..(k + l) PROVE Moves(p[i], pg, y[i - 1], y[i])
  <2>1. CASE i \in 1..k
    <3>1. i \in 0..k /\ i - 1 \in 0..k
      BY <2>1
    <3> QED BY <1>3, <1>5, <1>7, <2>1, <3>1
  <2>2. CASE \E j \in 1..l : i = k + j
    <3>1. PICK j \in 1..l : i = k + j
      BY <2>2
    <3>2. j \in 0..l /\ j - 1 \in 0..l /\ i - 1 = k + (j - 1)
      BY <3>1
    <3>3. y[i - 1] = z[j - 1] /\ y[i] = z[j] /\ p[i] = s[j]
      BY <1>3, <1>8, <3>1, <3>2
    <3> QED BY <1>6, <3>3
  <2>3. i \in 0..(k + l) /\ (i \in 0..k => i \in 1..k)
    OBVIOUS
  <2> QED BY <1>9, <2>1, <2>2, <2>3
<1>12. Said(y, p, pg, o, t)
  <2>1. 0 \in 0..k /\ l \in 0..l
    OBVIOUS
  <2>2. y[0] = o /\ y[k + l] = t
    BY <1>5, <1>6, <1>7, <1>8, <2>1
  <2> QED BY <1>3, <1>10, <1>11, <2>2 DEF Said
<1>13. ASSUME NEW x, Strays(u, q, x) PROVE Strays(y, p, x)
  <2>1. PICK i \in 0..k : u[i] # x
    BY <1>2, <1>13 DEF Strays
  <2>2. i \in 0..(k + l) /\ y[i] # x
    BY <1>7, <2>1
  <2> QED BY <1>3, <2>2 DEF Strays
<1>14. ASSUME NEW x, Strays(z, s, x) PROVE Strays(y, p, x)
  <2>1. PICK i \in 0..l : z[i] # x
    BY <1>2, <1>14 DEF Strays
  <2>2. k + i \in 0..(k + l) /\ y[k + i] # x
    BY <1>8, <2>1
  <2> QED BY <1>3, <2>2 DEF Strays
<1> QED BY <1>1, <1>12, <1>13, <1>14

\* Nothing in flight changes; the page may be gone, or the device shuts it or has it open again.
LEMMA SessWeakens ==
    ASSUME NEW pg, NEW r, NEW q, NEW x, NEW g, Sess(pg, r, q, x, g), NEW y, NEW h,
           y \in WsIds => y = x,
           r = Null \/ h \/ (y = x /\ ~g)
    PROVE  Sess(pg, r, q, y, h)
BY DEF Sess

\* The device takes a message that is not of this page.
LEMMA SessOthers ==
    ASSUME NEW pg, NEW r \in Owners, NEW q \in Seq(ToDev), q # <<>>, NEW x, NEW g,
           Sess(pg, r, q, x, g), ~About(q[1], pg)
    PROVE  Sess(pg, r, Tail(q), x, g)
<1>1. PICK o, u : /\ o \in Owners /\ Said(u, q, pg, o, r)
                  /\ x \in WsIds => o = x
                  /\ r = Null \/ x = r \/ g \/ Strays(u, q, r)
  BY DEF Sess
<1>3. PICK z : /\ Said(z, Tail(q), pg, u[1], r) /\ Moves(q[1], pg, o, u[1])
               /\ z[0] = u[1] /\ u[1] \in Owners
               /\ Strays(u, q, r) =>
                      o # r \/ Strays(z, Tail(q), r)
  BY <1>1, SaidHead
<1>4. u[1] = o
  <2>2. ~Opens(q[1], pg, o, u[1]) /\ ~Closes(q[1], pg, o, u[1])
    BY <1>1 DEF About, Opens, Closes
  <2> QED BY <1>3, <2>2 DEF Moves
<1>5. 0 \in 0..Len(Tail(q))
  BY TakenOff, LenProperties
<1>6. o # r => Strays(z, Tail(q), r)
  BY <1>3, <1>4, <1>5 DEF Strays
<1> QED BY <1>1, <1>3, <1>4, <1>6 DEF Sess

\* The device takes a message that opens a session of the page, or finds the page shut.
LEMMA SessOpens ==
    ASSUME NEW pg \in PageIds, NEW r \in Owners, NEW q \in Seq(ToDev), q # <<>>, NEW x, NEW g,
           Sess(pg, r, q, x, g), NEW id \in WsIds, NEW h
    PROVE  q[1] = Setup(pg, id) =>
            /\ Sess(pg, r, Tail(q), id, h)
            /\ h => Sess(pg, r, Tail(q), x, h)
<1>1. PICK o, u : o \in Owners /\ Said(u, q, pg, o, r) /\ (x \in WsIds => o = x)
  BY DEF Sess
<1>3. PICK z : /\ Said(z, Tail(q), pg, u[1], r) /\ Moves(q[1], pg, o, u[1])
               /\ z[0] = u[1] /\ u[1] \in Owners
               /\ Strays(u, q, r) => o # r \/ Strays(z, Tail(q), r)
  BY <1>1, SaidHead
<1> SUFFICES ASSUME q[1] = Setup(pg, id)
             PROVE  Sess(pg, r, Tail(q), id, h) /\ (h => Sess(pg, r, Tail(q), x, h))
  OBVIOUS
<1>4. o = Null /\ u[1] = id
  <2>1. About(q[1], pg)
    BY DEF About
  <2>2. ~Closes(q[1], pg, o, u[1])
    BY OneMeaning DEF Closes
  <2>3. Opens(q[1], pg, o, u[1])
    BY <1>3, <2>1, <2>2 DEF Moves
  <2>4. o = Null /\ u[1] \in WsIds /\ Setup(pg, id) = Setup(pg, u[1])
    BY <2>3 DEF Opens
  <2>5. PICK i : i = u[1]
    OBVIOUS
  <2>6. i = id
    BY <2>4, <2>5, OneMeaning
  <2> QED BY <2>4, <2>5, <2>6
<1>5. x \notin WsIds
  BY <1>1, <1>4, NamesAssumption
<1>6. 0 \in 0..Len(Tail(q))
  BY TakenOff, LenProperties
<1>7. Sess(pg, r, Tail(q), id, h)
  BY <1>3, <1>4, <1>6 DEF Sess, Strays
<1>8. h => Sess(pg, r, Tail(q), x, h)
  BY <1>3, <1>5 DEF Sess
<1> QED BY <1>7, <1>8

\* The device takes a message that closes a session of the page, its own or another.
LEMMA SessCloses ==
    ASSUME NEW pg \in PageIds, NEW r \in Owners, NEW q \in Seq(ToDev), q # <<>>, NEW x, NEW g,
           Sess(pg, r, q, x, g), NEW id \in WsIds, NEW h,
           NEW y, IF x = id THEN y = Null ELSE y = x
    PROVE  q[1] = DidClose(pg, id) => Sess(pg, r, Tail(q), y, h)
<1>1. PICK o, u : o \in Owners /\ Said(u, q, pg, o, r) /\ (x \in WsIds => o = x)
  BY DEF Sess
<1>3. PICK z : /\ Said(z, Tail(q), pg, u[1], r) /\ Moves(q[1], pg, o, u[1])
               /\ z[0] = u[1] /\ u[1] \in Owners
               /\ Strays(u, q, r) => o # r \/ Strays(z, Tail(q), r)
  BY <1>1, SaidHead
<1> SUFFICES ASSUME q[1] = DidClose(pg, id) PROVE Sess(pg, r, Tail(q), y, h)
  OBVIOUS
<1>4. o = id /\ u[1] = Null
  <2>1. About(q[1], pg)
    BY DEF About
  <2>2. ~Opens(q[1], pg, o, u[1])
    BY OneMeaning DEF Opens
  <2>3. Closes(q[1], pg, o, u[1])
    BY <1>3, <2>1, <2>2 DEF Moves
  <2>4. u[1] = Null /\ o \in WsIds /\ DidClose(pg, id) = DidClose(pg, o)
    BY <2>3 DEF Closes
  <2>5. o = id
    BY <2>4, OneMeaning
  <2> QED BY <2>4, <2>5
<1>5. y \notin WsIds
  BY <1>1, <1>4, NamesAssumption
<1>6. 0 \in 0..Len(Tail(q))
  BY TakenOff, LenProperties
<1>7. r = Null \/ z[0] # r
  BY <1>3, <1>4
<1> QED BY <1>3, <1>4, <1>5, <1>6, <1>7 DEF Sess, Strays

-----------------------------------------------------------------------------
(* What the messages that a handler sends make of an owner.                *)

\* The messages s make of owner o owner r, who is told last if not the same.
Carries(s, pg, o, r) ==
    \E z : /\ Said(z, s, pg, o, r)
           /\ r = Null \/ r = o \/ Strays(z, s, r)

\* The proxy sends messages s of its own.
LEMMA SessSends ==
    ASSUME NEW pg, NEW o \in Owners, NEW q \in Seq(ToDev), NEW x, NEW g, Sess(pg, o, q, x, g),
           NEW s \in Seq(ToDev), NEW r \in Owners, Carries(s, pg, o, r),
           NEW h, g => h \/ o = Null
    PROVE  Sess(pg, r, q \o s, x, h)
<1>1. PICK a, u : /\ a \in Owners /\ Said(u, q, pg, a, o)
                  /\ x \in WsIds => a = x
                  /\ o = Null \/ x = o \/ g \/ Strays(u, q, o)
  BY DEF Sess
<1>2. PICK z : /\ Said(z, s, pg, o, r)
               /\ r = Null \/ r = o \/ Strays(z, s, r)
  BY DEF Carries
<1>4. PICK y : /\ Said(y, q \o s, pg, a, r)
               /\ \A c : Strays(u, q, c) => Strays(y, q \o s, c)
               /\ \A c : Strays(z, s, c) => Strays(y, q \o s, c)
  BY <1>1, <1>2, SaidOn
<1>6. r = Null \/ x = r \/ h \/ Strays(y, q \o s, r)
  <2>1. CASE r = o
    BY <1>1, <1>4, <2>1
  <2>2. CASE r # o
    BY <1>2, <1>4, <2>2
  <2> QED BY <2>1, <2>2
<1> QED BY <1>1, <1>4, <1>6 DEF Sess

\* Messages of other pages say nothing.
LEMMA CarriesNothing ==
    ASSUME NEW s \in Seq(ToDev), NEW pg, NEW o \in Owners, \A i \in 1..Len(s) : ~About(s[i], pg)
    PROVE  Carries(s, pg, o, o)
<1>1. PICK k \in Nat : k = Len(s)
  BY LenProperties
<1>2. PICK z : z = [i \in 0..k |-> o]
  OBVIOUS
<1>3. \A i \in 1..k : i \in 0..k /\ i - 1 \in 0..k
  OBVIOUS
<1>4. z \in [0..k -> Owners] /\ z[0] = o /\ z[k] = o /\ \A i \in 1..k : z[i] = o /\ z[i - 1] = o
  BY <1>2, <1>3
<1>5. \A i \in 1..k : Moves(s[i], pg, z[i - 1], z[i])
  BY <1>1, <1>4 DEF Moves
<1> QED BY <1>1, <1>4, <1>5 DEF Carries, Said

\* One message closes the session, the others are of other pages.
LEMMA CarriesClose ==
    ASSUME NEW s \in Seq(ToDev), NEW pg, NEW o \in WsIds, NEW n \in 1..Len(s),
           s[n] = DidClose(pg, o), \A i \in 1..Len(s) : i # n => ~About(s[i], pg)
    PROVE  Carries(s, pg, o, Null)
<1>1. PICK k \in Nat : k = Len(s)
  BY LenProperties
<1>2. PICK z : z = [i \in 0..k |-> IF i < n THEN o ELSE Null]
  OBVIOUS
<1>3. z \in [0..k -> Owners]
  BY <1>2 DEF Owners
<1>4. n \in 1..k
  BY <1>1
<1>5. z[0] = o /\ z[k] = Null
  BY <1>2, <1>4
<1>6. ASSUME NEW i \in 1..k PROVE Moves(s[i], pg, z[i - 1], z[i])
  <2>1. i \in 0..k /\ i - 1 \in 0..k
    OBVIOUS
  <2>2. CASE i = n
    <3>1. z[i - 1] = o /\ z[i] = Null
      BY <1>2, <1>4, <2>1, <2>2
    <3> QED BY <2>2, <3>1 DEF Moves, Closes
  <2>3. CASE i # n
    <3>1. z[i - 1] = z[i]
      BY <1>2, <1>4, <2>1, <2>3
    <3>2. ~About(s[i], pg)
      BY <1>1, <2>3
    <3> QED BY <3>1, <3>2 DEF Moves
  <2> QED BY <2>2, <2>3
<1> QED BY <1>1, <1>3, <1>5, <1>6 DEF Carries, Said

\* A page that no client has is opened.
LEMMA CarriesOpen ==
    ASSUME NEW pg \in PageIds, NEW id \in WsIds
    PROVE  Carries(<<Setup(pg, id)>>, pg, Null, id)
<1>1. PICK s, m : s = <<m>> /\ m = Setup(pg, id)
  OBVIOUS
<1>2. Len(s) = 1 /\ s[1] = m
  BY <1>1
<1>3. PICK z : z = [i \in 0..1 |-> IF i = 0 THEN Null ELSE id]
  OBVIOUS
<1>4. z \in [0..1 -> Owners] /\ z[0] = Null /\ z[1] = id
  BY <1>3 DEF Owners
<1>5. Moves(m, pg, Null, id)
  BY <1>1 DEF Moves, Opens
<1>6. \A i \in 1..1 : i = 1 /\ i - 1 = 0
  OBVIOUS
<1>7. Said(z, s, pg, Null, id)
  BY <1>2, <1>4, <1>5, <1>6 DEF Said
<1>8. z[0] # id
  BY <1>4, NamesAssumption
<1> QED BY <1>1, <1>2, <1>7, <1>8 DEF Carries, Strays

\* A page is taken from one client and opened for another.
LEMMA CarriesSteal ==
    ASSUME NEW pg \in PageIds, NEW o \in WsIds, NEW id \in WsIds
    PROVE  Carries(<<DidClose(pg, o), Setup(pg, id)>>, pg, o, id)
<1>1. PICK s, m, n : s = <<n, m>> /\ m = Setup(pg, id) /\ n = DidClose(pg, o)
  OBVIOUS
<1>2. Len(s) = 2 /\ s[1] = n /\ s[2] = m
  BY <1>1
<1>3. PICK z : z = [i \in 0..2 |-> IF i = 0 THEN o ELSE IF i = 1 THEN Null ELSE id]
  OBVIOUS
<1>4. z \in [0..2 -> Owners] /\ z[0] = o /\ z[1] = Null /\ z[2] = id
  BY <1>3 DEF Owners
<1>5. Moves(n, pg, o, Null) /\ Moves(m, pg, Null, id)
  BY <1>1 DEF Moves, Opens, Closes
<1>6. \A i \in 1..2 : (i = 1 /\ i - 1 = 0) \/ (i = 2 /\ i - 1 = 1)
  OBVIOUS
<1>7. Said(z, s, pg, o, id)
  BY <1>2, <1>4, <1>5, <1>6 DEF Said
<1>8. z[1] # id /\ 1 \in 0..2
  BY <1>4, NamesAssumption
<1> QED BY <1>1, <1>2, <1>7, <1>8 DEF Carries, Strays

-----------------------------------------------------------------------------
(* What the device is told when the table changes.                         *)

\* The owner of a page: the ws_id of the client it points to, or no one.
OwnedBy(P, pg, o) ==
    \/ \E n \in DOMAIN P : P[n].id = pg /\ P[n].iws # Null /\ o = P[n].sender
    \/ o = Null /\ \A n \in DOMAIN P : P[n].id = pg => P[n].iws = Null

\* From pages P to Q, the messages s tell of every page who has it then.
Conveys(P, Q, s) ==
    \A pg \in PageIds, o \in Owners : OwnedBy(P, pg, o) =>
        \E r \in Owners : OwnedBy(Q, pg, r) /\ Carries(s, pg, o, r)

\* No page is another inspector's.
Local(P) == \A n \in DOMAIN P : P[n].conn # Remote

\* Page n lost its client, or was dropped with it.
Lost(P, Q, n) == P[n].iws # Null /\ (n \notin DOMAIN Q \/ Q[n].iws = Null)

\* From pages P to Q some lose their client or are dropped, which s tells the device, once.
Releases(P, Q, s) ==
    /\ DOMAIN Q \subseteq DOMAIN P
    /\ \A n \in DOMAIN Q : /\ Q[n].id = P[n].id /\ Q[n].conn = P[n].conn
                           /\ Q[n].iws = Null \/ Q[n] = P[n]
    /\ \A i \in 1..Len(s) : \E n \in DOMAIN P :
            Lost(P, Q, n) /\ s[i] = DidClose(P[n].id, P[n].sender)
    /\ \A n \in DOMAIN P : Lost(P, Q, n) =>
            \E i \in 1..Len(s) : s[i] = DidClose(P[n].id, P[n].sender)
    /\ \A i, j \in 1..Len(s) : s[i] = s[j] => i = j

\* A page that has a client has its ws_id.
LEMMA OwnerHasId ==
    ASSUME NEW P, NEW C, NEW top, Graph(P, C, top), Owned(P, C), NEW n \in DOMAIN P, P[n].iws # Null
    PROVE  P[n].sender \in WsIds /\ P[n].id \in PageIds
<1>1. P[n].iws \in Iwss /\ P[n].id \in PageIds
  BY DEF Graph, PageRecs
<1>2. C[P[n].iws].live /\ C[P[n].iws].id = P[n].sender
  BY DEF Owned
<1> QED BY <1>1, <1>2 DEF Graph

\* To release pages conveys it.
LEMMA ReleasesConveys ==
    ASSUME NEW P, NEW C, NEW top, Graph(P, C, top), Owned(P, C), NEW Q, NEW s \in Seq(ToDev),
           Releases(P, Q, s)
    PROVE  Conveys(P, Q, s)
<1> SUFFICES ASSUME NEW pg \in PageIds, NEW o \in Owners, OwnedBy(P, pg, o)
             PROVE  \E r \in Owners : OwnedBy(Q, pg, r) /\ Carries(s, pg, o, r)
  BY DEF Conveys
<1>1. ASSUME NEW i \in 1..Len(s), About(s[i], pg)
      PROVE  \E n \in DOMAIN P : /\ P[n].id = pg /\ Lost(P, Q, n)
                                 /\ s[i] = DidClose(pg, P[n].sender)
  <2>1. PICK n \in DOMAIN P : Lost(P, Q, n) /\ s[i] = DidClose(P[n].id, P[n].sender)
    BY DEF Releases
  <2>2. PICK id : s[i] = Setup(pg, id) \/ s[i] = DidClose(pg, id)
    BY <1>1 DEF About
  <2>3. PICK p, w : p = P[n].id /\ w = P[n].sender
    OBVIOUS
  <2>4. s[i] = DidClose(p, w)
    BY <2>1, <2>3
  <2>5. p = pg
    BY <2>2, <2>4, OneMeaning
  <2> QED BY <2>1, <2>3, <2>5
<1>2. CASE o = Null /\ \A n \in DOMAIN P : P[n].id = pg => P[n].iws = Null
  <2>1. \A i \in 1..Len(s) : ~About(s[i], pg)
    BY <1>1, <1>2 DEF Lost
  <2>2. Carries(s, pg, o, o)
    BY <2>1, CarriesNothing
  <2>3. OwnedBy(Q, pg, o)
    BY <1>2 DEF Releases, OwnedBy
  <2> QED BY <2>2, <2>3
<1>3. CASE \E n \in DOMAIN P : P[n].id = pg /\ P[n].iws # Null /\ o = P[n].sender
  <2>1. PICK n \in DOMAIN P : P[n].id = pg /\ P[n].iws # Null /\ o = P[n].sender
    BY <1>3
  <2>2. o \in WsIds
    BY <2>1, OwnerHasId
  <2>3. \A m \in DOMAIN P : P[m].id = pg => m = n
    BY <2>1 DEF Graph
  <2>4. CASE Lost(P, Q, n)
    <3>1. PICK i \in 1..Len(s) : s[i] = DidClose(P[n].id, P[n].sender)
      BY <2>4 DEF Releases
    <3>2. s[i] = DidClose(pg, o)
      BY <2>1, <3>1
    <3>3. ASSUME NEW j \in 1..Len(s), About(s[j], pg) PROVE j = i
      <4>1. PICK m \in DOMAIN P : P[m].id = pg /\ s[j] = DidClose(pg, P[m].sender)
        BY <1>1, <3>3
      <4>2. s[j] = s[i]
        BY <2>1, <2>3, <3>2, <4>1
      <4> QED BY <4>2 DEF Releases
    <3>4. Carries(s, pg, o, Null)
      BY <2>2, <3>2, <3>3, CarriesClose
    <3>5. \A m \in DOMAIN Q : Q[m].id = pg => Q[m].iws = Null
      BY <2>3, <2>4 DEF Releases, Lost
    <3> QED BY <3>4, <3>5 DEF OwnedBy, Owners
  <2>5. CASE ~Lost(P, Q, n)
    <3>1. n \in DOMAIN Q /\ Q[n] = P[n]
      BY <2>1, <2>5 DEF Lost, Releases
    <3>2. OwnedBy(Q, pg, o)
      BY <2>1, <3>1 DEF OwnedBy
    <3>3. \A i \in 1..Len(s) : ~About(s[i], pg)
      BY <1>1, <2>3, <2>5
    <3>4. Carries(s, pg, o, o)
      BY <3>3, CarriesNothing
    <3> QED BY <3>2, <3>4
  <2> QED BY <2>4, <2>5
<1> QED BY <1>2, <1>3 DEF OwnedBy

\* From heap h to r the session of page n ends, and the device is told.
Ends(h, n, r) ==
    /\ r.sent = Append(h.sent, DidClose(h.pages[n].id, h.pages[n].sender))
    /\ DOMAIN r.pages = DOMAIN h.pages /\ r.pages[n].iws = Null
    /\ r.pages[n].id = h.pages[n].id /\ r.pages[n].conn = h.pages[n].conn
    /\ \A k \in DOMAIN h.pages : k # n => r.pages[k] = h.pages[k]
    /\ \A c \in Iwss : r.iws[c].id = h.iws[c].id

\* iwdp_stop_devtools, while links are in order and no page is another inspector's: it does
\* nothing for a page without a client, and else tells the device.
LEMMA StopSays ==
    ASSUME NEW h, Shaped(h), NEW top, Graph(h.pages, h.iws, top), Owned(h.pages, h.iws),
           Local(h.pages), NEW n \in DOMAIN h.pages, NEW r, r = StopDevtools(h, n)
    PROVE  /\ h.pages[n].iws = Null => r = h
           /\ h.pages[n].iws # Null => Ends(h, n, r)
<1>1. CASE h.pages[n].iws = Null
  BY <1>1 DEF StopDevtools
<1>2. CASE h.pages[n].iws # Null
  <2>1. h.pages[n].sender \in WsIds /\ h.pages[n] \in PageRecs /\ h.pages[n].conn \in {Us, Null}
    <3>1. h.pages[n].sender \in WsIds
      BY <1>2, OwnerHasId
    <3>2. h.pages[n] \in PageRecs /\ h.pages[n].conn # Remote
      BY DEF Graph, Local
    <3> QED BY <3>1, <3>2 DEF PageRecs
  <2>2. PICK c \in Iwss : c = h.pages[n].iws
    BY <1>2, <2>1 DEF PageRecs
  <2>3. h.iws[c].live /\ h.iws[c].id = h.pages[n].sender /\ h.iws[c].ipage = n
    BY <1>2, <2>2 DEF Owned
  <2>4. r = [pages |-> [h.pages EXCEPT ![n] = [@ EXCEPT !.iws = Null, !.sender = Null]],
             iws   |-> [h.iws EXCEPT ![c] = [@ EXCEPT !.ipage = NoPage, !.pageNum = NoPage]],
             sent  |-> Append(h.sent, DidClose(h.pages[n].id, h.pages[n].sender))]
    BY <1>2, <2>1, <2>2, <2>3, NamesAssumption DEF StopDevtools, HasWsId
  <2>5. PICK p : p = [h.pages[n] EXCEPT !.iws = Null, !.sender = Null]
    OBVIOUS
  <2>6. p.iws = Null /\ p.id = h.pages[n].id /\ p.conn = h.pages[n].conn
    BY <2>1, <2>5 DEF PageRecs
  <2>7. r.pages = [h.pages EXCEPT ![n] = p]
    BY <2>4, <2>5
  <2>8. /\ DOMAIN r.pages = DOMAIN h.pages /\ r.pages[n] = p
        /\ \A k \in DOMAIN h.pages : k # n => r.pages[k] = h.pages[k]
    BY <2>7 DEF Graph
  <2>9. \A d \in Iwss : r.iws[d].id = h.iws[d].id
    BY <2>2, <2>4 DEF Graph, IwsRecs
  <2>10. r.sent = Append(h.sent, DidClose(h.pages[n].id, h.pages[n].sender))
    BY <2>4
  <2> QED BY <1>2, <2>6, <2>8, <2>9, <2>10 DEF Ends
<1> QED BY <1>1, <1>2

\* What a client leaves when it is closed, the device is told.
LEMMA CloseReleases ==
    ASSUME NEW h, Shaped(h), NEW top, Graph(h.pages, h.iws, top), Owned(h.pages, h.iws),
           Local(h.pages), h.sent = <<>>, NEW s \in Iwss, NEW r, r = CloseIws(h, s)
    PROVE  Releases(h.pages, r.pages, r.sent) /\ DOMAIN r.pages = DOMAIN h.pages
<1> DEFINE n == h.iws[s].ipage
           owns == n # NoPage /\ h.pages[n].sender # Null /\ h.pages[n].iws = s
<1>1. PICK g : g = IF owns THEN StopDevtools(h, n) ELSE h
  OBVIOUS
<1>2. r = [g EXCEPT !.iws[s] = NoIws]
  BY <1>1 DEF CloseIws
<1>3. n # NoPage => owns /\ n \in DOMAIN h.pages /\ h.pages[n].iws # Null
  BY NamesAssumption DEF Graph
<1>4. CASE n = NoPage
  <2>1. g = h
    BY <1>1, <1>4
  <2>2. r.pages = h.pages /\ r.sent = <<>> /\ Len(r.sent) = 0
    BY <1>2, <2>1 DEF Shaped
  <2> QED BY <2>2 DEF Releases, Lost
<1>5. CASE n # NoPage
  <2>1. g = StopDevtools(h, n) /\ n \in DOMAIN h.pages /\ h.pages[n].iws # Null
    BY <1>1, <1>3, <1>5
  <2>2. PICK k : k = n
    OBVIOUS
  <2>3. Shaped(g)
    BY <2>1, StopShape
  <2>4. g = StopDevtools(h, k) /\ k \in DOMAIN h.pages /\ h.pages[k].iws # Null
    BY <2>1, <2>2
  <2>5. Ends(h, k, g)
    BY <2>4, StopSays
  <2>6. r.pages = g.pages /\ r.sent = g.sent
    BY <1>2, <2>3 DEF Shaped
  <2>7. PICK m : m = DidClose(h.pages[k].id, h.pages[k].sender)
    OBVIOUS
  <2>8. r.sent = <<m>>
    BY <2>5, <2>6, <2>7 DEF Ends
  <2>9. Len(r.sent) = 1 /\ r.sent[1] = m
    BY <2>8
  <2>10. Lost(h.pages, r.pages, k) /\ \A j \in DOMAIN h.pages : Lost(h.pages, r.pages, j) => j = k
    BY <2>4, <2>5, <2>6 DEF Lost, Ends
  <2>11. \A j \in DOMAIN r.pages : /\ r.pages[j].id = h.pages[j].id /\ r.pages[j].conn = h.pages[j].conn
                                   /\ r.pages[j].iws = Null \/ r.pages[j] = h.pages[j]
    BY <2>5, <2>6 DEF Ends
  <2>12. \A i \in 1..Len(r.sent) : i = 1 /\ r.sent[i] = m
    BY <2>9
  <2>13. 1 \in 1..Len(r.sent)
    BY <2>9
  <2>14. \A j \in DOMAIN h.pages : Lost(h.pages, r.pages, j) =>
            \E i \in 1..Len(r.sent) : r.sent[i] = DidClose(h.pages[j].id, h.pages[j].sender)
    BY <2>7, <2>10, <2>12, <2>13
  <2>15. \A i \in 1..Len(r.sent) : \E j \in DOMAIN h.pages :
            Lost(h.pages, r.pages, j) /\ r.sent[i] = DidClose(h.pages[j].id, h.pages[j].sender)
    BY <2>4, <2>7, <2>10, <2>12
  <2> QED BY <2>5, <2>6, <2>11, <2>12, <2>14, <2>15 DEF Releases, Ends
<1> QED BY <1>4, <1>5

\* The entries of a finite hash table come in a sequence that has each of them once.
LEMMA OrderOnce ==
    ASSUME NEW S, IsFiniteSet(S), NEW order \in Orders(S)
    PROVE  \E k \in Nat : /\ order \in [1..k -> S]
                          /\ \A e \in S : \E i \in 1..k : order[i] = e
                          /\ \A i, j \in 1..k : order[i] = order[j] => i = j
<1>1. PICK k \in Nat : k = Cardinality(S)
  BY FS_CardinalityType
<1>2. order \in [1..k -> S] /\ \A e \in S : \E i \in 1..k : order[i] = e
  BY <1>1 DEF Orders
<1>3. PICK I : I = 1..k
  OBVIOUS
<1>4. IsFiniteSet(I) /\ Cardinality(I) = Cardinality(S)
  BY <1>1, <1>3, FS_Interval
<1>5. order \in Surjection(I, S)
  BY <1>2, <1>3 DEF Surjection
<1>6. order \in Injection(I, S)
  BY <1>4, <1>5, FS_SurjSameCardinalityImpliesInj
<1>7. \A i, j \in I : order[i] = order[j] => i = j
  BY <1>6 DEF Injection, IsInjective
<1> QED BY <1>2, <1>3, <1>7

\* What a page that is dropped is stopped with; the pages the device is told of.
Stopped(h, n) == StopDevtools([h EXCEPT !.sent = <<>>], n)
Telling(h, ns) == {n \in ns : Stopped(h, n).sent # <<>>}
TellsOf(h, ns, s) ==
    \E order \in Orders(Telling(h, ns)) :
        s = h.sent \o [i \in DOMAIN order |-> Stopped(h, order[i]).sent[1]]

\* Pages are dropped from the table, and no other page changes.
LEMMA DropTable ==
    ASSUME NEW h, NEW ns, NEW r \in DropPages(h, ns)
    PROVE  /\ DOMAIN r.pages = DOMAIN h.pages \ ns
           /\ \A n \in DOMAIN r.pages : r.pages[n] = h.pages[n]
           /\ TellsOf(h, ns, r.sent)
<1> USE DEF Stopped
<1> DEFINE stopped(n) == Stopped(h, n)
<1>1. PICK order \in Orders(Telling(h, ns)) :
        r = [pages |-> [n \in DOMAIN h.pages \ ns |-> h.pages[n]],
             iws   |-> [s \in Iwss |-> IF h.iws[s].ipage \in ns THEN stopped(h.iws[s].ipage).iws[s]
                                      ELSE h.iws[s]],
             sent  |-> h.sent \o [i \in DOMAIN order |-> stopped(order[i]).sent[1]]]
  BY DEF DropPages, Telling
<1>2. r.pages = [n \in DOMAIN h.pages \ ns |-> h.pages[n]]
  BY <1>1
<1>3. r.sent = h.sent \o [i \in DOMAIN order |-> stopped(order[i]).sent[1]]
  BY <1>1
<1> QED BY <1>2, <1>3 DEF TellsOf

\* Of each page that is dropped and has a client the device is told, once.
LEMMA DropReleases ==
    ASSUME NEW h, Shaped(h), NEW top \in Nat, Graph(h.pages, h.iws, top), Owned(h.pages, h.iws),
           Local(h.pages), h.sent = <<>>,
           NEW ns, ns \subseteq DOMAIN h.pages, NEW r \in DropPages(h, ns)
    PROVE  Releases(h.pages, r.pages, r.sent)
<1> DEFINE stopped(n) == Stopped(h, n)
           S == Telling(h, ns)
<1>1. PICK order \in Orders(S) :
            r.sent = h.sent \o [i \in DOMAIN order |-> stopped(order[i]).sent[1]]
  <2>1. TellsOf(h, ns, r.sent)
    BY DropTable
  <2> QED BY <2>1 DEF TellsOf
<1>2. ASSUME NEW n \in ns
      PROVE  /\ h.pages[n].iws = Null => stopped(n).sent = <<>>
             /\ h.pages[n].iws # Null =>
                    stopped(n).sent = <<DidClose(h.pages[n].id, h.pages[n].sender)>>
  <2>1. [h EXCEPT !.sent = <<>>] = h
    BY DEF Shaped
  <2>2. PICK f : f = StopDevtools(h, n)
    OBVIOUS
  <2>3. n \in DOMAIN h.pages
    OBVIOUS
  <2>4. (h.pages[n].iws = Null => f = h) /\ (h.pages[n].iws # Null => Ends(h, n, f))
    BY <2>2, <2>3, StopSays
  <2>5. stopped(n) = f
    BY <2>1, <2>2 DEF Stopped
  <2>6. PICK m : m = DidClose(h.pages[n].id, h.pages[n].sender)
    OBVIOUS
  <2>7. Append(<<>>, m) = <<m>>
    OBVIOUS
  <2>8. h.pages[n].iws # Null => f.sent = Append(<<>>, m)
    BY <2>4, <2>6 DEF Ends
  <2> QED BY <2>4, <2>5, <2>6, <2>7, <2>8
<1>3. S = {n \in ns : h.pages[n].iws # Null}
  <2>1. \A m : <<m>> # <<>>
    OBVIOUS
  <2> QED BY <1>2, <2>1 DEF Telling
<1>4. \A n \in S : stopped(n).sent[1] = DidClose(h.pages[n].id, h.pages[n].sender)
  <2>1. \A m : <<m>>[1] = m
    OBVIOUS
  <2> QED BY <1>2, <1>3, <2>1
<1>5. IsFiniteSet(S)
  BY NumbersFinite DEF Graph, Telling
<1> HIDE DEF stopped, S
<1>6. PICK k \in Nat : /\ order \in [1..k -> S]
                       /\ \A e \in S : \E i \in 1..k : order[i] = e
                       /\ \A i, j \in 1..k : order[i] = order[j] => i = j
  BY <1>5, OrderOnce
<1>7. PICK q : q = [i \in 1..k |-> stopped(order[i]).sent[1]]
  OBVIOUS
<1>8. r.sent = q
  <2>1. q = [i \in DOMAIN order |-> stopped(order[i]).sent[1]]
    BY <1>6, <1>7
  <2>2. q \in Seq({q[i] : i \in 1..k})
    BY <1>7, SeqDef
  <2>3. <<>> \o q = q
    BY <2>2, ConcatEmptySeq
  <2> QED BY <1>1, <2>1, <2>3
<1>9. Len(q) = k
  BY <1>7
<1>10. \A i \in 1..k : /\ order[i] \in S
                       /\ q[i] = DidClose(h.pages[order[i]].id, h.pages[order[i]].sender)
  BY <1>4, <1>6, <1>7
<1>11. /\ DOMAIN r.pages = DOMAIN h.pages \ ns
       /\ \A n \in DOMAIN r.pages : r.pages[n] = h.pages[n]
  BY DropTable
<1>12. \A n \in DOMAIN h.pages : Lost(h.pages, r.pages, n) <=> n \in S
  BY <1>3, <1>11 DEF Lost
<1>13. S \subseteq DOMAIN h.pages
  BY <1>3
<1>14. ASSUME NEW i \in 1..k, NEW j \in 1..k, q[i] = q[j] PROVE i = j
  <2>1. PICK a \in DOMAIN h.pages, b \in DOMAIN h.pages : a = order[i] /\ b = order[j]
    BY <1>10, <1>13
  <2>2. PICK p, w, p2, w2 : /\ p = h.pages[a].id /\ w = h.pages[a].sender
                            /\ p2 = h.pages[b].id /\ w2 = h.pages[b].sender
    OBVIOUS
  <2>3. DidClose(p, w) = DidClose(p2, w2)
    BY <1>10, <1>14, <2>1, <2>2
  <2>4. p = p2
    BY <2>3, OneMeaning
  <2>5. a = b
    BY <2>2, <2>4 DEF Graph
  <2> QED BY <1>6, <2>1, <2>5
<1>15. \A i \in 1..Len(q) : \E n \in DOMAIN h.pages :
            Lost(h.pages, r.pages, n) /\ q[i] = DidClose(h.pages[n].id, h.pages[n].sender)
  BY <1>9, <1>10, <1>12, <1>13
<1>16. \A n \in DOMAIN h.pages : Lost(h.pages, r.pages, n) =>
            \E i \in 1..Len(q) : q[i] = DidClose(h.pages[n].id, h.pages[n].sender)
  <2>1. ASSUME NEW n \in DOMAIN h.pages, Lost(h.pages, r.pages, n)
        PROVE  \E i \in 1..k : q[i] = DidClose(h.pages[n].id, h.pages[n].sender)
    <3>1. n \in S
      BY <1>12, <2>1
    <3>2. PICK i \in 1..k : order[i] = n
      BY <1>6, <3>1
    <3> QED BY <1>10, <3>2
  <2> QED BY <1>9, <2>1
<1>17. \A i, j \in 1..Len(q) : q[i] = q[j] => i = j
  BY <1>9, <1>14
<1>18. DOMAIN r.pages \subseteq DOMAIN h.pages
  BY <1>11
<1>19. \A n \in DOMAIN r.pages :
            /\ r.pages[n].id = h.pages[n].id /\ r.pages[n].conn = h.pages[n].conn
            /\ r.pages[n].iws = Null \/ r.pages[n] = h.pages[n]
  BY <1>11
<1> QED BY <1>8, <1>15, <1>16, <1>17, <1>18, <1>19 DEF Releases

\* What iwdp_start_devtools makes of a page: the device is told that its session is closed,
\* if it has one, and that it is opened for the client.
LEMMA StartConveys ==
    ASSUME NEW h, NEW n, NEW s, NEW top, MayStart(h, n, s, top), Owned(h.pages, h.iws),
           Local(h.pages), h.sent = <<>>, NEW r, r = Started(h, n, s)
    PROVE  Conveys(h.pages, r.pages, r.sent) /\ Local(r.pages)
<1> USE DEF MayStart
<1> DEFINE owner == h.pages[n].iws
<1>0. /\ h.pages[n] \in PageRecs /\ h.iws[s].id \in WsIds /\ h.pages[n].id \in PageIds
      /\ h.pages[n].conn # Remote
  BY DEF Graph, PageRecs, Local
<1>1. PICK p, id, o : p = h.pages[n].id /\ id = h.iws[s].id
                      /\ o = IF owner = Null THEN Null ELSE h.pages[n].sender
  OBVIOUS
<1>2. PICK g : g = IF owner = Null THEN h ELSE [StopDevtools(h, n) EXCEPT !.iws[owner].pageNum = n]
  OBVIOUS
<1>3. StartDevtools(h, n, s) =
        [pages |-> [g.pages EXCEPT ![n] = [@ EXCEPT !.iws = s, !.sender = g.iws[s].id]],
         iws   |-> [g.iws EXCEPT ![s] = [@ EXCEPT !.ipage = n, !.pageNum = n]],
         sent  |-> Append(g.sent, Setup(g.pages[n].id, g.iws[s].id))]
  BY <1>2 DEF StartDevtools
<1>4. /\ g.sent = IF o = Null THEN <<>> ELSE <<DidClose(p, o)>>
      /\ DOMAIN g.pages = DOMAIN h.pages
      /\ g.pages[n] \in PageRecs
      /\ g.pages[n].id = p /\ g.pages[n].conn = h.pages[n].conn
      /\ \A k \in DOMAIN h.pages : k # n => g.pages[k] = h.pages[k]
      /\ g.iws[s].id = id
      /\ o \in WsIds \cup {Null} /\ (o = Null <=> owner = Null)
  <2>1. CASE owner = Null
    BY <1>0, <1>1, <1>2, <2>1
  <2>2. CASE owner # Null
    <3>0. n \in DOMAIN h.pages
      OBVIOUS
    <3>1. PICK f : f = StopDevtools(h, n)
      OBVIOUS
    <3>2. Shaped(f) /\ Ends(h, n, f)
      BY <2>2, <3>1, StopSays, StopShape
    <3>3. g = [f EXCEPT !.iws[owner].pageNum = n]
      BY <1>2, <2>2, <3>1
    <3>4. g.sent = f.sent /\ g.pages = f.pages /\ g.iws = [f.iws EXCEPT ![owner].pageNum = n]
      BY <3>2, <3>3 DEF Shaped
    <3>5. o \in WsIds /\ o = h.pages[n].sender
      BY <1>1, <2>2, OwnerHasId
    <3>6. o # Null
      BY <3>5, NamesAssumption
    <3>7. PICK m : m = DidClose(p, o)
      OBVIOUS
    <3>8. g.sent = <<m>>
      <4>1. f.sent = Append(<<>>, m)
        BY <1>1, <3>2, <3>5, <3>7 DEF Ends
      <4> QED BY <3>4, <4>1
    <3>10. Forgets(h.pages, h.iws, {n}, f.pages, f.iws) /\ DOMAIN f.pages = DOMAIN h.pages
      BY <3>1, StopForgets
    <3>11. g.pages[n] \in PageRecs
      BY <3>0, <3>4, <3>10 DEF Forgets
    <3>9. g.iws[s].id = id
      <4>0. PICK c : c = owner
        OBVIOUS
      <4>1. f.iws[s].id = h.iws[s].id
        BY <3>2 DEF Ends
      <4>2. f.iws \in [Iwss -> IwsRecs]
        BY <3>10 DEF Forgets
      <4>3. f.iws[s] \in IwsRecs
        BY <4>2
      <4>4. g.iws[s] = IF c = s THEN [f.iws[s] EXCEPT !.pageNum = n] ELSE f.iws[s]
        BY <3>4, <4>0, <4>2
      <4>5. g.iws[s].id = f.iws[s].id
        BY <4>3, <4>4 DEF IwsRecs
      <4> QED BY <1>1, <4>1, <4>5
    <3> QED BY <1>1, <2>2, <3>2, <3>4, <3>5, <3>6, <3>7, <3>8, <3>9, <3>11 DEF Ends
  <2> QED BY <2>1, <2>2
<1> HIDE DEF owner
<1>5. PICK e : e = [g.pages[n] EXCEPT !.iws = s, !.sender = id]
  OBVIOUS
<1>6. e.id = p /\ e.iws = s /\ e.sender = id /\ e.conn # Remote
  BY <1>0, <1>4, <1>5 DEF PageRecs
<1>7. r.pages = [g.pages EXCEPT ![n] = e] /\ r.sent = Append(g.sent, Setup(p, id))
  <2>1. PICK f : f = StartDevtools(h, n, s)
    OBVIOUS
  <2>2. r = [f EXCEPT !.iws[s].st = "ws"]
    BY <2>1 DEF Started
  <2>3. f.pages = [g.pages EXCEPT ![n] = e] /\ f.sent = Append(g.sent, Setup(p, id))
    <3>1. g.pages[n].id = p /\ g.iws[s].id = id
      BY <1>4
    <3>2. PICK d : d = [g.iws EXCEPT ![s] = [@ EXCEPT !.ipage = n, !.pageNum = n]]
      OBVIOUS
    <3>3. f = [pages |-> [g.pages EXCEPT ![n] = [@ EXCEPT !.iws = s, !.sender = id]],
               iws |-> d, sent |-> Append(g.sent, Setup(p, id))]
      BY <1>3, <2>1, <3>1, <3>2
    <3> QED BY <1>5, <3>3
  <2>4. r.pages = f.pages /\ r.sent = f.sent
    BY <1>3, <2>1, <2>2
  <2> QED BY <2>3, <2>4
<1>8. /\ DOMAIN r.pages = DOMAIN h.pages /\ n \in DOMAIN h.pages /\ r.pages[n] = e
      /\ \A k \in DOMAIN h.pages : k # n => r.pages[k] = h.pages[k]
  BY <1>4, <1>7
<1>9. Local(r.pages)
  BY <1>6, <1>8 DEF Local
<1>10. s # Null
  BY NamesAssumption
<1>11. p \in PageIds /\ id \in WsIds /\ id \in Owners
  BY <1>0, <1>1 DEF Owners
<1>12. r.sent = IF o = Null THEN <<Setup(p, id)>> ELSE <<DidClose(p, o), Setup(p, id)>>
  <2>1. PICK m, m2 : m = Setup(p, id) /\ m2 = DidClose(p, o)
    OBVIOUS
  <2>2. Append(<<>>, m) = <<m>> /\ Append(<<m2>>, m) = <<m2, m>>
    <3>1. Append(<<>>, m) = <<m>>
      OBVIOUS
    <3>2. Append(<<m2>>, m) = <<m2, m>>
      <4>1. PICK a, b, c : a = <<m2>> /\ b = <<m2, m>> /\ c = Append(a, m)
        OBVIOUS
      <4>2. a \in Seq({m, m2}) /\ b \in Seq({m, m2}) /\ Len(a) = 1 /\ a[1] = m2
        BY <4>1
      <4>3. Len(b) = 2 /\ b[1] = m2 /\ b[2] = m
        BY <4>1
      <4>4. c \in Seq({m, m2}) /\ Len(c) = 2 /\ c[1] = m2 /\ c[2] = m
        BY <4>1, <4>2, AppendProperties
      <4>5. Len(c) = Len(b) /\ \A i \in 1..Len(c) : c[i] = b[i]
        BY <4>3, <4>4
      <4>6. c = b
        BY <4>2, <4>4, <4>5, SeqEqual
      <4> QED BY <4>1, <4>6
    <3> QED BY <3>1, <3>2
  <2>3. g.sent = (IF o = Null THEN <<>> ELSE <<m2>>) /\ r.sent = Append(g.sent, m)
    BY <1>4, <1>7, <2>1
  <2>4. r.sent = IF o = Null THEN <<m>> ELSE <<m2, m>>
    BY <2>2, <2>3
  <2> QED BY <2>1, <2>4
<1>13. Carries(r.sent, p, o, id)
  <2>1. CASE o = Null
    BY <1>11, <1>12, <2>1, CarriesOpen
  <2>2. CASE o # Null
    <3>1. o \in WsIds
      BY <1>4, <2>2
    <3>2. Carries(<<DidClose(p, o), Setup(p, id)>>, p, o, id)
      BY <1>11, <3>1, CarriesSteal
    <3> QED BY <1>12, <2>2, <3>2
  <2> QED BY <2>1, <2>2
<1>14. ASSUME NEW pg \in PageIds, pg # p, NEW i \in 1..Len(r.sent) PROVE ~About(r.sent[i], pg)
  <2>1. PICK m, m2 : m = Setup(p, id) /\ m2 = DidClose(p, o)
    OBVIOUS
  <2>2. ~About(m, pg) /\ ~About(m2, pg)
    BY <1>14, <2>1, OneMeaning DEF About
  <2>3. r.sent = <<m>> \/ r.sent = <<m2, m>>
    BY <1>12, <2>1
  <2>4. r.sent[i] = m \/ r.sent[i] = m2
    BY <2>3
  <2> QED BY <2>2, <2>4
<1>15. r.sent \in Seq(ToDev)
  <2>1. Setup(p, id) \in ToDev /\ (o # Null => DidClose(p, o) \in ToDev)
    BY <1>4, <1>11 DEF ToDev
  <2>2. PICK m \in ToDev : m = Setup(p, id)
    BY <2>1
  <2>3. CASE o = Null
    <3>1. r.sent = <<m>>
      BY <1>12, <2>2, <2>3
    <3> QED BY <3>1
  <2>4. CASE o # Null
    <3>1. PICK m2 \in ToDev : m2 = DidClose(p, o)
      BY <2>1, <2>4
    <3>2. r.sent = <<m2, m>>
      BY <1>12, <2>2, <2>4, <3>1
    <3> QED BY <3>2
  <2> QED BY <2>3, <2>4
<1>16. ASSUME NEW pg \in PageIds, NEW x \in Owners, OwnedBy(h.pages, pg, x)
       PROVE  \E y \in Owners : OwnedBy(r.pages, pg, y) /\ Carries(r.sent, pg, x, y)
  <2>1. CASE pg = p
    <3>1. \A k \in DOMAIN h.pages : h.pages[k].id = p => k = n
      BY <1>1, <1>8 DEF Graph
    <3>2. x = o
      BY <1>1, <1>8, <1>16, <2>1, <3>1 DEF OwnedBy, owner
    <3>3. OwnedBy(r.pages, p, id)
      BY <1>6, <1>8, <1>10 DEF OwnedBy
    <3> QED BY <1>11, <1>13, <2>1, <3>2, <3>3
  <2>2. CASE pg # p
    <3>1. OwnedBy(r.pages, pg, x)
      <4>1. h.pages[n].id # pg /\ r.pages[n].id # pg
        BY <1>1, <1>6, <1>8, <2>2
      <4> QED BY <1>8, <1>16, <4>1 DEF OwnedBy
    <3>2. \A i \in 1..Len(r.sent) : ~About(r.sent[i], pg)
      BY <1>14, <2>2
    <3>3. Carries(r.sent, pg, x, x)
      BY <1>15, <3>2, CarriesNothing
    <3> QED BY <3>1, <3>3
  <2> QED BY <2>1, <2>2
<1> QED BY <1>9, <1>16 DEF Conveys

\* What a listing makes of the table: the pages that were there keep their clients, those
\* that are new have none.
LEMMA RelistedSays ==
    ASSUME Graph(pages, iws, maxPageNum), NEW listed \in SUBSET Listed,
           NEW number \in [NewPages(listed) -> FreshNums(Cardinality(NewPages(listed)))],
           \A p, q \in NewPages(listed) : p # q => number[p] # number[q],
           NEW P, P = Relisted(listed, number)
    PROVE  /\ DOMAIN pages \subseteq DOMAIN P
           /\ \A n \in DOMAIN pages : /\ P[n].id = pages[n].id /\ P[n].iws = pages[n].iws
                                      /\ P[n].sender = pages[n].sender
           /\ \A n \in DOMAIN P \ DOMAIN pages : /\ P[n].iws = Null
                                                 /\ P[n].id \in {l.id : l \in listed}
           /\ maxPageNum \in Nat => \A l \in listed : \E n \in DOMAIN P : P[n].id = l.id
           /\ (\A l \in listed : l.conn # Remote) /\ Local(pages) => Local(P)
<1> DEFINE new == NewPages(listed)
           connOf(pg) == (CHOOSE l \in listed : l.id = pg).conn
<1>1. \A pg \in new : \E l \in listed : l.id = pg
  BY DEF NewPages
<1>2. ASSUME NEW pg, \E l \in listed : l.id = pg PROVE \E l \in listed : connOf(pg) = l.conn
  BY <1>2
<1> HIDE DEF connOf
<1>3. DOMAIN P = DOMAIN pages \cup {number[pg] : pg \in new}
  BY DEF Relisted
<1>4. ASSUME NEW n \in DOMAIN pages
      PROVE  /\ P[n].id = pages[n].id /\ P[n].iws = pages[n].iws /\ P[n].sender = pages[n].sender
             /\ P[n].conn = pages[n].conn \/ \E l \in listed : P[n].conn = l.conn
  <2>0. pages[n] \in PageRecs
    BY DEF Graph
  <2>1. P[n] = IF pages[n].id \in {l.id : l \in listed}
               THEN [pages[n] EXCEPT !.conn = connOf(pages[n].id)] ELSE pages[n]
    BY <1>3 DEF Relisted, connOf
  <2>2. CASE pages[n].id \in {l.id : l \in listed}
    <3>1. PICK c : c = connOf(pages[n].id) /\ \E l \in listed : c = l.conn
      BY <1>2, <2>2
    <3>2. P[n] = [pages[n] EXCEPT !.conn = c]
      BY <2>1, <2>2, <3>1
    <3> QED BY <2>0, <3>1, <3>2 DEF PageRecs
  <2>3. CASE pages[n].id \notin {l.id : l \in listed}
    BY <2>1, <2>3
  <2> QED BY <2>2, <2>3
<1>5. ASSUME NEW n \in DOMAIN P, \E pg \in new : number[pg] = n, n \notin DOMAIN pages
      PROVE  \E pg \in new : /\ number[pg] = n
                             /\ P[n] = [id |-> pg, conn |-> connOf(pg), sender |-> Null, iws |-> Null]
  <2>2. PICK pg : pg = CHOOSE q \in DOMAIN number : number[q] = n
    OBVIOUS
  <2>3. pg \in new /\ number[pg] = n
    BY <1>5, <2>2
  <2>4. P[n] = [id |-> pg, conn |-> connOf(pg), sender |-> Null, iws |-> Null]
    BY <1>3, <1>5, <2>2 DEF Relisted, connOf
  <2> QED BY <2>3, <2>4
<1>6. ASSUME NEW n \in DOMAIN P \ DOMAIN pages
      PROVE  /\ P[n].iws = Null /\ P[n].id \in {l.id : l \in listed}
             /\ \E l \in listed : P[n].conn = l.conn
  <2>1. PICK pg \in new : P[n] = [id |-> pg, conn |-> connOf(pg), sender |-> Null, iws |-> Null]
    BY <1>3, <1>5, <1>6
  <2>2. \E l \in listed : l.id = pg
    BY <1>1
  <2>3. \E l \in listed : connOf(pg) = l.conn
    BY <1>2, <2>2
  <2> QED BY <2>1, <2>2, <2>3
<1>7. ASSUME maxPageNum \in Nat, NEW l \in listed PROVE \E n \in DOMAIN P : P[n].id = l.id
  <2>1. CASE NumOf(l.id) # {}
    <3>1. PICK n \in DOMAIN pages : pages[n].id = l.id
      BY <2>1 DEF NumOf
    <3> QED BY <1>3, <1>4, <3>1
  <2>2. CASE NumOf(l.id) = {}
    <3>1. l.id \in new
      BY <2>2 DEF NewPages
    <3>2. PICK n : n = number[l.id]
      OBVIOUS
    <3>3. Cardinality(new) \in Nat
      <4>1. new \subseteq PageIds
        BY DEF NewPages, Listed
      <4> QED BY <4>1, FiniteAssumption, FS_Subset, FS_CardinalityType
    <3>4. PICK k \in Nat : k = Cardinality(new)
      BY <3>3
    <3>5. n \in (maxPageNum + 1)..(maxPageNum + k)
      BY <3>1, <3>2, <3>4 DEF FreshNums
    <3>6. n \notin DOMAIN pages
      BY <1>7, <3>5 DEF Graph
    <3>7. n \in DOMAIN P
      BY <1>3, <3>1, <3>2
    <3>8. PICK pg \in new : /\ number[pg] = n
                            /\ P[n] = [id |-> pg, conn |-> connOf(pg), sender |-> Null, iws |-> Null]
      BY <1>5, <3>1, <3>2, <3>6, <3>7
    <3>9. pg = l.id
      BY <3>1, <3>2, <3>8
    <3> QED BY <3>7, <3>8, <3>9
  <2> QED BY <2>1, <2>2
<1>8. ASSUME \A l \in listed : l.conn # Remote, Local(pages) PROVE Local(P)
  <2>1. \A n \in DOMAIN pages : P[n].conn # Remote
    BY <1>4, <1>8 DEF Local
  <2>2. \A n \in DOMAIN P \ DOMAIN pages : P[n].conn # Remote
    BY <1>6, <1>8
  <2> QED BY <2>1, <2>2 DEF Local
<1>9. DOMAIN pages \subseteq DOMAIN P
  BY <1>3
<1> QED BY <1>4, <1>6, <1>7, <1>8, <1>9

\* The pages that were there before a listing have the owners they had.
LEMMA RelistedOwners ==
    ASSUME Graph(pages, iws, maxPageNum), NEW listed \in SUBSET Listed,
           NEW number \in [NewPages(listed) -> FreshNums(Cardinality(NewPages(listed)))],
           \A p, q \in NewPages(listed) : p # q => number[p] # number[q],
           NEW P, P = Relisted(listed, number), NEW pg, NEW o, OwnedBy(pages, pg, o)
    PROVE  OwnedBy(P, pg, o)
<1>1. /\ DOMAIN pages \subseteq DOMAIN P
      /\ \A n \in DOMAIN pages : /\ P[n].id = pages[n].id /\ P[n].iws = pages[n].iws
                                 /\ P[n].sender = pages[n].sender
      /\ \A n \in DOMAIN P \ DOMAIN pages : P[n].iws = Null
  BY RelistedSays
<1> QED BY <1>1 DEF OwnedBy

-----------------------------------------------------------------------------
(* The sessions of all pages.                                              *)

\* With pages P and messages t to the device, which has sessions d, every page's owner is in
\* order; f is what is known while the messages q of the device are handled.
SessionsAt(f, q, P, t, d) ==
    \A pg \in PageIds : \E o \in Owners :
        OwnedBy(P, pg, o) /\ Sess(pg, o, t, d[pg], Gone(f, q, pg))

\* The proxy sends messages s, and may have handled one.
LEMMA ProxySessions ==
    ASSUME NEW f, NEW q, NEW P, NEW t \in Seq(ToDev), NEW d, SessionsAt(f, q, P, t, d),
           NEW g, NEW p, NEW Q, NEW s \in Seq(ToDev), Conveys(P, Q, s),
           \A pg : Gone(f, q, pg) => Gone(g, p, pg) \/ \A n \in DOMAIN P : P[n].id # pg
    PROVE  SessionsAt(g, p, Q, t \o s, d)
<1> SUFFICES ASSUME NEW pg \in PageIds
             PROVE  \E r \in Owners : OwnedBy(Q, pg, r) /\ Sess(pg, r, t \o s, d[pg], Gone(g, p, pg))
  BY DEF SessionsAt
<1>1. PICK o \in Owners : OwnedBy(P, pg, o) /\ Sess(pg, o, t, d[pg], Gone(f, q, pg))
  BY DEF SessionsAt
<1>2. PICK r \in Owners : OwnedBy(Q, pg, r) /\ Carries(s, pg, o, r)
  BY <1>1 DEF Conveys
<1>3. PICK x, a, h : x = d[pg] /\ a = Gone(f, q, pg) /\ h = Gone(g, p, pg)
  OBVIOUS
<1>4. Sess(pg, o, t, x, a)
  BY <1>1, <1>3
<1>5. a => h \/ o = Null
  <2>1. (\A n \in DOMAIN P : P[n].id # pg) => o = Null
    BY <1>1 DEF OwnedBy
  <2> QED BY <1>3, <2>1
<1>6. Sess(pg, r, t \o s, x, h)
  BY <1>2, <1>4, <1>5, SessSends
<1> QED BY <1>2, <1>3, <1>6

\* The device's sessions become e, though it took no message.
LEMMA DeviceSessions ==
    ASSUME NEW f, NEW q, NEW P, NEW t, NEW d, SessionsAt(f, q, P, t, d),
           NEW g, NEW p, \A pg : Gone(f, q, pg) => Gone(g, p, pg),
           NEW e, \A pg \in PageIds : e[pg] = d[pg] \/ (e[pg] \notin WsIds /\ Gone(g, p, pg))
    PROVE  SessionsAt(g, p, P, t, e)
<1> SUFFICES ASSUME NEW pg \in PageIds
             PROVE  \E o \in Owners : OwnedBy(P, pg, o) /\ Sess(pg, o, t, e[pg], Gone(g, p, pg))
  BY DEF SessionsAt
<1>1. PICK o \in Owners : OwnedBy(P, pg, o) /\ Sess(pg, o, t, d[pg], Gone(f, q, pg))
  BY DEF SessionsAt
<1>2. PICK x, y, a, h : x = d[pg] /\ y = e[pg] /\ a = Gone(f, q, pg) /\ h = Gone(g, p, pg)
  OBVIOUS
<1>3. Sess(pg, o, t, x, a)
  BY <1>1, <1>2
<1>4. (a => h) /\ (y = x \/ (y \notin WsIds /\ h))
  BY <1>2
<1>5. (y \in WsIds => y = x) /\ (o = Null \/ h \/ (y = x /\ ~a))
  BY <1>4
<1>6. Sess(pg, o, t, y, h)
  BY <1>3, <1>5, SessWeakens
<1> QED BY <1>1, <1>2, <1>6

\* What the device makes of message m, when page pg has session x: session y; h tells whether
\* the page is gone.
Makes(m, pg, x, y, h) ==
    \/ ~About(m, pg) /\ y = x
    \/ \E id \in WsIds : m = Setup(pg, id) /\ (y = id \/ (y = x /\ h))
    \/ \E id \in WsIds : m = DidClose(pg, id) /\ y = IF x = id THEN Null ELSE x

\* The device takes a message.
LEMMA TakenSessions ==
    ASSUME NEW f, NEW q, NEW P, NEW t \in Seq(ToDev), t # <<>>, NEW d, SessionsAt(f, q, P, t, d),
           NEW g, NEW p, \A pg : Gone(f, q, pg) => Gone(g, p, pg),
           NEW e, \A pg \in PageIds : Makes(t[1], pg, d[pg], e[pg], Gone(g, p, pg))
    PROVE  SessionsAt(g, p, P, Tail(t), e)
<1> SUFFICES ASSUME NEW pg \in PageIds
             PROVE  \E o \in Owners :
                        OwnedBy(P, pg, o) /\ Sess(pg, o, Tail(t), e[pg], Gone(g, p, pg))
  BY DEF SessionsAt
<1>1. PICK o \in Owners : OwnedBy(P, pg, o) /\ Sess(pg, o, t, d[pg], Gone(f, q, pg))
  BY DEF SessionsAt
<1>2. PICK x, y, a, h, m : /\ x = d[pg] /\ y = e[pg] /\ a = Gone(f, q, pg) /\ h = Gone(g, p, pg)
                           /\ m = t[1]
  OBVIOUS
<1>3. Sess(pg, o, t, x, a)
  BY <1>1, <1>2
<1>4. (a => h) /\ Makes(m, pg, x, y, h)
  BY <1>2
<1>5. CASE ~About(m, pg) /\ y = x
  <2>1. Sess(pg, o, Tail(t), x, a)
    BY <1>2, <1>3, <1>5, SessOthers
  <2>2. o = Null \/ h \/ (y = x /\ ~a)
    BY <1>4, <1>5
  <2>3. Sess(pg, o, Tail(t), y, h)
    BY <1>5, <2>1, <2>2, SessWeakens
  <2> QED BY <1>1, <1>2, <2>3
<1>6. CASE \E id \in WsIds : m = Setup(pg, id) /\ (y = id \/ (y = x /\ h))
  <2>1. PICK id \in WsIds : m = Setup(pg, id) /\ (y = id \/ (y = x /\ h))
    BY <1>6
  <2>2. t[1] = Setup(pg, id) =>
            Sess(pg, o, Tail(t), id, h) /\ (h => Sess(pg, o, Tail(t), x, h))
    BY <1>3, SessOpens
  <2>3. Sess(pg, o, Tail(t), y, h)
    BY <1>2, <2>1, <2>2
  <2> QED BY <1>1, <1>2, <2>3
<1>7. CASE \E id \in WsIds : m = DidClose(pg, id) /\ y = IF x = id THEN Null ELSE x
  <2>1. PICK id \in WsIds : m = DidClose(pg, id) /\ y = IF x = id THEN Null ELSE x
    BY <1>7
  <2>2. IF x = id THEN y = Null ELSE y = x
    BY <2>1
  <2>3. t[1] = DidClose(pg, id) => Sess(pg, o, Tail(t), y, h)
    BY <1>3, <2>2, SessCloses
  <2>4. Sess(pg, o, Tail(t), y, h)
    BY <1>2, <2>1, <2>3
  <2> QED BY <1>1, <1>2, <2>4
<1> QED BY <1>4, <1>5, <1>6, <1>7 DEF Makes

-----------------------------------------------------------------------------
(* What is in flight, in both directions.                                  *)

\* The messages of the device tell what the table lacks; while no other inspector claims
\* pages, those to it tell of the sessions that it lacks or has too many.
InFlight ==
    up => \E f : /\ Told(f, fromDev, ProxyView(apps, pages), DeviceView(running, dev))
                 /\ ~RemoteClaims =>
                        Local(pages) /\ SessionsAt(f, fromDev, pages, toDev, dev)

\* Nothing is sent of a table that stays.
LEMMA ConveysNothing ==
    ASSUME NEW P, NEW s \in Seq(ToDev), \A i \in 1..Len(s) : \E app : s[i] = GetListing(app)
    PROVE  Conveys(P, P, s)
<1> SUFFICES ASSUME NEW pg \in PageIds, NEW o \in Owners, OwnedBy(P, pg, o)
             PROVE  Carries(s, pg, o, o)
  BY DEF Conveys
<1>1. ASSUME NEW i \in 1..Len(s) PROVE ~About(s[i], pg)
  <2>1. PICK app, m : s[i] = m /\ m = GetListing(app)
    OBVIOUS
  <2>2. \A id : m # Setup(pg, id) /\ m # DidClose(pg, id)
    BY <2>1, OneMeaning
  <2> QED BY <2>1, <2>2 DEF About
<1> QED BY <1>1, CarriesNothing

\* The next message of the device fits what the proxy knows.
LEMMA FirstTells ==
    ASSUME IInv, InFlight, up, fromDev # <<>>
    PROVE  \E x \in Views : Tells(fromDev[1], ProxyView(apps, pages), x)
<1>1. PICK v, w, q : v = ProxyView(apps, pages) /\ w = DeviceView(running, dev) /\ q = fromDev
  OBVIOUS
<1>2. q \in Seq(FromDev) /\ q # <<>>
  BY <1>1 DEF IInv, Types
<1>3. PICK f : Told(f, q, v, w)
  BY <1>1 DEF InFlight
<1>4. Tells(q[1], v, f[1]) /\ f[1] \in Views
  BY <1>2, <1>3, ToldHead
<1> QED BY <1>1, <1>4

\* A message of the device is handled.
LEMMA TakenInFlight ==
    ASSUME IInv, InFlight, up, fromDev # <<>>, fromDev' = Tail(fromDev), UNCHANGED device,
           NEW s \in Seq(ToDev), toDev' = toDev \o s, NEW as, apps' = as, NEW P, pages' = P,
           \A x \in Views : Tells(fromDev[1], ProxyView(apps, pages), x) => x = ProxyView(as, P),
           ~RemoteClaims /\ Local(pages) => Local(P) /\ Conveys(pages, P, s)
    PROVE  InFlight'
<1>1. PICK v, w, q, x : /\ v = ProxyView(apps, pages) /\ w = DeviceView(running, dev)
                        /\ q = fromDev /\ x = ProxyView(as, P)
  OBVIOUS
<1>2. q \in Seq(FromDev) /\ q # <<>> /\ toDev \in Seq(ToDev)
  BY <1>1 DEF IInv, Types
<1>3. PICK f : /\ Told(f, q, v, w)
               /\ ~RemoteClaims => Local(pages) /\ SessionsAt(f, q, pages, toDev, dev)
  BY <1>1 DEF InFlight
<1>4. PICK g : /\ Told(g, Tail(q), f[1], w) /\ Tells(q[1], v, f[1]) /\ f[1] \in Views
               /\ \A pg : Gone(f, q, pg) => Gone(g, Tail(q), pg) \/ pg \notin v.pages
  BY <1>2, <1>3, ToldHead
<1>5. f[1] = x
  BY <1>1, <1>4
<1>6. \A pg : Gone(f, q, pg) => Gone(g, Tail(q), pg) \/ \A n \in DOMAIN pages : pages[n].id # pg
  BY <1>1, <1>4 DEF ProxyView
<1>7. ASSUME ~RemoteClaims PROVE Local(P) /\ SessionsAt(g, Tail(q), P, toDev \o s, dev)
  <2>1. Conveys(pages, P, s) /\ Local(P)
    BY <1>3, <1>7
  <2>2. PICK Q, t, d : Q = pages /\ t = toDev /\ d = dev
    OBVIOUS
  <2>3. SessionsAt(f, q, Q, t, d) /\ Conveys(Q, P, s) /\ t \in Seq(ToDev)
    BY <1>2, <1>3, <1>7, <2>1, <2>2
  <2>4. \A pg : Gone(f, q, pg) => Gone(g, Tail(q), pg) \/ \A n \in DOMAIN Q : Q[n].id # pg
    BY <1>6, <2>2
  <2>5. SessionsAt(g, Tail(q), P, t \o s, d)
    BY <2>3, <2>4, ProxySessions
  <2> QED BY <2>1, <2>2, <2>5
<1>8. /\ fromDev' = Tail(q) /\ ProxyView(apps', pages') = x /\ DeviceView(running', dev') = w
      /\ pages' = P /\ toDev' = toDev \o s /\ dev' = dev
  BY <1>1 DEF device
<1>9. \E h : /\ Told(h, fromDev', ProxyView(apps', pages'), DeviceView(running', dev'))
             /\ ~RemoteClaims =>
                    Local(pages') /\ SessionsAt(h, fromDev', pages', toDev', dev')
  BY <1>4, <1>5, <1>7, <1>8
<1> QED BY <1>9 DEF InFlight

\* The proxy sends messages, of its own.
LEMMA ClientInFlight ==
    ASSUME IInv, InFlight, UNCHANGED <<up, apps, device, fromDev>>,
           NEW s \in Seq(ToDev), toDev' = toDev \o s, NEW P, pages' = P,
           ProxyView(apps, P) = ProxyView(apps, pages),
           ~RemoteClaims /\ Local(pages) => Local(P) /\ Conveys(pages, P, s)
    PROVE  InFlight'
<1> SUFFICES ASSUME up
             PROVE  \E h : /\ Told(h, fromDev', ProxyView(apps', pages'), DeviceView(running', dev'))
                           /\ ~RemoteClaims =>
                                Local(pages') /\ SessionsAt(h, fromDev', pages', toDev', dev')
  BY DEF InFlight
<1>1. PICK v, w, q : v = ProxyView(apps, pages) /\ w = DeviceView(running, dev) /\ q = fromDev
  OBVIOUS
<1>3. PICK f : /\ Told(f, q, v, w)
               /\ ~RemoteClaims => Local(pages) /\ SessionsAt(f, q, pages, toDev, dev)
  BY <1>1 DEF InFlight
<1>7. ASSUME ~RemoteClaims PROVE Local(P) /\ SessionsAt(f, q, P, toDev \o s, dev)
  <2>1. Conveys(pages, P, s) /\ Local(P)
    BY <1>3, <1>7
  <2>2. PICK Q, t, d : Q = pages /\ t = toDev /\ d = dev
    OBVIOUS
  <2>3. SessionsAt(f, q, Q, t, d) /\ Conveys(Q, P, s) /\ t \in Seq(ToDev)
    BY <1>3, <1>7, <2>1, <2>2 DEF IInv, Types
  <2>4. \A pg : Gone(f, q, pg) => Gone(f, q, pg) \/ \A n \in DOMAIN Q : Q[n].id # pg
    OBVIOUS
  <2>5. SessionsAt(f, q, P, t \o s, d)
    BY <2>3, <2>4, ProxySessions
  <2> QED BY <2>1, <2>2, <2>5
<1>8. /\ fromDev' = q /\ ProxyView(apps', pages') = v /\ DeviceView(running', dev') = w
      /\ pages' = P /\ toDev' = toDev \o s /\ dev' = dev
  BY <1>1 DEF device
<1> QED BY <1>3, <1>7, <1>8

\* The device sends a message, and may have taken one.
LEMMA SentInFlight ==
    ASSUME IInv, InFlight, UNCHANGED <<up, apps, pages>>, up,
           NEW m \in FromDev, fromDev' = Append(fromDev, m),
           NEW run \in SUBSET Apps, running' = run, NEW d, dev' = d,
           Tells(m, DeviceView(running, dev), DeviceView(run, d)),
           ~RemoteClaims =>
                \/ /\ toDev' = toDev
                   /\ \A pg \in PageIds : \/ d[pg] = dev[pg]
                                          \/ d[pg] \notin WsIds /\ Shut \in {d[pg], dev[pg]}
                \/ /\ toDev # <<>> /\ toDev' = Tail(toDev)
                   /\ \A pg \in PageIds : Makes(toDev[1], pg, dev[pg], d[pg], FALSE)
    PROVE  InFlight'
<1>1. PICK v, w, q, x : /\ v = ProxyView(apps, pages) /\ w = DeviceView(running, dev)
                        /\ q = fromDev /\ x = DeviceView(run, d)
  OBVIOUS
<1>2. q \in Seq(FromDev) /\ toDev \in Seq(ToDev)
  BY <1>1 DEF IInv, Types
<1>3. PICK f : /\ Told(f, q, v, w)
               /\ ~RemoteClaims => Local(pages) /\ SessionsAt(f, q, pages, toDev, dev)
  BY <1>1 DEF InFlight
<1>4. x \in Views /\ Tells(m, w, x)
  BY <1>1 DEF Views, DeviceView
<1>5. PICK g : /\ Told(g, Append(q, m), v, x)
               /\ \A pg : /\ Gone(f, q, pg) => Gone(g, Append(q, m), pg)
                          /\ pg \notin w.pages => Gone(g, Append(q, m), pg)
                          /\ pg \notin x.pages => Gone(g, Append(q, m), pg)
  BY <1>2, <1>3, <1>4, ToldOn
<1>6. PICK p : p = Append(q, m)
  OBVIOUS
<1>7. ASSUME ~RemoteClaims PROVE Local(pages) /\ SessionsAt(g, p, pages, toDev', d)
  <2>1. PICK Q, t, e, u : Q = pages /\ t = toDev /\ e = dev /\ u = toDev'
    OBVIOUS
  <2>2. SessionsAt(f, q, Q, t, e) /\ t \in Seq(ToDev) /\ \A pg : Gone(f, q, pg) => Gone(g, p, pg)
    BY <1>2, <1>3, <1>5, <1>6, <1>7, <2>1
  <2>3. CASE u = t /\ \A pg \in PageIds : \/ d[pg] = e[pg]
                                          \/ d[pg] \notin WsIds /\ Shut \in {d[pg], e[pg]}
    <3>1. \A pg \in PageIds : Shut \in {d[pg], e[pg]} => Gone(g, p, pg)
      BY <1>1, <1>5, <1>6, <2>1 DEF DeviceView
    <3>2. \A pg \in PageIds : d[pg] = e[pg] \/ (d[pg] \notin WsIds /\ Gone(g, p, pg))
      BY <2>3, <3>1
    <3>3. SessionsAt(g, p, Q, t, d)
      BY <2>2, <3>2, DeviceSessions
    <3> QED BY <1>3, <1>7, <2>1, <2>3, <3>3
  <2>4. CASE t # <<>> /\ u = Tail(t) /\ \A pg \in PageIds : Makes(t[1], pg, e[pg], d[pg], FALSE)
    <3>1. \A pg \in PageIds : Makes(t[1], pg, e[pg], d[pg], Gone(g, p, pg))
      BY <2>4 DEF Makes
    <3>2. SessionsAt(g, p, Q, Tail(t), d)
      BY <2>2, <2>4, <3>1, TakenSessions
    <3> QED BY <1>3, <1>7, <2>1, <2>4, <3>2
  <2> QED BY <1>7, <2>1, <2>3, <2>4
<1>8. /\ fromDev' = p /\ ProxyView(apps', pages') = v /\ DeviceView(running', dev') = x
      /\ pages' = pages /\ dev' = d
  BY <1>1, <1>6
<1>9. \E h : /\ Told(h, fromDev', ProxyView(apps', pages'), DeviceView(running', dev'))
             /\ ~RemoteClaims =>
                    Local(pages') /\ SessionsAt(h, fromDev', pages', toDev', dev')
  BY <1>5, <1>6, <1>7, <1>8
<1> QED BY <1>9 DEF InFlight

-----------------------------------------------------------------------------
(* The steps keep what is in flight in order.                              *)

\* Neither the table nor the queues change.
LEMMA SameInFlight ==
    ASSUME InFlight, pages' = pages, toDev' = toDev, UNCHANGED <<up, apps, device, fromDev>>
    PROVE  InFlight'
<1>1. running' = running /\ dev' = dev
  BY DEF device
<1> QED BY <1>1 DEF InFlight

\* No page comes or goes by iwdp_stop_devtools, iwdp_iws_close or iwdp_start_devtools.
LEMMA SameTable ==
    ASSUME NEW h, Shaped(h), NEW s, NEW n
    PROVE  /\ DOMAIN StopDevtools(h, n).pages = DOMAIN h.pages
           /\ DOMAIN CloseIws(h, s).pages = DOMAIN h.pages
           /\ DOMAIN Started(h, n, s).pages = DOMAIN h.pages
<1>1. ASSUME NEW k PROVE DOMAIN StopDevtools(h, k).pages = DOMAIN h.pages /\ Shaped(StopDevtools(h, k))
  <2>1. PICK f : f = StopDevtools(h, k)
    OBVIOUS
  <2>2. Shaped(f)
    BY <2>1, StopShape
  <2>3. DOMAIN f.pages = DOMAIN h.pages
    BY <2>1 DEF StopDevtools
  <2> QED BY <2>1, <2>2, <2>3
<1>2. DOMAIN CloseIws(h, s).pages = DOMAIN h.pages
  <2>1. PICK k : k = h.iws[s].ipage
    OBVIOUS
  <2>2. PICK g : /\ g = h \/ g = StopDevtools(h, k)
                 /\ CloseIws(h, s) = [g EXCEPT !.iws[s] = NoIws]
    BY <2>1 DEF CloseIws
  <2>3. Shaped(g) /\ DOMAIN g.pages = DOMAIN h.pages
    BY <1>1, <2>2
  <2> QED BY <2>2, <2>3 DEF Shaped
<1>3. DOMAIN Started(h, n, s).pages = DOMAIN h.pages
  <2>1. PICK owner : owner = h.pages[n].iws
    OBVIOUS
  <2>2. PICK g : g = IF owner = Null THEN h ELSE [StopDevtools(h, n) EXCEPT !.iws[owner].pageNum = n]
    OBVIOUS
  <2>3. DOMAIN g.pages = DOMAIN h.pages
    <3>1. PICK f : f = StopDevtools(h, n)
      OBVIOUS
    <3>2. Shaped(f) /\ DOMAIN f.pages = DOMAIN h.pages
      BY <1>1, <3>1
    <3>3. g = h \/ g = [f EXCEPT !.iws[owner].pageNum = n]
      BY <2>2, <3>1
    <3> QED BY <3>2, <3>3 DEF Shaped
  <2>4. PICK e, d : StartDevtools(h, n, s) = [pages |-> [g.pages EXCEPT ![n] = e], iws |-> d,
                                sent |-> Append(g.sent, Setup(g.pages[n].id, g.iws[s].id))]
    BY <2>1, <2>2 DEF StartDevtools
  <2>5. Started(h, n, s).pages = [g.pages EXCEPT ![n] = e]
    BY <2>4 DEF Started
  <2> QED BY <2>3, <2>5
<1> QED BY <1>1, <1>2, <1>3

\* A handler of a browser client.
LEMMA HandlerInFlight ==
    ASSUME IInv, InFlight, NEW h, Keeps(Heap, h, maxPageNum), DOMAIN h.pages = DOMAIN pages,
           Apply(h), UNCHANGED <<up, apps, lastApp, maxPageNum, device, fromDev>>,
           ~RemoteClaims /\ Local(pages) =>
                Local(h.pages) /\ Conveys(pages, h.pages, h.sent)
    PROVE  InFlight'
<1>1. h.sent \in Seq(ToDev) /\ \A n \in DOMAIN h.pages : h.pages[n].id = pages[n].id
  BY HeapFields DEF Keeps
<1>2. PICK s, P : s = h.sent /\ P = h.pages /\ s \in Seq(ToDev)
  BY <1>1
<1>3. s \in Seq(ToDev) /\ toDev' = toDev \o s /\ pages' = P
  BY <1>2 DEF Apply
<1>4. DOMAIN P = DOMAIN pages /\ \A n \in DOMAIN pages : P[n].id = pages[n].id
  BY <1>1, <1>2
<1>5. ProxyView(apps, P) = ProxyView(apps, pages)
  <2>1. {P[n].id : n \in DOMAIN P} = {pages[n].id : n \in DOMAIN pages}
    BY <1>4
  <2> QED BY <2>1 DEF ProxyView
<1>6. ~RemoteClaims /\ Local(pages) => Local(P) /\ Conveys(pages, P, s)
  BY <1>2
<1> QED BY <1>3, <1>5, <1>6, ClientInFlight

\* A client is closed.
LEMMA CloseInFlight ==
    ASSUME IInv, InFlight, NEW s \in Iwss, Apply(CloseIws(Heap, s)),
           UNCHANGED <<up, apps, lastApp, maxPageNum, device, fromDev>>
    PROVE  InFlight'
<1>1. PICK h, r : h = Heap /\ r = CloseIws(h, s)
  OBVIOUS
<1>2. /\ Shaped(h) /\ h.pages = pages /\ h.iws = iws /\ h.sent \in Seq(ToDev)
      /\ h.sent = <<>>
  BY <1>1, HeapFields
<1>3. r = CloseIws(h, s) /\ Graph(h.pages, h.iws, maxPageNum)
  BY <1>1, <1>2 DEF IInv
<1>4. Keeps(h, r, maxPageNum)
  BY <1>2, <1>3, CloseKeeps
<1>5. DOMAIN r.pages = DOMAIN pages
  BY <1>2, <1>3, SameTable
<1>6. ASSUME ~RemoteClaims, Local(pages)
      PROVE  Local(r.pages) /\ Conveys(pages, r.pages, r.sent)
  <2>1. Owned(h.pages, h.iws) /\ Local(h.pages)
    BY <1>2, <1>6 DEF IInv, NoRemote
  <2>2. Releases(h.pages, r.pages, r.sent)
    BY <1>2, <1>3, <2>1, CloseReleases
  <2>3. r.sent \in Seq(ToDev)
    BY <1>4 DEF Keeps
  <2>4. Conveys(h.pages, r.pages, r.sent)
    BY <1>3, <2>1, <2>2, <2>3, ReleasesConveys
  <2>5. Local(r.pages)
    BY <2>1, <2>2 DEF Releases, Local
  <2> QED BY <1>2, <2>4, <2>5
<1>7. Apply(r) /\ Keeps(Heap, r, maxPageNum)
  BY <1>1, <1>4
<1> QED BY <1>5, <1>6, <1>7, HandlerInFlight

\* What a browser client does.
LEMMA ClientsInFlight ==
    ASSUME IInv, InFlight, NEW s \in Iwss,
           \/ \E id \in WsIds : Accept(s, id)
           \/ \E n \in 1..MaxPageNum : DevtoolsRequest(s, n)
           \/ TextFrame(s) \/ CloseClient(s)
    PROVE  InFlight'
<1>0. toDev \in Seq(ToDev)
  BY DEF IInv, Types
<1>1. CASE \E id \in WsIds : Accept(s, id)
  <2>1. pages' = pages /\ toDev' = toDev /\ UNCHANGED <<up, apps, device, fromDev>>
    BY <1>1 DEF Accept
  <2> QED BY <2>1, SameInFlight
<1>2. CASE CloseClient(s)
  BY <1>2, CloseInFlight DEF CloseClient
<1>3. CASE TextFrame(s)
  <2>1. CASE iws[s].sentClose
    BY <1>3, <2>1, CloseInFlight DEF TextFrame
  <2>2. CASE ~iws[s].sentClose
    <3>1. Apply([Heap EXCEPT !.iws[s].sentClose = TRUE])
      BY <1>3, <2>2 DEF TextFrame
    <3>2. pages' = pages /\ toDev' = toDev \o <<>>
      BY <3>1 DEF Apply, Heap
    <3>3. toDev' = toDev /\ UNCHANGED <<up, apps, device, fromDev>>
      BY <1>0, <1>3, <3>2, ConcatEmptySeq DEF TextFrame
    <3> QED BY <3>2, <3>3, SameInFlight
  <2> QED BY <2>1, <2>2
<1>4. ASSUME NEW n \in 1..MaxPageNum, DevtoolsRequest(s, n) PROVE InFlight'
  <2>0. UNCHANGED <<up, apps, lastApp, maxPageNum, device, fromDev>>
    BY <1>4 DEF DevtoolsRequest
  <2>1. CASE n \notin DOMAIN pages
    <3>1. Apply([Heap EXCEPT !.iws[s].st = "ws"])
      BY <1>4, <2>1 DEF DevtoolsRequest
    <3>2. pages' = pages /\ toDev' = toDev \o <<>>
      BY <3>1 DEF Apply, Heap
    <3>3. toDev' = toDev
      BY <1>0, <3>2, ConcatEmptySeq
    <3> QED BY <2>0, <3>2, <3>3, SameInFlight
  <2>2. CASE n \in DOMAIN pages
    <3>1. PICK h : h = Heap
      OBVIOUS
    <3>2. /\ Shaped(h) /\ h.pages = pages /\ h.iws = iws /\ h.sent \in Seq(ToDev)
          /\ h.sent = <<>> /\ n \in DOMAIN h.pages
      BY <2>2, <3>1, HeapFields
    <3>3. MayStart(h, n, s, maxPageNum)
      BY <1>4, <3>2 DEF MayStart, IInv, Graph, DevtoolsRequest
    <3>4. PICK r : r = Started(h, n, s)
      OBVIOUS
    <3>5. Keeps(h, r, maxPageNum) /\ DOMAIN r.pages = DOMAIN pages
      BY <3>2, <3>3, <3>4, StartKeeps, SameTable
    <3>6. Apply(r) /\ Keeps(Heap, r, maxPageNum)
      BY <1>4, <2>2, <3>1, <3>4, <3>5 DEF DevtoolsRequest, Started
    <3>7. ASSUME ~RemoteClaims, Local(pages)
          PROVE  Local(r.pages) /\ Conveys(pages, r.pages, r.sent)
      <4>1. Owned(h.pages, h.iws) /\ Local(h.pages)
        BY <3>2, <3>7 DEF IInv, NoRemote
      <4>2. Conveys(h.pages, r.pages, r.sent) /\ Local(r.pages)
        BY <3>2, <3>3, <3>4, <4>1, StartConveys
      <4> QED BY <3>2, <4>2
    <3> QED BY <2>0, <3>5, <3>6, <3>7, HandlerInFlight
  <2> QED BY <2>1, <2>2
<1> QED BY <1>1, <1>2, <1>3, <1>4

\* Messages one after the other.
LEMMA CarriesOn ==
    ASSUME NEW pg, NEW o, NEW r, NEW x, NEW s \in Seq(ToDev), NEW t \in Seq(ToDev),
           Carries(s, pg, o, r), Carries(t, pg, r, x)
    PROVE  Carries(s \o t, pg, o, x)
<1>1. PICK u : /\ Said(u, s, pg, o, r)
               /\ r = Null \/ r = o \/ Strays(u, s, r)
  BY DEF Carries
<1>2. PICK z : /\ Said(z, t, pg, r, x)
               /\ x = Null \/ x = r \/ Strays(z, t, x)
  BY DEF Carries
<1>3. PICK y : /\ Said(y, s \o t, pg, o, x)
               /\ \A c : Strays(u, s, c) => Strays(y, s \o t, c)
               /\ \A c : Strays(z, t, c) => Strays(y, s \o t, c)
  BY <1>1, <1>2, SaidOn
<1>4. x = Null \/ x = o \/ Strays(y, s \o t, x)
  <2>1. CASE x = r
    BY <1>1, <1>3, <2>1
  <2>2. CASE x # r
    BY <1>2, <1>3, <2>2
  <2> QED BY <2>1, <2>2
<1> QED BY <1>3, <1>4 DEF Carries

\* One change of the table after the other.
LEMMA ConveysOn ==
    ASSUME NEW P, NEW Q, NEW R, NEW s \in Seq(ToDev), NEW t \in Seq(ToDev),
           Conveys(P, Q, s), Conveys(Q, R, t)
    PROVE  Conveys(P, R, s \o t)
<1> SUFFICES ASSUME NEW pg \in PageIds, NEW o \in Owners, OwnedBy(P, pg, o)
             PROVE  \E x \in Owners : OwnedBy(R, pg, x) /\ Carries(s \o t, pg, o, x)
  BY DEF Conveys
<1>1. PICK r \in Owners : OwnedBy(Q, pg, r) /\ Carries(s, pg, o, r)
  BY DEF Conveys
<1>2. PICK x \in Owners : OwnedBy(R, pg, x) /\ Carries(t, pg, r, x)
  BY <1>1 DEF Conveys
<1> QED BY <1>1, <1>2, CarriesOn

\* For each of some apps, in some order, nothing but its listing is asked for.
LEMMA AskedOnly ==
    ASSUME NEW S \in SUBSET Apps, NEW order \in Orders(S)
    PROVE  \E q \in Seq(ToDev) : /\ q = [i \in DOMAIN order |-> GetListing(order[i])]
                                 /\ \A i \in 1..Len(q) : \E app : q[i] = GetListing(app)
<1>1. IsFiniteSet(S)
  BY FiniteAssumption, FS_Subset
<1>2. PICK k \in Nat : order \in [1..k -> S]
  BY <1>1, OrderSeq
<1>3. PICK q : q = [i \in 1..k |-> GetListing(order[i])]
  OBVIOUS
<1>4. \A i \in 1..k : q[i] = GetListing(order[i]) /\ q[i] \in ToDev
  BY <1>2, <1>3 DEF ToDev
<1>5. q \in Seq(ToDev)
  BY <1>3, <1>4, SeqDef
<1>6. Len(q) = k /\ DOMAIN order = 1..k
  BY <1>2, <1>3
<1>7. \A i \in 1..Len(q) : \E app : q[i] = GetListing(app)
  BY <1>4, <1>6
<1>8. q = [i \in DOMAIN order |-> GetListing(order[i])]
  BY <1>3, <1>6
<1> QED BY <1>5, <1>7, <1>8

\* A message that is no news is handled.
LEMMA IgnoredInFlight ==
    ASSUME IInv, InFlight, MaySend, fromDev # <<>>, fromDev' = Tail(fromDev), UNCHANGED device,
           apps' = apps, pages' = pages, toDev' = toDev,
           fromDev[1].t \notin {"connected", "disconnected", "listing"}
    PROVE  InFlight'
<1>1. up /\ toDev \in Seq(ToDev)
  BY DEF MaySend, IInv, Types
<1>2. PICK s, as, P : /\ s = <<>> /\ toDev \o s = toDev /\ Len(s) = 0
                     /\ as = apps /\ P = pages /\ s \in Seq(ToDev)
  BY <1>1, EmptySeq, ConcatEmptySeq
<1>3. s \in Seq(ToDev) /\ toDev' = toDev \o s /\ apps' = as /\ pages' = P
  BY <1>2
<1>4. \A x : Tells(fromDev[1], ProxyView(apps, pages), x) => x = ProxyView(as, P)
  BY <1>2 DEF Tells
<1>5. Local(pages) => Local(P) /\ Conveys(pages, P, s)
  <2>1. \A i \in 1..Len(s) : \E app : s[i] = GetListing(app)
    BY <1>2
  <2>2. Conveys(P, P, s)
    BY <1>3, <2>1, ConveysNothing
  <2> QED BY <1>2, <2>2
<1> QED BY <1>1, <1>3, <1>4, <1>5, TakenInFlight

\* iwdp_on_applicationConnected and iwdp_on_applicationUpdated.
LEMMA AddAppInFlight ==
    ASSUME IInv, InFlight, MaySend, fromDev # <<>>, fromDev' = Tail(fromDev), UNCHANGED device,
           NEW app \in Apps, app = fromDev[1].app, fromDev[1].t \in {"connected", "updated"},
           AddApps({app}), pages' = pages
    PROVE  InFlight'
<1>1. up
  BY DEF MaySend
<1>2. PICK order \in Orders({app} \ apps) :
            toDev' = toDev \o [i \in DOMAIN order |-> GetListing(order[i])]
  BY DEF AddApps
<1>3. {app} \ apps \in SUBSET Apps
  OBVIOUS
<1>4. PICK q \in Seq(ToDev) : /\ q = [i \in DOMAIN order |-> GetListing(order[i])]
                              /\ \A i \in 1..Len(q) : \E a : q[i] = GetListing(a)
  BY <1>3, AskedOnly
<1>5. PICK as, P : as = apps \cup {app} /\ P = pages
  OBVIOUS
<1>6. toDev' = toDev \o q /\ apps' = as /\ pages' = P
  BY <1>2, <1>4, <1>5 DEF AddApps
<1>7. ASSUME NEW x \in Views, Tells(fromDev[1], ProxyView(apps, pages), x)
      PROVE  x = ProxyView(as, P)
  <2>1. CASE fromDev[1].t = "connected"
    BY <1>5, <1>7, <2>1 DEF Tells, ProxyView
  <2>2. CASE fromDev[1].t = "updated"
    <3>1. app \in apps
      BY <1>7, <2>2 DEF Tells, ProxyView
    <3>2. as = apps
      BY <1>5, <3>1
    <3>3. x = ProxyView(apps, pages)
      BY <1>7, <2>2 DEF Tells
    <3> QED BY <1>5, <3>2, <3>3
  <2> QED BY <2>1, <2>2
<1>8. Local(pages) => Local(P) /\ Conveys(pages, P, q)
  <2>1. Conveys(P, P, q)
    BY <1>4, ConveysNothing
  <2> QED BY <1>5, <2>1
<1> QED BY <1>1, <1>6, <1>7, <1>8, TakenInFlight

\* Pages are dropped, and listings are asked for.
LEMMA DropInFlight ==
    ASSUME IInv, InFlight, MaySend, fromDev # <<>>, fromDev' = Tail(fromDev), UNCHANGED device,
           NEW ns, ns \subseteq DOMAIN pages, NEW r \in DropPages(Heap, ns),
           NEW q \in Seq(ToDev), \A i \in 1..Len(q) : \E app : q[i] = GetListing(app),
           pages' = r.pages, toDev' = toDev \o (r.sent \o q), NEW as, apps' = as,
           \A x \in Views : Tells(fromDev[1], ProxyView(apps, pages), x) =>
                x = [apps |-> as, pages |-> {pages[n].id : n \in DOMAIN pages \ ns}]
    PROVE  InFlight'
<1>1. up
  BY DEF MaySend
<1>2. r.sent \in Seq(ToDev)
  BY DropFromHeap
<1>3. PICK h : h = Heap
  OBVIOUS
<1>4. /\ Shaped(h) /\ h.pages = pages /\ h.iws = iws /\ h.sent = <<>>
      /\ ns \subseteq DOMAIN h.pages /\ r \in DropPages(h, ns) /\ maxPageNum \in Nat
  BY <1>3, HeapFields DEF IInv, Types
<1>5. Graph(h.pages, h.iws, maxPageNum)
  BY <1>4 DEF IInv
<1>6. DOMAIN r.pages = DOMAIN pages \ ns /\ \A n \in DOMAIN r.pages : r.pages[n] = pages[n]
  BY <1>4, DropTable
<1>7. PICK s, P : s = r.sent \o q /\ P = r.pages /\ s \in Seq(ToDev)
  <2>1. r.sent \o q \in Seq(ToDev)
    BY <1>2, ConcatProperties
  <2> QED BY <2>1
<1>8. s \in Seq(ToDev) /\ toDev' = toDev \o s /\ pages' = P
  BY <1>7
<1>9. ASSUME NEW x \in Views, Tells(fromDev[1], ProxyView(apps, pages), x)
      PROVE  x = ProxyView(as, P)
  <2>1. {P[n].id : n \in DOMAIN P} = {pages[n].id : n \in DOMAIN pages \ ns}
    BY <1>6, <1>7
  <2> QED BY <1>9, <2>1 DEF ProxyView
<1>10. ASSUME ~RemoteClaims, Local(pages) PROVE Local(P) /\ Conveys(pages, P, s)
  <2>1. Owned(h.pages, h.iws) /\ Local(h.pages)
    BY <1>4, <1>10 DEF IInv, NoRemote
  <2>2. Releases(h.pages, r.pages, r.sent)
    BY <1>4, <1>5, <2>1, DropReleases
  <2>3. Conveys(h.pages, r.pages, r.sent)
    BY <1>2, <1>5, <2>1, <2>2, ReleasesConveys
  <2>4. Conveys(r.pages, r.pages, q)
    BY ConveysNothing
  <2>5. Conveys(h.pages, r.pages, r.sent \o q)
    BY <1>2, <2>3, <2>4, ConveysOn
  <2>6. Local(r.pages)
    BY <2>1, <2>2 DEF Releases, Local
  <2> QED BY <1>4, <1>7, <2>5, <2>6
<1> QED BY <1>1, <1>8, <1>9, <1>10, TakenInFlight

\* iwdp_on_applicationDisconnected.
LEMMA DisconnectedInFlight ==
    ASSUME IInv, InFlight, RecvDisconnected
    PROVE  InFlight'
<1>1. /\ MaySend /\ up /\ fromDev # <<>> /\ fromDev[1].t = "disconnected"
      /\ fromDev' = Tail(fromDev) /\ UNCHANGED device
  BY DEF RecvDisconnected, Receives, MaySend
<1>2. PICK app : app = fromDev[1].app
  OBVIOUS
<1>3. app \in apps
  BY <1>1, <1>2, FirstTells DEF Tells, ProxyView
<1>4. PICK ns, as : ns = PagesOf({app}) /\ as = apps \ {app}
  OBVIOUS
<1>5. ns \subseteq DOMAIN pages
  BY <1>4 DEF PagesOf
<1>6. PICK r \in DropPages(Heap, ns) : Apply(r)
  BY <1>2, <1>3, <1>4 DEF RecvDisconnected
<1>7. r.sent \in Seq(ToDev)
  BY <1>5, DropFromHeap
<1>8. r.sent \o <<>> = r.sent /\ <<>> \in Seq(ToDev) /\ Len(<<>>) = 0
  BY <1>7, ConcatEmptySeq, EmptySeq
<1>9. PICK q \in Seq(ToDev) : r.sent \o q = r.sent /\ Len(q) = 0
  BY <1>8
<1>10. \A i \in 1..Len(q) : \E a : q[i] = GetListing(a)
  BY <1>9
<1>11. /\ pages' = r.pages /\ toDev' = toDev \o (r.sent \o q) /\ apps' = as
  BY <1>2, <1>4, <1>6, <1>9 DEF Apply, RecvDisconnected
<1>12. ASSUME NEW x \in Views, Tells(fromDev[1], ProxyView(apps, pages), x)
       PROVE  x = [apps |-> as, pages |-> {pages[n].id : n \in DOMAIN pages \ ns}]
  <2>1. x = [apps |-> apps \ {app}, pages |-> {pages[n].id : n \in DOMAIN pages} \ PagesIn(app)]
    BY <1>1, <1>2, <1>12 DEF Tells, ProxyView
  <2>2. {pages[n].id : n \in DOMAIN pages} \ PagesIn(app)
            = {pages[n].id : n \in DOMAIN pages \ ns}
    <3>1. \A n \in DOMAIN pages : pages[n].id \in PageIds
      BY DEF IInv, Graph, PageRecs
    <3>2. \A n \in DOMAIN pages : n \in ns <=> pages[n].id \in PagesIn(app)
      BY <1>4, <3>1 DEF PagesOf, PagesIn
    <3> QED BY <3>2
  <2> QED BY <1>4, <2>1, <2>2
<1> QED BY <1>1, <1>5, <1>10, <1>11, <1>12, DropInFlight

\* iwdp_on_applicationConnected and iwdp_on_applicationUpdated.
LEMMA NewsInFlight ==
    ASSUME IInv, InFlight, RecvConnected \/ RecvUpdated
    PROVE  InFlight'
<1>1. /\ MaySend /\ fromDev # <<>> /\ fromDev' = Tail(fromDev) /\ UNCHANGED device
      /\ pages' = pages /\ fromDev[1].t \in {"connected", "updated"}
      /\ AddApps({fromDev[1].app})
  BY DEF RecvConnected, RecvUpdated, Receives
<1>2. PICK app \in Apps : app = fromDev[1].app
  BY <1>1, FirstMessage, MessageKinds
<1>3. AddApps({app})
  BY <1>1, <1>2
<1> QED BY <1>1, <1>2, <1>3, AddAppInFlight

\* iwdp_on_reportConnectedApplicationList: it lists the apps that are known.
LEMMA AppListInFlight ==
    ASSUME IInv, InFlight, RecvAppList
    PROVE  InFlight'
<1>1. /\ MaySend /\ up /\ fromDev # <<>> /\ fromDev[1].t = "appList"
      /\ fromDev' = Tail(fromDev) /\ UNCHANGED device
  BY DEF RecvAppList, Receives, MaySend
<1>2. PICK list \in SUBSET Apps : list = fromDev[1].apps
  BY <1>1, FirstMessage, MessageKinds
<1>3. list = apps
  BY <1>1, <1>2, FirstTells DEF Tells, ProxyView
<1>4. CASE list = {}
  <2>1. apps' = apps /\ pages' = pages /\ toDev' = toDev
    BY <1>2, <1>4 DEF RecvAppList
  <2> QED BY <1>1, <2>1, IgnoredInFlight
<1>5. CASE list # {}
  <2>1. PICK ns, as : ns = PagesOf(apps \ list) /\ as = apps
    OBVIOUS
  <2>2. ns = {}
    BY <1>3, <2>1 DEF PagesOf
  <2>3. ns \subseteq DOMAIN pages
    BY <2>2
  <2>4. PICK r \in DropPages(Heap, ns), order \in Orders(list \ apps) :
            Apply([r EXCEPT !.sent = @ \o [i \in DOMAIN order |-> GetListing(order[i])]])
    BY <1>2, <1>5, <2>1 DEF RecvAppList
  <2>5. list \ apps \in SUBSET Apps
    BY <1>2
  <2>6. PICK q \in Seq(ToDev) : /\ q = [i \in DOMAIN order |-> GetListing(order[i])]
                                /\ \A i \in 1..Len(q) : \E app : q[i] = GetListing(app)
    BY <2>5, AskedOnly
  <2>7. Shaped(r)
    BY <2>3, DropFromHeap
  <2>8. pages' = r.pages /\ toDev' = toDev \o (r.sent \o q)
    BY <2>4, <2>6, <2>7 DEF Apply, Shaped
  <2>9. apps' = as
    BY <1>2, <1>3, <1>5, <2>1 DEF RecvAppList
  <2>10. ASSUME NEW x \in Views, Tells(fromDev[1], ProxyView(apps, pages), x)
         PROVE  x = [apps |-> as, pages |-> {pages[n].id : n \in DOMAIN pages \ ns}]
    <3>1. x = ProxyView(apps, pages)
      BY <1>1, <2>10 DEF Tells
    <3>2. DOMAIN pages \ ns = DOMAIN pages
      BY <2>2
    <3> QED BY <2>1, <3>1, <3>2 DEF ProxyView
  <2> QED BY <1>1, <2>3, <2>6, <2>8, <2>9, <2>10, DropInFlight
<1> QED BY <1>4, <1>5

\* iwdp_on_applicationSentData, messages that are ignored, and those that end the device.
LEMMA OtherInFlight ==
    ASSUME IInv, InFlight, RecvData \/ RecvInvalid \/ RecvOther
    PROVE  InFlight'
<1>1. CASE Kill
  BY <1>1 DEF Kill, InFlight
<1>2. CASE ~Kill
  <2>1. /\ MaySend /\ fromDev # <<>> /\ fromDev' = Tail(fromDev)
        /\ UNCHANGED <<proxy, device, toDev>>
        /\ fromDev[1].t \in {"data", "reportSetup", "ignored"}
    BY <1>2 DEF RecvData, RecvInvalid, RecvOther, Receives
  <2>2. fromDev[1].t \notin {"connected", "disconnected", "listing"}
    BY <2>1
  <2>3. apps' = apps /\ pages' = pages /\ toDev' = toDev /\ UNCHANGED device
    BY <2>1 DEF proxy
  <2> QED BY <2>1, <2>2, <2>3, IgnoredInFlight
<1> QED BY <1>1, <1>2

\* The table after a listing, old pages dropped: what the listing tells.
LEMMA ListedView ==
    ASSUME Graph(pages, iws, maxPageNum), maxPageNum \in Nat,
           NEW app \in Apps, NEW listed \in SUBSET Listed, \A l \in listed : AppOf[l.id] = app,
           NEW number \in [NewPages(listed) -> FreshNums(Cardinality(NewPages(listed)))],
           \A p, q \in NewPages(listed) : p # q => number[p] # number[q],
           NEW P, P = Relisted(listed, number)
    PROVE  {P[n].id : n \in DOMAIN P \ OldPages(app, listed)}
                = ({pages[n].id : n \in DOMAIN pages} \ PagesIn(app)) \cup {l.id : l \in listed}
<1>1. PICK ids, ns : ids = {l.id : l \in listed} /\ ns = OldPages(app, listed)
  OBVIOUS
<1>2. /\ DOMAIN pages \subseteq DOMAIN P
      /\ \A n \in DOMAIN pages : P[n].id = pages[n].id
      /\ \A n \in DOMAIN P \ DOMAIN pages : P[n].id \in ids
      /\ \A l \in listed : \E n \in DOMAIN P : P[n].id = l.id
  BY <1>1, RelistedSays
<1>3. \A n \in DOMAIN pages : pages[n].id \in PageIds
  BY DEF Graph, PageRecs
<1>4. \A n : n \in ns <=> /\ n \in DOMAIN pages /\ pages[n].id \in PagesIn(app)
                          /\ pages[n].id \notin ids
  BY <1>1, <1>3 DEF OldPages, PagesOf, PagesIn
<1>5. ASSUME NEW n \in DOMAIN P \ ns
      PROVE  P[n].id \in ({pages[k].id : k \in DOMAIN pages} \ PagesIn(app)) \cup ids
  <2>1. CASE n \in DOMAIN pages
    BY <1>2, <1>4, <1>5, <2>1
  <2>2. CASE n \notin DOMAIN pages
    BY <1>2, <1>5, <2>2
  <2> QED BY <2>1, <2>2
<1>6. ASSUME NEW k \in DOMAIN pages, pages[k].id \notin PagesIn(app)
      PROVE  k \in DOMAIN P \ ns /\ P[k].id = pages[k].id
  BY <1>2, <1>4, <1>6
<1>7. ASSUME NEW id \in ids PROVE \E n \in DOMAIN P \ ns : P[n].id = id
  <2>1. PICK n \in DOMAIN P : P[n].id = id
    BY <1>1, <1>2
  <2>2. n \notin ns
    BY <1>2, <1>4, <2>1
  <2> QED BY <2>1, <2>2
<1>8. {P[n].id : n \in DOMAIN P \ ns}
            = ({pages[n].id : n \in DOMAIN pages} \ PagesIn(app)) \cup ids
  BY <1>5, <1>6, <1>7
<1> QED BY <1>1, <1>8

\* iwdp_on_applicationSentListing: the app is known, and the table follows the listing.
LEMMA ListingInFlight ==
    ASSUME IInv, InFlight, RecvListing
    PROVE  InFlight'
<1>1. /\ up /\ MaySend /\ fromDev # <<>> /\ fromDev[1].t = "listing"
  BY DEF RecvListing, Receives, MaySend
<1>2. PICK app \in Apps, listed \in SUBSET Listed :
            app = fromDev[1].app /\ listed = fromDev[1].pages
  BY <1>1, FirstMessage, MessageKinds
<1>3. app \in apps /\ \A l \in listed : AppOf[l.id] = app
  BY <1>1, <1>2, FirstTells DEF Tells, ProxyView
<1>4. PICK new : new = NewPages(listed)
  OBVIOUS
<1>5. /\ maxPageNum' = maxPageNum + Cardinality(new) /\ fromDev' = Tail(fromDev)
      /\ apps' = apps /\ UNCHANGED <<up, device>>
  BY <1>2, <1>3, <1>4 DEF RecvListing
<1>6. PICK number \in [new -> FreshNums(Cardinality(new))] :
            /\ \A p, q \in new : p # q => number[p] # number[q]
            /\ LET h == [pages |-> Relisted(listed, number),
                         iws |-> [s \in Iwss |-> IF s \in Claimed(listed)
                                    THEN [iws[s] EXCEPT !.ipage = NoPage]
                                    ELSE iws[s]],
                         sent |-> <<>>]
               IN \E g \in DropPages(h, OldPages(app, listed)) : Apply(g)
  BY <1>2, <1>3, <1>4 DEF RecvListing
<1>7. PICK P, C : /\ P = Relisted(listed, number)
                  /\ C = [s \in Iwss |-> IF s \in Claimed(listed)
                                         THEN [iws[s] EXCEPT !.ipage = NoPage] ELSE iws[s]]
  OBVIOUS
<1>8. PICK h : h = [pages |-> P, iws |-> C, sent |-> <<>>]
  OBVIOUS
<1>9. PICK ns : ns = OldPages(app, listed)
  OBVIOUS
<1>10. PICK r \in DropPages(h, ns) : Apply(r)
  BY <1>6, <1>7, <1>8, <1>9
<1>11. maxPageNum \in Nat /\ Graph(pages, iws, maxPageNum)
  BY DEF IInv, Types
<1>12. /\ maxPageNum + Cardinality(new) \in Nat
       /\ Graph(P, C, maxPageNum + Cardinality(new))
       /\ (\A l \in listed : l.conn # Remote) /\ Owned(pages, iws) => Owned(P, C)
  BY <1>4, <1>6, <1>7, <1>11, RelistedKeeps
<1>13. PICK top \in Nat : top = maxPageNum + Cardinality(new)
  BY <1>12
<1>14. /\ Shaped(h) /\ h.pages = P /\ h.iws = C /\ h.sent = <<>> /\ h.sent \in Seq(ToDev)
  BY <1>8, EmptySeq DEF Shaped
<1>15. DOMAIN pages \subseteq DOMAIN P
  BY <1>4, <1>6, <1>7, <1>11, RelistedSays
<1>16. ns \subseteq DOMAIN h.pages /\ Graph(h.pages, h.iws, top)
  BY <1>9, <1>12, <1>13, <1>14, <1>15 DEF OldPages, PagesOf
<1>17. r.sent \in Seq(ToDev)
  <2>1. Keeps(h, r, top)
    BY <1>14, <1>16, DropKeeps
  <2> QED BY <2>1 DEF Keeps
<1>18. DOMAIN r.pages = DOMAIN P \ ns /\ \A n \in DOMAIN r.pages : r.pages[n] = P[n]
  BY <1>10, <1>14, DropTable
<1>19. PICK s, Q, as : s = r.sent /\ Q = r.pages /\ as = apps /\ s \in Seq(ToDev)
  BY <1>17
<1>20. s \in Seq(ToDev) /\ toDev' = toDev \o s /\ pages' = Q /\ apps' = as
  BY <1>5, <1>10, <1>19 DEF Apply
<1>21. ASSUME NEW x \in Views, Tells(fromDev[1], ProxyView(apps, pages), x)
       PROVE  x = ProxyView(as, Q)
  <2>1. x = [apps |-> apps, pages |-> ({pages[n].id : n \in DOMAIN pages} \ PagesIn(app))
                                        \cup {l.id : l \in listed}]
    BY <1>1, <1>2, <1>21 DEF Tells, ProxyView
  <2>2. {P[n].id : n \in DOMAIN P \ ns}
            = ({pages[n].id : n \in DOMAIN pages} \ PagesIn(app)) \cup {l.id : l \in listed}
    <3>1. {P[n].id : n \in DOMAIN P \ OldPages(app, listed)}
              = ({pages[n].id : n \in DOMAIN pages} \ PagesIn(app)) \cup {l.id : l \in listed}
      <4>1. number \in [NewPages(listed) -> FreshNums(Cardinality(NewPages(listed)))]
        BY <1>4, <1>6
      <4>2. \A p, q \in NewPages(listed) : p # q => number[p] # number[q]
        BY <1>4, <1>6
      <4>3. P = Relisted(listed, number)
        BY <1>7
      <4> QED BY <1>3, <1>11, <4>1, <4>2, <4>3, ListedView
    <3> QED BY <1>9, <3>1
  <2>3. {Q[n].id : n \in DOMAIN Q} = {P[n].id : n \in DOMAIN P \ ns}
    BY <1>18, <1>19
  <2> QED BY <1>19, <2>1, <2>2, <2>3 DEF ProxyView
<1>22. ASSUME ~RemoteClaims, Local(pages) PROVE Local(Q) /\ Conveys(pages, Q, s)
  <2>1. \A l \in listed : l.conn # Remote
    <3>1. 1 \in 1..Len(fromDev)
      BY <1>1, TakenOff DEF IInv, Types
    <3> QED BY <1>1, <1>2, <1>22, <3>1 DEF IInv, NoRemote
  <2>2. Owned(h.pages, h.iws)
    BY <1>12, <1>14, <1>22, <2>1 DEF IInv, NoRemote
  <2>3. Local(P)
    BY <1>4, <1>6, <1>7, <1>11, <1>22, <2>1, RelistedSays
  <2>4. Releases(h.pages, r.pages, r.sent)
    BY <1>14, <1>16, <2>2, <2>3, DropReleases
  <2>5. Conveys(h.pages, r.pages, r.sent)
    BY <1>16, <1>17, <2>2, <2>4, ReleasesConveys
  <2>6. Conveys(P, Q, s)
    BY <1>14, <1>19, <2>5
  <2>7. \A pg, o : OwnedBy(pages, pg, o) => OwnedBy(P, pg, o)
    BY <1>4, <1>6, <1>7, <1>11, RelistedOwners
  <2>8. Conveys(pages, Q, s)
    BY <2>6, <2>7 DEF Conveys
  <2>9. Local(Q)
    BY <1>18, <1>19, <2>3 DEF Local
  <2> QED BY <2>8, <2>9
<1> QED BY <1>1, <1>5, <1>20, <1>21, <1>22, TakenInFlight

\* What a listing tells.
LEMMA ListingTells ==
    ASSUME NEW run, NEW app \in run, app \in Apps, NEW e, NEW d,
           \A pg \in PageIds : AppOf[pg] # app => d[pg] = e[pg]
    PROVE  Tells(ListingOf(app, d), DeviceView(run, e), DeviceView(run, d))
<1> DEFINE pgs == {q \in PageIds : AppOf[q] = app /\ d[q] # Shut}
           ls == {[id |-> pg, conn |-> ConnOf(d[pg])] : pg \in pgs}
<1>1. PICK m : m = ListingOf(app, d)
  OBVIOUS
<1>2. m.t = "listing" /\ m.app = app /\ m.pages = ls
  <2>1. m = Listing(app, ls)
    BY <1>1, ListingMessage
  <2> QED BY <2>1 DEF Listing
<1>3. \A l \in ls : l.id \in pgs
  OBVIOUS
<1>4. {l.id : l \in ls} = pgs
  <2>1. ASSUME NEW pg \in pgs PROVE \E l \in ls : l.id = pg
    <3>1. [id |-> pg, conn |-> ConnOf(d[pg])] \in ls
      OBVIOUS
    <3>2. [id |-> pg, conn |-> ConnOf(d[pg])].id = pg
      OBVIOUS
    <3> QED BY <3>1, <3>2
  <2> QED BY <1>3, <2>1
<1>5. \A l \in m.pages : AppOf[l.id] = m.app
  BY <1>2, <1>3
<1>6. {pg \in PageIds : d[pg] # Shut}
            = ({pg \in PageIds : e[pg] # Shut} \ PagesIn(app)) \cup pgs
  BY DEF PagesIn
<1>7. DeviceView(run, d) = [apps  |-> DeviceView(run, e).apps,
                            pages |-> (DeviceView(run, e).pages \ PagesIn(m.app))
                                        \cup {l.id : l \in m.pages}]
  BY <1>2, <1>4, <1>6 DEF DeviceView
<1>8. m.app \in DeviceView(run, e).apps
  BY <1>2 DEF DeviceView
<1> HIDE DEF pgs, ls
<1>9. Tells(m, DeviceView(run, e), DeviceView(run, d))
  BY <1>2, <1>5, <1>7, <1>8 DEF Tells
<1> QED BY <1>1, <1>9

\* The device says something, and no session begins or ends.
LEMMA SaysInFlight ==
    ASSUME IInv, InFlight, up, UNCHANGED <<proxy, dev, toDev>>,
           NEW m \in FromDev, fromDev' = Append(fromDev, m),
           NEW run \in SUBSET Apps, running' = run,
           Tells(m, DeviceView(running, dev), DeviceView(run, dev))
    PROVE  InFlight'
<1>1. PICK d : d = dev
  OBVIOUS
<1>2. dev' = d /\ Tells(m, DeviceView(running, dev), DeviceView(run, d))
  BY <1>1
<1>3. UNCHANGED <<up, apps, pages>> /\ toDev' = toDev
  BY DEF proxy
<1>4. \A pg \in PageIds : d[pg] = dev[pg]
  BY <1>1
<1> QED BY <1>2, <1>3, <1>4, SentInFlight

\* An app starts, changes or quits.
LEMMA AppInFlight ==
    ASSUME IInv, InFlight, NEW app \in Apps,
           DevAppStarts(app) \/ DevAppUpdates(app) \/ DevAppQuits(app)
    PROVE  InFlight'
<1>0. up /\ running \in SUBSET Apps
  BY DEF DevAppStarts, DevAppUpdates, DevAppQuits, MayAnswer, IInv, Types
<1>1. CASE DevAppStarts(app)
  <2>1. PICK m \in FromDev : m = AppCall("connected", app)
    BY DeviceSends
  <2>2. fromDev' = Append(fromDev, m) /\ m.t = "connected" /\ m.app = app
    BY <1>1, <2>1, AppMessages DEF DevAppStarts, AppCall
  <2>3. PICK run \in SUBSET Apps : run = running \cup {app}
    BY <1>0
  <2>4. UNCHANGED <<proxy, dev, toDev>> /\ running' = run
    BY <1>1, <2>3 DEF DevAppStarts
  <2>5. Tells(m, DeviceView(running, dev), DeviceView(run, dev))
    BY <2>2, <2>3 DEF Tells, DeviceView
  <2> QED BY <1>0, <2>2, <2>4, <2>5, SaysInFlight
<1>2. CASE DevAppUpdates(app)
  <2>1. PICK m \in FromDev : m = AppCall("updated", app)
    BY DeviceSends
  <2>2. fromDev' = Append(fromDev, m) /\ m.t = "updated" /\ m.app = app
    BY <1>2, <2>1, AppMessages DEF DevAppUpdates, AppCall
  <2>3. PICK run \in SUBSET Apps : run = running
    BY <1>0
  <2>4. UNCHANGED <<proxy, dev, toDev>> /\ running' = run /\ app \in running
    BY <1>2, <2>3 DEF DevAppUpdates, device
  <2>5. Tells(m, DeviceView(running, dev), DeviceView(run, dev))
    BY <2>2, <2>3, <2>4 DEF Tells, DeviceView
  <2> QED BY <1>0, <2>2, <2>4, <2>5, SaysInFlight
<1>3. CASE DevAppQuits(app)
  <2>1. PICK m \in FromDev : m = AppCall("disconnected", app)
    BY DeviceSends
  <2>2. fromDev' = Append(fromDev, m) /\ m.t = "disconnected" /\ m.app = app
    BY <1>3, <2>1, AppMessages DEF DevAppQuits, AppCall
  <2>3. PICK run, d : /\ run = running \ {app} /\ run \in SUBSET Apps
                       /\ d = [pg \in PageIds |-> IF AppOf[pg] = app THEN Shut ELSE dev[pg]]
    BY <1>0
  <2>4. /\ UNCHANGED <<up, apps, pages>> /\ toDev' = toDev
        /\ run \in SUBSET Apps /\ running' = run /\ dev' = d
    BY <1>3, <2>3 DEF DevAppQuits, proxy
  <2>5. \A pg \in PageIds : d[pg] = dev[pg] \/ (d[pg] = Shut /\ d[pg] \notin WsIds)
    BY <2>3, NamesAssumption
  <2>6. {pg \in PageIds : d[pg] # Shut} = {pg \in PageIds : dev[pg] # Shut} \ PagesIn(app)
    BY <2>3 DEF PagesIn
  <2>7. Tells(m, DeviceView(running, dev), DeviceView(run, d))
    <3>1. app \in running
      BY <1>3 DEF DevAppQuits
    <3> QED BY <2>2, <2>3, <2>6, <3>1 DEF Tells, DeviceView
  <2> QED BY <1>0, <2>2, <2>4, <2>5, <2>7, SentInFlight
<1> QED BY <1>1, <1>2, <1>3

\* The device lists its apps, or the inspector sends something else.
LEMMA NoNewsInFlight ==
    ASSUME IInv, InFlight, DevAppList \/ DevSendsNoise
    PROVE  InFlight'
<1>1. up /\ UNCHANGED <<proxy, dev, toDev>> /\ running' = running /\ running \in SUBSET Apps
  BY DEF DevAppList, DevSendsNoise, MayAnswer, device, IInv, Types
<1>2. PICK run \in SUBSET Apps : run = running
  BY <1>1
<1>3. PICK m \in FromDev : /\ fromDev' = Append(fromDev, m)
                           /\ \/ m.t = "appList" /\ m.apps = running
                              \/ m.t \in {"invalid", "reportSetup", "ignored"}
  <2>1. CASE DevAppList
    <3>1. PICK m \in FromDev : m = AppList(running)
      BY <1>1, DeviceSends
    <3>2. fromDev' = Append(fromDev, m) /\ m.t = "appList" /\ m.apps = running
      BY <1>1, <2>1, <3>1, AppListMessage DEF DevAppList, AppList
    <3> QED BY <3>2
  <2>2. CASE DevSendsNoise
    <3>1. PICK i \in DOMAIN Noise : fromDev' = Append(fromDev, Noisy(RecvPlist(Noise[i])))
      BY <2>2 DEF DevSendsNoise, NoisyMessages
    <3>2. PICK n \in NoiseCalls : n = RecvPlist(Noise[i])
      BY NoiseAssumption DEF NoiseCalls
    <3>3. PICK m \in FromDev : m = Noisy(n)
      BY NoisyCalls
    <3>4. fromDev' = Append(fromDev, m) /\ m.t \in {"invalid", "reportSetup", "ignored"}
      BY <3>1, <3>2, <3>3, NoisyCalls
    <3> QED BY <3>4
  <2> QED BY <2>1, <2>2
<1>4. Tells(m, DeviceView(running, dev), DeviceView(run, dev))
  BY <1>2, <1>3 DEF Tells, DeviceView
<1> QED BY <1>1, <1>2, <1>3, <1>4, SaysInFlight

\* A session begins or ends, and the listing tells.
LEMMA SetPageInFlight ==
    ASSUME IInv, InFlight, up, UNCHANGED <<proxy, running>>, NEW pg \in PageIds, NEW owner,
           SetPage(pg, owner), AppOf[pg] \in running, NEW d, d = [dev EXCEPT ![pg] = owner],
           owner \in WsIds \cup {Shut, Null, Remote},
           ~RemoteClaims =>
                \/ toDev' = toDev /\ owner \notin WsIds /\ Shut \in {owner, dev[pg]}
                \/ /\ toDev # <<>> /\ toDev' = Tail(toDev)
                   /\ \A q \in PageIds : Makes(toDev[1], q, dev[q], d[q], FALSE)
    PROVE  InFlight'
<1>1. PICK run \in SUBSET Apps : run = running
  BY DEF IInv, Types
<1>2. UNCHANGED <<up, apps, pages>> /\ running' = run /\ dev' = d
  BY <1>1 DEF proxy, SetPage
<1>3. dev \in [PageIds -> WsIds \cup {Shut, Null, Remote}]
  BY DEF IInv, Types
<1>4. d \in [PageIds -> WsIds \cup {Shut, Null, Remote}] /\ d[pg] = owner
      /\ \A q \in PageIds : q # pg => d[q] = dev[q]
  BY <1>3
<1>5. PICK app \in Apps : app = AppOf[pg]
  BY AppOfAssumption
<1>6. PICK m \in FromDev : m = ListingOf(app, d)
  BY <1>4, ListingSent
<1>7. fromDev' = Append(fromDev, m)
  BY <1>2, <1>5, <1>6 DEF SetPage
<1>8. Tells(m, DeviceView(running, dev), DeviceView(run, d))
  <2>1. app \in running
    BY <1>5
  <2>2. \A q \in PageIds : AppOf[q] # app => d[q] = dev[q]
    BY <1>4, <1>5
  <2>3. PICK e : e = dev
    OBVIOUS
  <2>4. app \in run /\ \A q \in PageIds : AppOf[q] # app => d[q] = e[q]
    BY <1>1, <2>1, <2>2, <2>3
  <2>5. Tells(ListingOf(app, d), DeviceView(run, e), DeviceView(run, d))
    BY <2>4, ListingTells
  <2> QED BY <1>1, <1>6, <2>3, <2>5
<1>9. ~RemoteClaims =>
        \/ /\ toDev' = toDev
           /\ \A q \in PageIds : \/ d[q] = dev[q]
                                 \/ d[q] \notin WsIds /\ Shut \in {d[q], dev[q]}
        \/ /\ toDev # <<>> /\ toDev' = Tail(toDev)
           /\ \A q \in PageIds : Makes(toDev[1], q, dev[q], d[q], FALSE)
  BY <1>4
<1> QED BY <1>2, <1>7, <1>8, <1>9, SentInFlight

\* A page opens or closes, is claimed or released, or its session sends data.
LEMMA PageInFlight ==
    ASSUME IInv, InFlight, NEW pg \in PageIds,
           \/ DevPageOpens(pg) \/ DevPageCloses(pg)
           \/ DevRemoteClaims(pg) \/ DevRemoteReleases(pg)
           \/ DevSendsData(pg)
    PROVE  InFlight'
<1>0. Types /\ AppKnown /\ NoRemote /\ up
  BY DEF IInv, DevPageOpens, DevPageCloses, DevRemoteClaims, DevRemoteReleases, DevSendsData,
         MayAnswer
<1>1. CASE DevSendsData(pg)
  <2>1. PICK m \in FromDev : m = Data(dev[pg])
    BY <1>1, DeviceSends DEF DevSendsData
  <2>2. fromDev' = Append(fromDev, m) /\ m.t = "data"
    BY <1>1, <2>1, DataMessage DEF DevSendsData, Data
  <2>3. PICK run \in SUBSET Apps : run = running
    BY <1>0 DEF Types
  <2>4. UNCHANGED <<proxy, dev, toDev>> /\ running' = run
    BY <1>1, <2>3 DEF DevSendsData, device
  <2>5. Tells(m, DeviceView(running, dev), DeviceView(run, dev))
    BY <2>2, <2>3 DEF Tells
  <2> QED BY <1>0, <2>2, <2>4, <2>5, SaysInFlight
<1>2. CASE DevPageOpens(pg) \/ DevPageCloses(pg) \/ DevRemoteClaims(pg) \/ DevRemoteReleases(pg)
  <2>1. PICK owner \in {Shut, Null, Remote} :
            /\ SetPage(pg, owner)
            /\ ~RemoteClaims => owner # Remote /\ Shut \in {owner, dev[pg]}
    BY <1>0, <1>2 DEF DevPageOpens, DevPageCloses, DevRemoteClaims, DevRemoteReleases,
                      Shut, Null, Remote, NoRemote
  <2>2. UNCHANGED <<proxy, running>> /\ toDev' = toDev
    BY <1>2 DEF DevPageOpens, DevPageCloses, DevRemoteClaims, DevRemoteReleases
  <2>3. AppOf[pg] \in running
    BY <1>0, <1>2 DEF DevPageOpens, DevPageCloses, DevRemoteClaims, DevRemoteReleases,
                      AppKnown, Shut, Remote
  <2>4. PICK d : d = [dev EXCEPT ![pg] = owner]
    OBVIOUS
  <2>5. /\ owner \in WsIds \cup {Shut, Null, Remote}
        /\ ~RemoteClaims => owner \notin WsIds /\ Shut \in {owner, dev[pg]}
    BY <2>1, NamesAssumption
  <2> QED BY <1>0, <2>1, <2>2, <2>3, <2>4, <2>5, SetPageInFlight
<1> QED BY <1>1, <1>2

\* A message of the proxy is what its selector says.
LEMMA ToDevMeans ==
    ASSUME NEW m \in ToDev
    PROVE  /\ m.selector = "_rpc_forwardSocketSetup:" =>
                m = Setup(m.args.PageIdentifier, m.args.Sender)
           /\ m.selector = "_rpc_forwardDidClose:" =>
                m = DidClose(m.args.PageIdentifier, m.args.Sender)
           /\ m.selector = "_rpc_forwardGetListing:" =>
                \E app : m = GetListing(app)
<1>1. CASE \E app \in Apps : m = GetListing(app)
  <2>1. m.selector = "_rpc_forwardGetListing:"
    BY <1>1 DEF GetListing, ForwardGetListing, SendMsg
  <2> QED BY <1>1, <2>1
<1>2. CASE \E pg \in PageIds, id \in WsIds : m = Setup(pg, id)
  <2>1. PICK pg \in PageIds, id \in WsIds : m = Setup(pg, id)
    BY <1>2
  <2>2. /\ m.selector = "_rpc_forwardSocketSetup:"
        /\ m.args.PageIdentifier = pg /\ m.args.Sender = id
    BY <2>1 DEF Setup, ForwardSocketSetup, SendMsg
  <2>3. m = Setup(m.args.PageIdentifier, m.args.Sender)
    BY <2>1, <2>2
  <2> QED BY <2>2, <2>3
<1>3. CASE \E pg \in PageIds, id \in WsIds : m = DidClose(pg, id)
  <2>1. PICK pg \in PageIds, id \in WsIds : m = DidClose(pg, id)
    BY <1>3
  <2>2. /\ m.selector = "_rpc_forwardDidClose:"
        /\ m.args.PageIdentifier = pg /\ m.args.Sender = id
    BY <2>1 DEF DidClose, ForwardDidClose, SendMsg
  <2>3. m = DidClose(m.args.PageIdentifier, m.args.Sender)
    BY <2>1, <2>2
  <2> QED BY <2>2, <2>3
<1> QED BY <1>1, <1>2, <1>3 DEF ToDev

\* The device takes a message that changes nothing.
LEMMA SilentInFlight ==
    ASSUME IInv, InFlight, UNCHANGED <<proxy, device, fromDev>>,
           toDev # <<>>, toDev' = Tail(toDev),
           \A pg \in PageIds : Makes(toDev[1], pg, dev[pg], dev[pg], dev[pg] = Shut)
    PROVE  InFlight'
<1>1. PICK v, w, q : v = ProxyView(apps, pages) /\ w = DeviceView(running, dev) /\ q = fromDev
  OBVIOUS
<1>2. UNCHANGED <<up, apps, pages, running, dev>>
  BY DEF proxy, device
<1>3. SUFFICES ASSUME up PROVE InFlight'
  BY <1>2 DEF InFlight
<1>4. PICK f : /\ Told(f, q, v, w)
               /\ ~RemoteClaims => Local(pages) /\ SessionsAt(f, q, pages, toDev, dev)
  BY <1>1, <1>3 DEF InFlight
<1>5. q \in Seq(FromDev) /\ toDev \in Seq(ToDev)
  BY <1>1 DEF IInv, Types
<1>6. Len(q) \in 0..Len(q) /\ f[Len(q)] = w
  BY <1>4, <1>5, LenProperties DEF Told
<1>7. \A pg \in PageIds : dev[pg] = Shut => Gone(f, q, pg)
  BY <1>1, <1>6 DEF Gone, DeviceView
<1>8. ASSUME ~RemoteClaims PROVE SessionsAt(f, q, pages, Tail(toDev), dev)
  <2>1. PICK P, t, d : P = pages /\ t = toDev /\ d = dev
    OBVIOUS
  <2>2. SessionsAt(f, q, P, t, d) /\ t \in Seq(ToDev) /\ t # <<>>
    BY <1>4, <1>5, <1>8, <2>1
  <2>3. \A pg \in PageIds : Makes(t[1], pg, d[pg], d[pg], Gone(f, q, pg))
    BY <1>7, <2>1 DEF Makes
  <2>4. SessionsAt(f, q, P, Tail(t), d)
    BY <2>2, <2>3, TakenSessions
  <2> QED BY <2>1, <2>4
<1>9. /\ fromDev' = q /\ ProxyView(apps', pages') = v /\ DeviceView(running', dev') = w
      /\ pages' = pages /\ toDev' = Tail(toDev) /\ dev' = dev
  BY <1>1, <1>2
<1>10. \E h : /\ Told(h, fromDev', ProxyView(apps', pages'), DeviceView(running', dev'))
              /\ ~RemoteClaims =>
                    Local(pages') /\ SessionsAt(h, fromDev', pages', toDev', dev')
  BY <1>4, <1>8, <1>9
<1> QED BY <1>10 DEF InFlight

\* The device handles a message of the proxy.
LEMMA ReceivesInFlight ==
    ASSUME IInv, InFlight, DevReceives
    PROVE  InFlight'
<1>0. Types /\ AppKnown /\ NoRemote /\ up /\ UNCHANGED <<proxy, running>>
  BY DEF IInv, DevReceives, MayAnswer
<1>1. toDev # <<>> /\ toDev' = Tail(toDev)
  BY DEF DevReceives
<1>2. PICK c \in ToDev : c = toDev[1]
  BY <1>0, <1>1, TakenOff DEF Types
<1> DEFINE m == c.args
           is(selector) == c.selector = selector
<1>3. dev \in [PageIds -> WsIds \cup {Shut, Null, Remote}]
  BY <1>0 DEF Types
<1>4. ASSUME NEW pg \in PageIds, NEW id \in WsIds, c = Setup(pg, id) \/ c = DidClose(pg, id),
             NEW d, \A q \in PageIds : q # pg => d[q] = dev[q],
             Makes(c, pg, dev[pg], d[pg], FALSE)
      PROVE  \A q \in PageIds : Makes(c, q, dev[q], d[q], FALSE)
  <2>1. ASSUME NEW q \in PageIds, q # pg PROVE Makes(c, q, dev[q], d[q], FALSE)
    <3>1. ~About(c, q)
      BY <1>4, <2>1, OneMeaning DEF About
    <3>2. d[q] = dev[q]
      BY <1>4, <2>1
    <3> QED BY <3>1, <3>2 DEF Makes
  <2> QED BY <1>4, <2>1
<1>5. CASE is("_rpc_forwardSocketSetup:") /\ dev[m.PageIdentifier] # Shut
           /\ SetPage(m.PageIdentifier, m.Sender)
  <2>1. PICK pg \in PageIds, id \in WsIds : pg = m.PageIdentifier /\ id = m.Sender
    BY <1>5, ToDevKinds
  <2>2. c = Setup(pg, id) /\ SetPage(pg, id) /\ dev[pg] # Shut
    BY <1>5, <2>1, ToDevMeans
  <2>3. AppOf[pg] \in running
    BY <1>0, <2>2 DEF AppKnown
  <2>4. PICK d : d = [dev EXCEPT ![pg] = id]
    OBVIOUS
  <2>5. d[pg] = id /\ \A q \in PageIds : q # pg => d[q] = dev[q]
    BY <1>3, <2>4
  <2>6. Makes(c, pg, dev[pg], d[pg], FALSE)
    BY <2>2, <2>5 DEF Makes
  <2>7. \A q \in PageIds : Makes(c, q, dev[q], d[q], FALSE)
    BY <1>4, <2>2, <2>5, <2>6
  <2>8. \A q \in PageIds : Makes(toDev[1], q, dev[q], d[q], FALSE)
    BY <1>2, <2>7
  <2>9. id \in WsIds \cup {Shut, Null, Remote}
    OBVIOUS
  <2> QED BY <1>0, <1>1, <2>2, <2>3, <2>4, <2>8, <2>9, SetPageInFlight
<1>6. CASE is("_rpc_forwardDidClose:") /\ dev[m.PageIdentifier] = m.Sender
           /\ SetPage(m.PageIdentifier, Null)
  <2>1. PICK pg \in PageIds, id \in WsIds : pg = m.PageIdentifier /\ id = m.Sender
    BY <1>6, ToDevKinds
  <2>2. c = DidClose(pg, id) /\ SetPage(pg, Null) /\ dev[pg] = id
    BY <1>6, <2>1, ToDevMeans
  <2>3. AppOf[pg] \in running
    BY <1>0, <2>2, NamesAssumption DEF AppKnown
  <2>4. PICK d : d = [dev EXCEPT ![pg] = Null]
    OBVIOUS
  <2>5. d[pg] = Null /\ \A q \in PageIds : q # pg => d[q] = dev[q]
    BY <1>3, <2>4
  <2>6. Makes(c, pg, dev[pg], d[pg], FALSE)
    BY <2>2, <2>5 DEF Makes
  <2>7. \A q \in PageIds : Makes(c, q, dev[q], d[q], FALSE)
    BY <1>4, <2>2, <2>5, <2>6
  <2>8. \A q \in PageIds : Makes(toDev[1], q, dev[q], d[q], FALSE)
    BY <1>2, <2>7
  <2>9. Null \in WsIds \cup {Shut, Null, Remote}
    OBVIOUS
  <2> QED BY <1>0, <1>1, <2>2, <2>3, <2>4, <2>8, <2>9, SetPageInFlight
<1>7. CASE is("_rpc_forwardGetListing:") /\ m.ApplicationIdentifier \in running
           /\ fromDev' = Append(fromDev, ListingOf(m.ApplicationIdentifier, dev))
           /\ UNCHANGED dev
  <2>1. PICK app \in running : app = m.ApplicationIdentifier
    BY <1>7
  <2>2. PICK run, d : run = running /\ d = dev /\ run \in SUBSET Apps
    BY <1>0 DEF Types
  <2>3. app \in Apps /\ app \in run /\ d \in [PageIds -> WsIds \cup {Shut, Null, Remote}]
    BY <1>3, <2>2
  <2>4. PICK r \in FromDev : r = ListingOf(app, d)
    BY <2>3, ListingSent
  <2>5. /\ fromDev' = Append(fromDev, r) /\ running' = run /\ run \in SUBSET Apps
        /\ dev' = d
    BY <1>0, <1>7, <2>1, <2>2, <2>4
  <2>6. Tells(r, DeviceView(running, dev), DeviceView(run, d))
    BY <2>2, <2>3, <2>4, ListingTells
  <2>7. \A pg : ~About(c, pg)
    BY <1>7, ToDevMeans, OneMeaning DEF About
  <2>8. \A pg \in PageIds : Makes(toDev[1], pg, dev[pg], d[pg], FALSE)
    BY <1>2, <2>2, <2>7 DEF Makes
  <2>9. UNCHANGED <<up, apps, pages>>
    BY <1>0 DEF proxy
  <2> QED BY <1>0, <1>1, <2>5, <2>6, <2>8, <2>9, SentInFlight
<1>8. CASE /\ \/ is("_rpc_forwardSocketSetup:") /\ dev[m.PageIdentifier] = Shut
              \/ is("_rpc_forwardDidClose:") /\ dev[m.PageIdentifier] # m.Sender
              \/ is("_rpc_forwardGetListing:")
           /\ UNCHANGED <<dev, fromDev>>
  <2>1. CASE is("_rpc_forwardGetListing:")
    <3>1. \A pg : ~About(c, pg)
      BY <2>1, ToDevMeans, OneMeaning DEF About
    <3>2. \A pg \in PageIds : Makes(toDev[1], pg, dev[pg], dev[pg], dev[pg] = Shut)
      BY <1>2, <3>1 DEF Makes
    <3> QED BY <1>0, <1>1, <1>8, <3>2, SilentInFlight DEF device
  <2>2. CASE \/ is("_rpc_forwardSocketSetup:") /\ dev[m.PageIdentifier] = Shut
             \/ is("_rpc_forwardDidClose:") /\ dev[m.PageIdentifier] # m.Sender
    <3>1. PICK pg \in PageIds, id \in WsIds : pg = m.PageIdentifier /\ id = m.Sender
      BY <2>2, ToDevKinds
    <3>2. \/ c = Setup(pg, id) /\ dev[pg] = Shut
          \/ c = DidClose(pg, id) /\ dev[pg] # id
      BY <2>2, <3>1, ToDevMeans
    <3>3. \A q \in PageIds : q # pg => ~About(c, q)
      BY <3>2, OneMeaning DEF About
    <3>4. Makes(c, pg, dev[pg], dev[pg], dev[pg] = Shut)
      BY <3>2 DEF Makes
    <3>5. \A q \in PageIds : Makes(toDev[1], q, dev[q], dev[q], dev[q] = Shut)
      BY <1>2, <3>3, <3>4 DEF Makes
    <3> QED BY <1>0, <1>1, <1>8, <3>5, SilentInFlight DEF device
  <2> QED BY <1>8, <2>1, <2>2
<1> QED BY <1>2, <1>5, <1>6, <1>7, <1>8 DEF DevReceives

-----------------------------------------------------------------------------
(* The theorems about what is in flight.                                   *)

\* At first there is nothing in flight, and nothing to tell.
LEMMA InFlightInit == Init => InFlight
<1> SUFFICES ASSUME Init PROVE InFlight
  OBVIOUS
<1>1. PICK v, f, q : /\ v = [apps |-> {}, pages |-> {}] /\ f = [i \in 0..0 |-> v] /\ q = fromDev
  OBVIOUS
<1>2. fromDev = <<>> /\ toDev = <<>> /\ DOMAIN pages = {} /\ q = <<>> /\ Len(q) = 0
  BY <1>1 DEF Init
<1>3. v \in Views
  BY <1>1 DEF Views
<1>4. f \in [0..0 -> Views] /\ f[0] = v
  BY <1>1, <1>3
<1>5. ProxyView(apps, pages) = v
  BY <1>1, <1>2 DEF Init, ProxyView
<1>6. DeviceView(running, dev) = v
  BY <1>1 DEF Init, DeviceView
<1>7. Told(f, q, v, v)
  BY <1>2, <1>4 DEF Told
<1>8. Local(pages)
  BY <1>2 DEF Local
<1>9. SessionsAt(f, q, pages, toDev, dev)
  <2> SUFFICES ASSUME NEW pg \in PageIds
               PROVE  \E o \in Owners :
                        OwnedBy(pages, pg, o) /\ Sess(pg, o, toDev, dev[pg], Gone(f, q, pg))
    BY DEF SessionsAt
  <2>1. PICK o, u : o = Null /\ u = [i \in 0..0 |-> o] /\ o \in Owners
    BY DEF Owners
  <2>2. o \in Owners /\ OwnedBy(pages, pg, o)
    BY <1>2, <2>1 DEF OwnedBy
  <2>3. u \in [0..0 -> Owners] /\ u[0] = o
    BY <2>1
  <2>4. Said(u, toDev, pg, o, o)
    BY <1>2, <2>3 DEF Said
  <2>5. dev[pg] \notin WsIds
    BY NamesAssumption DEF Init
  <2>6. Sess(pg, o, toDev, dev[pg], Gone(f, q, pg))
    BY <2>1, <2>4, <2>5 DEF Sess
  <2> QED BY <2>2, <2>6
<1>10. /\ Told(f, fromDev, ProxyView(apps, pages), DeviceView(running, dev))
       /\ SessionsAt(f, fromDev, pages, toDev, dev)
  BY <1>1, <1>5, <1>6, <1>7, <1>9
<1> QED BY <1>8, <1>10 DEF InFlight

\* Every step keeps what is in flight in order.
LEMMA InFlightStep == IInv /\ InFlight /\ [Next]_vars => InFlight'
<1> SUFFICES ASSUME IInv, InFlight, [Next]_vars PROVE InFlight'
  OBVIOUS
<1>1. ASSUME NEW s \in Iwss,
             \/ \E id \in WsIds : Accept(s, id)
             \/ \E n \in 1..MaxPageNum : DevtoolsRequest(s, n)
             \/ TextFrame(s) \/ CloseClient(s)
      PROVE  InFlight'
  BY <1>1, ClientsInFlight
<1>2. CASE RecvConnected \/ RecvUpdated \/ RecvDisconnected \/ RecvAppList
  BY <1>2, NewsInFlight, DisconnectedInFlight, AppListInFlight
<1>3. CASE RecvListing \/ RecvData \/ RecvInvalid \/ RecvOther
  BY <1>3, ListingInFlight, OtherInFlight
<1>4. ASSUME NEW app \in Apps, DevAppStarts(app) \/ DevAppUpdates(app) \/ DevAppQuits(app)
      PROVE  InFlight'
  BY <1>4, AppInFlight
<1>5. ASSUME NEW pg \in PageIds,
             \/ DevPageOpens(pg) \/ DevPageCloses(pg)
             \/ DevRemoteClaims(pg) \/ DevRemoteReleases(pg)
             \/ DevSendsData(pg)
      PROVE  InFlight'
  BY <1>5, PageInFlight
<1>6. CASE DevAppList \/ DevReceives \/ DevSendsNoise
  BY <1>6, NoNewsInFlight, ReceivesInFlight
<1>7. CASE UNCHANGED vars
  BY <1>7, SameInFlight DEF vars, proxy
<1> QED BY <1>1, <1>2, <1>3, <1>4, <1>5, <1>6, <1>7 DEF Next

\* In every reachable state the messages of the device tell, one by one, how the pages and
\* apps the proxy knows become the device's (iwdp_on_applicationSentListing and the others
\* apply each as it is told); and, when no other inspector claims pages, the messages to it
\* tell how its sessions become those of the table.
THEOREM NewsInOrder == Spec => []InFlight
<1>1. Init => InFlight
  BY InFlightInit
<1>2. IInv /\ InFlight /\ [Next]_vars => InFlight'
  BY InFlightStep
<1> QED BY <1>1, <1>2, Inductive, PTL DEF Spec

\* What the handlers know of the apps that the next message is about.
NewsKnown ==
    up /\ fromDev # <<>> =>
        /\ fromDev[1].t \in {"updated", "disconnected", "listing"} => fromDev[1].app \in apps
        /\ fromDev[1].t = "appList" => fromDev[1].apps = apps

\* An app whose pages are listed, which changes or which quits is in app_id_to_true when the
\* message is handled, and a list of apps is the one that is known: the branches of
\* iwdp_on_applicationSentListing for an app that is not known (which asks for the listing of
\* another one), and of iwdp_remove_app_id, are for a device that does not keep to its order.
THEOREM NewsIsOfKnownApps == Spec => []NewsKnown
<1>1. ASSUME IInv, InFlight PROVE NewsKnown
  <2> SUFFICES ASSUME up, fromDev # <<>>
               PROVE  /\ fromDev[1].t \in {"updated", "disconnected", "listing"} =>
                            fromDev[1].app \in apps
                      /\ fromDev[1].t = "appList" => fromDev[1].apps = apps
    BY DEF NewsKnown
  <2> QED BY <1>1, FirstTells DEF Tells, ProxyView
<1>2. IInv /\ InFlight => NewsKnown
  BY <1>1
<1> QED BY <1>2, Inductive, NewsInOrder, PTL

\* With nothing in flight, what is told is what is known.
LEMMA ToldNothing ==
    ASSUME IInv, InFlight, up, toDev = <<>>, fromDev = <<>>
    PROVE  \E f : /\ ProxyView(apps, pages) = DeviceView(running, dev)
                  /\ f[0] = ProxyView(apps, pages)
                  /\ ~RemoteClaims => SessionsAt(f, fromDev, pages, toDev, dev)
<1>1. PICK f : /\ Told(f, fromDev, ProxyView(apps, pages), DeviceView(running, dev))
               /\ ~RemoteClaims =>
                    Local(pages) /\ SessionsAt(f, fromDev, pages, toDev, dev)
  BY DEF InFlight
<1>2. Len(fromDev) = 0
  OBVIOUS
<1>3. f[0] = ProxyView(apps, pages) /\ f[0] = DeviceView(running, dev)
  BY <1>1, <1>2 DEF Told
<1> QED BY <1>1, <1>3

\* Once every message was delivered the table of the proxy lists the pages of the device:
\* none that was closed stays, and none is missed, whatever the order in which apps start and
\* quit, and listings, asked for or not, come (iwdp_on_applicationSentListing,
\* iwdp_remove_app_id).
THEOREM ListingsFollow == Spec => []ListingsAgree
<1>1. ASSUME IInv, InFlight PROVE ListingsAgree
  <2> SUFFICES ASSUME up, toDev = <<>>, fromDev = <<>>, NEW pg \in PageIds
               PROVE  dev[pg] # Shut <=> NumOf(pg) # {}
    BY DEF ListingsAgree
  <2>1. ProxyView(apps, pages).pages = DeviceView(running, dev).pages
    BY <1>1, ToldNothing
  <2>2. {pages[n].id : n \in DOMAIN pages} = {q \in PageIds : dev[q] # Shut}
    BY <2>1 DEF ProxyView, DeviceView
  <2>3. dev[pg] # Shut <=> \E n \in DOMAIN pages : pages[n].id = pg
    BY <2>2
  <2> QED BY <2>3 DEF NumOf
<1>2. IInv /\ InFlight => ListingsAgree
  BY <1>1
<1> QED BY <1>2, Inductive, NewsInOrder, PTL

\* As long as no other inspector claims pages, once every message was delivered the sessions
\* at the device are those of the connected clients: what iwdp_start_devtools opened and
\* iwdp_stop_devtools or a steal did not close, and no other.
THEOREM SessionsFollow ==
    ASSUME RemoteClaims = FALSE
    PROVE  Spec => []SessionsAgree
<1>1. ASSUME IInv, InFlight PROVE SessionsAgree
  <2> SUFFICES ASSUME up, toDev = <<>>, fromDev = <<>>, NEW pg \in PageIds, NEW id \in WsIds
               PROVE  dev[pg] = id <=> \E s \in Iwss : /\ HasWsId(Heap, s, id)
                                                       /\ iws[s].ipage \in NumOf(pg)
    BY DEF SessionsAgree
  <2>1. PICK f : /\ ProxyView(apps, pages) = DeviceView(running, dev)
                 /\ f[0] = ProxyView(apps, pages)
                 /\ ~RemoteClaims => SessionsAt(f, fromDev, pages, toDev, dev)
    BY <1>1, ToldNothing
  <2>2. PICK o \in Owners : /\ OwnedBy(pages, pg, o)
                            /\ Sess(pg, o, toDev, dev[pg], Gone(f, fromDev, pg))
    BY <2>1 DEF SessionsAt
  <2>3. Len(toDev) = 0 /\ Len(fromDev) = 0 /\ 0..0 = {0}
    OBVIOUS
  <2>4. /\ dev[pg] \in WsIds => o = dev[pg]
        /\ o = Null \/ dev[pg] = o \/ Gone(f, fromDev, pg)
    <3>1. PICK r, u : /\ r \in Owners /\ Said(u, toDev, pg, r, o)
                      /\ dev[pg] \in WsIds => r = dev[pg]
                      /\ o = Null \/ dev[pg] = o \/ Gone(f, fromDev, pg) \/ Strays(u, toDev, o)
      BY <2>2 DEF Sess
    <3>2. u[0] = r /\ u[0] = o
      BY <2>3, <3>1 DEF Said
    <3>3. ~Strays(u, toDev, o)
      BY <2>3, <3>2 DEF Strays
    <3> QED BY <3>1, <3>2, <3>3
  <2>5. Graph(pages, iws, maxPageNum) /\ Owned(pages, iws)
    BY <1>1 DEF IInv, NoRemote
  <2>6. ASSUME dev[pg] = id
        PROVE  \E s \in Iwss : HasWsId(Heap, s, id) /\ iws[s].ipage \in NumOf(pg)
    <3>1. o = id /\ o # Null
      BY <2>4, <2>6, NamesAssumption
    <3>2. PICK n \in DOMAIN pages : pages[n].id = pg /\ pages[n].iws # Null /\ o = pages[n].sender
      BY <2>2, <3>1 DEF OwnedBy
    <3>3. PICK s \in Iwss : s = pages[n].iws
      BY <2>5, <3>2 DEF Graph, PageRecs
    <3>4. iws[s].live /\ iws[s].id = id /\ iws[s].ipage = n
      BY <2>5, <3>1, <3>2, <3>3 DEF Owned
    <3> QED BY <3>2, <3>4 DEF HasWsId, Heap, NumOf
  <2>7. ASSUME NEW s \in Iwss, HasWsId(Heap, s, id), iws[s].ipage \in NumOf(pg)
        PROVE  dev[pg] = id
    <3>1. PICK n \in DOMAIN pages : n = iws[s].ipage /\ pages[n].id = pg
      BY <2>7 DEF NumOf
    <3>2. n # NoPage
      BY <1>1, <2>5, <3>1 DEF Graph, NoPage, IInv, Types
    <3>3. pages[n].iws = s /\ pages[n].sender = id
      BY <2>5, <2>7, <3>1, <3>2 DEF Graph, HasWsId, Heap
    <3>4. \A m \in DOMAIN pages : pages[m].id = pg => m = n
      BY <2>5, <3>1 DEF Graph
    <3>5. o = id /\ o # Null
      BY <2>2, <3>1, <3>3, <3>4, NamesAssumption DEF OwnedBy
    <3>6. pg \in f[0].pages
      BY <2>1, <3>1 DEF ProxyView
    <3>7. ~Gone(f, fromDev, pg)
      BY <2>3, <3>6 DEF Gone
    <3> QED BY <2>4, <3>5, <3>7
  <2> QED BY <2>6, <2>7
<1>2. IInv /\ InFlight => SessionsAgree
  BY <1>1
<1> QED BY <1>2, Inductive, NewsInOrder, PTL
=============================================================================
