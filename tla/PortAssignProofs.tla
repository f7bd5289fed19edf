-------------------------- MODULE PortAssignProofs --------------------------
(***************************************************************************)
(* Theorems about the assignment of ports, for any devices, configuration  *)
(* and ports in use.  The reservations that OnePerPort speaks of are an    *)
(* inductive invariant together with the types.                            *)
(***************************************************************************)
EXTENDS PortAssign, WellFoundedInduction, TLAPS

\* A set of entry numbers has a smallest one.
LEMMA SmallestIndex ==
    ASSUME NEW S, S \subseteq Nat, S # {}
    PROVE  \E m \in S : \A n \in S : m <= n
<1>1. IsWellFoundedOn(OpToRel(<, Nat), Nat)
  BY NatLessThanWellFounded
<1>2. PICK m \in S : \A n \in S : ~(<<n, m>> \in OpToRel(<, Nat))
  BY <1>1, WFMin
<1>3. \A n \in S : ~(n < m)
  BY <1>2 DEF OpToRel
<1> QED BY <1>3

\* pc_find returns an entry of the configuration.
LEMMA EntryType ==
    ASSUME TypeOK, NEW d, HasEntry(d)
    PROVE  Entry(d).min \in Int /\ Entry(d).max \in Int
<1>1. config \in Seq([id : Ids \cup {AnyDevice}, min : Int, max : Int])
  BY ConfigsAssumption DEF TypeOK
<1>2. Entries(d) \subseteq Nat /\ Entries(d) # {}
  BY <1>1 DEF Entries, HasEntry
<1>3. PICK m \in Entries(d) : \A n \in Entries(d) : m <= n
  BY <1>2, SmallestIndex
<1>4. \E i \in Entries(d) : Entry(d) = config[i]
  <2> DEFINE first == CHOOSE i \in Entries(d) : \A j \in Entries(d) : i <= j
  <2>1. first \in Entries(d)
    BY <1>3
  <2> QED BY <2>1 DEF Entry
<1> DEFINE E == [id : Ids \cup {AnyDevice}, min : Int, max : Int]
<1>5. \A i \in 1..Len(config) : config[i] \in E
  <2> HIDE DEF E
  <2>1. config \in Seq(E)
    BY <1>1 DEF E
  <2> QED BY <2>1
<1>6. Entries(d) \subseteq 1..Len(config)
  BY DEF Entries
<1> QED BY <1>4, <1>5, <1>6

\* A port that iwdp_listen selects is a positive number that belongs to no
\* other iport.
LEMMA SelectedIsFree ==
    ASSUME TypeOK, OnePerPort, NEW d \in Ids, ~Ignored(d),
           NEW p \in Entry(d).min..Entry(d).max, Selects(d, p)
    PROVE  /\ p \in Nat \ {0}
           /\ \A c \in DOMAIN iports \ {d} : iports[c].port # p
<1>1. Entry(d).min \in Int /\ Entry(d).max \in Int
  BY EntryType DEF Ignored
<1>2. CASE p = KeptPort(d) /\ p > 0
  <2>1. d \in DOMAIN iports /\ p = iports[d].port
    BY <1>2 DEF KeptPort
  <2> QED BY <1>1, <1>2, <2>1 DEF OnePerPort
<1>3. CASE p \in Untaken(d)
  BY <1>1, <1>3 DEF Untaken
<1> QED BY <1>2, <1>3 DEF Selects

\* Putting an iport into the table keeps it a table.
LEMMA PutTable ==
    ASSUME TypeOK, NEW d \in Ids, NEW x \in Iport
    PROVE  IsTable(Put(d, x))
<1>1. PICK S \in SUBSET Ids : iports \in [S -> Iport]
  BY DEF TypeOK, IsTable
<1>2. Put(d, x) \in [S \cup {d} -> Iport]
  BY <1>1 DEF Put
<1>3. S \cup {d} \in SUBSET Ids
  OBVIOUS
<1> QED BY <1>2, <1>3 DEF IsTable

\* iwdp_iport_close leaves a table, in which every iport that is left has the
\* port it had.
LEMMA ClosedTable ==
    ASSUME NEW t, IsTable(t), NEW d \in DOMAIN t
    PROVE  /\ IsTable(Closed(t, d))
           /\ DOMAIN Closed(t, d) \subseteq DOMAIN t
           /\ \A c \in DOMAIN Closed(t, d) : Closed(t, d)[c].port = t[c].port
<1> DEFINE u == Closed(t, d)
<1>1. PICK S \in SUBSET Ids : t \in [S -> Iport]
  BY DEF IsTable
<1>2. CASE t[d].sticky
  <2>1. u = [t EXCEPT ![d].open = FALSE]
    BY <1>2 DEF Closed
  <2>2. u = [t EXCEPT ![d] = [t[d] EXCEPT !.open = FALSE]]
    BY <2>1
  <2>3. [t[d] EXCEPT !.open = FALSE] \in Iport /\ [t[d] EXCEPT !.open = FALSE].port = t[d].port
    BY <1>1 DEF Iport
  <2>4. u \in [S -> Iport]
    BY <1>1, <2>2, <2>3
  <2> HIDE DEF u
  <2>5. \A c \in S : u[c].port = t[c].port
    BY <1>1, <2>2, <2>3
  <2> QED BY <1>1, <2>4, <2>5 DEF IsTable, u
<1>3. CASE ~t[d].sticky
  <2>1. u = [c \in S \ {d} |-> t[c]]
    BY <1>1, <1>3 DEF Closed
  <2>2. u \in [S \ {d} -> Iport]
    BY <1>1, <2>1
  <2>3. S \ {d} \in SUBSET Ids
    OBVIOUS
  <2> QED BY <1>1, <2>1, <2>2, <2>3 DEF IsTable
<1> QED BY <1>2, <1>3

Inv == TypeOK /\ OnePerPort

\* The invariant speaks of the table only through its type and its ports.
TableOK(t) ==
    /\ IsTable(t)
    /\ \A c, d \in DOMAIN t : c # d /\ t[c].port = t[d].port => t[d].port = 0

\* A table keeps the reservations apart when a selected port, or the port the
\* iport has, is written into it.
LEMMA PutKeepsApart ==
    ASSUME Inv, NEW d \in Ids, NEW x \in Iport,
           x.port = 0 \/ \A c \in DOMAIN iports \ {d} : iports[c].port # x.port
    PROVE  TableOK(Put(d, x))
<1>1. IsTable(Put(d, x))
  BY PutTable DEF Inv
<1>2. ASSUME NEW b \in DOMAIN Put(d, x), NEW c \in DOMAIN Put(d, x), b # c,
             Put(d, x)[b].port = Put(d, x)[c].port
      PROVE  Put(d, x)[c].port = 0
  <2>1. CASE b # d /\ c # d
    BY <1>2, <2>1 DEF Put, Inv, OnePerPort
  <2>2. CASE b = d
    BY <1>2, <2>2 DEF Put
  <2>3. CASE c = d
    BY <1>2, <2>3 DEF Put
  <2> QED BY <2>1, <2>2, <2>3
<1> QED BY <1>1, <1>2 DEF TableOK

\* Closing an iport keeps them apart.
LEMMA ClosedKeepsApart ==
    ASSUME NEW t, TableOK(t), NEW d \in DOMAIN t
    PROVE  TableOK(Closed(t, d))
BY ClosedTable DEF TableOK

\* The invariant allows just the tables that keep ports apart.
LEMMA InvTable == ASSUME Inv PROVE TableOK(iports)
BY DEF Inv, TypeOK, OnePerPort, TableOK

-----------------------------------------------------------------------------
(* Every step keeps the table's type and the ports apart.                    *)

\* After a step that keeps the ports of the table apart, no two are the same.
LEMMA NewTable == ASSUME IsTable(iports'), TableOK(iports') PROVE OnePerPort'
BY DEF TableOK, OnePerPort

\* An iport with a selected port may be put into the table, open or not.
LEMMA PutSelected ==
    ASSUME Inv, NEW d \in Ids, ~Ignored(d),
           NEW p \in Entry(d).min..Entry(d).max, Selects(d, p), NEW sticky \in BOOLEAN
    PROVE  /\ p \in Nat
           /\ TableOK(Put(d, [port |-> p, open |-> TRUE, sticky |-> sticky]))
<1>1. p \in Nat /\ \A c \in DOMAIN iports \ {d} : iports[c].port # p
  BY SelectedIsFree DEF Inv
<1> DEFINE x == [port |-> p, open |-> TRUE, sticky |-> sticky]
<1>2. x \in Iport /\ x.port = p
  BY <1>1 DEF Iport
<1> HIDE DEF x
<1>3. TableOK(Put(d, x))
  BY <1>1, <1>2, PutKeepsApart
<1> QED BY <1>1, <1>3 DEF x

\* The iport that iwdp_listen finds or makes is an iport.
LEMMA FoundType ==
    ASSUME Inv, NEW d \in Ids
    PROVE  /\ Found(d) \in Iport
           /\ Found(d).port = 0 \/ \A c \in DOMAIN iports \ {d} : iports[c].port # Found(d).port
<1>1. CASE d \in DOMAIN iports
  <2>1. PICK S \in SUBSET Ids : iports \in [S -> Iport]
    BY DEF Inv, TypeOK, IsTable
  <2>2. Found(d) = iports[d] /\ iports[d] \in Iport
    BY <1>1, <2>1 DEF Found
  <2> QED BY <1>1, <2>2 DEF Inv, OnePerPort
<1>2. CASE d \notin DOMAIN iports
  BY <1>2 DEF Found, Iport
<1> QED BY <1>1, <1>2

\* iwdp_listen, with any outcome, keeps ports apart.
LEMMA ListenKeepsApart ==
    ASSUME Inv, NEW d \in Ids, NEW what, Listen(d, what)
    PROVE  TableOK(iports')
<1>1. CASE Ignored(d)
  BY <1>1, InvTable DEF Listen
<1>2. ASSUME ~Ignored(d), NEW p \in Entry(d).min..Entry(d).max, Selects(d, p),
             iports' = Put(d, Opened(d, p))
      PROVE  TableOK(iports')
  <2>1. Found(d).sticky \in BOOLEAN
    BY FoundType DEF Iport
  <2> DEFINE s == Found(d).sticky
  <2>2. iports' = Put(d, [port |-> p, open |-> TRUE, sticky |-> s])
    BY <1>2 DEF Opened
  <2> HIDE DEF s
  <2> QED BY <1>2, <2>1, <2>2, PutSelected DEF s
<1>3. CASE ~Ignored(d) /\ iports' = Put(d, Found(d))
  BY <1>3, FoundType, PutKeepsApart
<1> QED BY <1>1, <1>2, <1>3 DEF Listen

\* No device is known at the start.
LEMMA InvInit == Init => Inv
<1> SUFFICES ASSUME Init PROVE Inv
  OBVIOUS
<1>1. DOMAIN iports = {} /\ iports \in [{} -> Iport]
  BY DEF Init
<1>2. IsTable(iports)
  BY <1>1 DEF IsTable
<1> QED BY <1>1, <1>2 DEF Init, Inv, TypeOK, OnePerPort, Silence, Ids

\* Every step, of the proxy, of the user who edits the file and of the other
\* processes, keeps the invariant.
LEMMA InvStep == Inv /\ [Next]_vars => Inv'
<1> SUFFICES ASSUME Inv, [Next]_vars PROVE Inv'
  OBVIOUS
<1> DEFINE Rest == /\ config' \in Configs /\ started' \in BOOLEAN
                   /\ others' \subseteq Ports /\ had' \in [Devices -> Nat]
                   /\ said' \in [id : Ids, what : {"nothing", "ignored", "listens",
                                    "attached", "unable to attach", "unable to bind"}]
<1>1. TableOK(iports') /\ Rest => Inv'
  BY NewTable DEF Inv, TypeOK, TableOK
<1>2. CASE Start
  <2>1. PICK what \in {"ignored", "listens", "unable to bind"} : Listen(DeviceList, what)
    BY <1>2 DEF Start
  <2>2. TableOK(iports')
    BY <2>1, ListenKeepsApart DEF Ids
  <2>3. Rest
    BY <1>2, <2>1 DEF Start, Listen, Inv, TypeOK, Ids
  <2> QED BY <1>1, <2>2, <2>3
<1>3. ASSUME NEW d \in Devices, Attach(d) PROVE Inv'
  <2>1. PICK p \in Entry(d).min..Entry(d).max :
            /\ Selects(d, p)
            /\ iports' = Put(d, [port |-> p, open |-> TRUE, sticky |-> TRUE])
            /\ had' = [had EXCEPT ![d] = p]
    BY <1>3 DEF Attach
  <2>2. TableOK(iports') /\ p \in Nat
    BY <1>3, <2>1, PutSelected DEF Attach, Ids
  <2>3. Rest
    BY <1>3, <2>1, <2>2 DEF Attach, Inv, TypeOK, Ids
  <2> QED BY <1>1, <2>2, <2>3
<1>4. ASSUME NEW d \in Devices, AttachUnreachable(d) PROVE Inv'
  <2>1. PICK p \in Entry(d).min..Entry(d).max :
            /\ Selects(d, p)
            /\ iports' = Closed(Put(d, Opened(d, p)), d)
            /\ had' = [had EXCEPT ![d] = IF @ = 0 THEN 0 ELSE p]
    BY <1>4 DEF AttachUnreachable
  <2> DEFINE t == Put(d, Opened(d, p))
  <2>2. Found(d).sticky \in BOOLEAN
    BY FoundType DEF Iport, Ids
  <2>3. TableOK(t) /\ p \in Nat
    <3> DEFINE s == Found(d).sticky
    <3>1. t = Put(d, [port |-> p, open |-> TRUE, sticky |-> s])
      BY DEF Opened
    <3> HIDE DEF s, t
    <3> QED BY <1>4, <2>1, <2>2, <3>1, PutSelected DEF AttachUnreachable, Ids, s
  <2>4. d \in DOMAIN t
    BY DEF Put
  <2> HIDE DEF t
  <2>5. TableOK(Closed(t, d))
    BY <2>3, <2>4, ClosedKeepsApart
  <2>6. TableOK(iports')
    BY <2>1, <2>5 DEF t
  <2>7. Rest
    BY <1>4, <2>1, <2>3 DEF AttachUnreachable, Inv, TypeOK, Ids
  <2> QED BY <1>1, <2>6, <2>7
<1>5. ASSUME NEW d \in Devices, AttachFails(d) PROVE Inv'
  <2>1. PICK what \in {"ignored", "unable to bind"} : Listen(d, what)
    BY <1>5 DEF AttachFails
  <2>2. TableOK(iports')
    BY <2>1, ListenKeepsApart DEF Ids
  <2>3. Rest
    BY <1>5, <2>1 DEF AttachFails, Listen, Inv, TypeOK, Ids
  <2> QED BY <1>1, <2>2, <2>3
<1>6. ASSUME NEW d \in Ids, Close(d) PROVE Inv'
  <2>1. TableOK(iports')
    BY <1>6, InvTable, ClosedKeepsApart DEF Close
  <2>2. Rest
    BY <1>6 DEF Close, Inv, TypeOK, Silence, Ids
  <2> QED BY <1>1, <2>1, <2>2
<1>7. CASE ConfigChanges
  <2>1. TableOK(iports')
    BY <1>7, InvTable DEF ConfigChanges
  <2>2. Rest
    BY <1>7 DEF ConfigChanges, Inv, TypeOK, Silence, Ids
  <2> QED BY <1>1, <2>1, <2>2
<1>8. ASSUME NEW p \in Ports, OtherBinds(p) \/ OtherReleases(p) PROVE Inv'
  <2>1. TableOK(iports')
    BY <1>8, InvTable DEF OtherBinds, OtherReleases
  <2>2. others' \subseteq Ports /\ said' = Silence
    BY <1>8 DEF OtherBinds, OtherReleases, Inv, TypeOK
  <2>3. UNCHANGED <<config, started, had>>
    BY <1>8 DEF OtherBinds, OtherReleases
  <2>4. Rest
    BY <2>2, <2>3 DEF Inv, TypeOK, Silence, Ids
  <2> QED BY <1>1, <2>1, <2>4
<1>9. CASE UNCHANGED vars
  BY <1>9 DEF vars, Inv, TypeOK, OnePerPort
<1> QED BY <1>2, <1>3, <1>4, <1>5, <1>6, <1>7, <1>8, <1>9 DEF Next

\* The records of device_id_to_iport keep their types.
THEOREM TypeCorrect == Spec => []TypeOK
<1>1. Inv => TypeOK
  BY DEF Inv
<1> QED BY <1>1, InvInit, InvStep, PTL DEF Spec

\* No port is ever given to two devices, whatever the configuration says, in
\* which order devices come and go, and what other processes bind.
THEOREM PortsApart == Spec => []OnePerPort
<1>1. Inv => OnePerPort
  BY DEF Inv
<1> QED BY <1>1, InvInit, InvStep, PTL DEF Spec

-----------------------------------------------------------------------------
(* A device gets its port again.                                             *)

\* Every step keeps what iports remember and what devices had in agreement: an
\* iport that was attached is never freed, and its port changes only when the
\* device listens on another one.
LEMMA HadStep == Inv /\ HadInv /\ [Next]_vars => HadInv'
<1> SUFFICES ASSUME Inv, HadInv, [Next]_vars, NEW c \in Devices, had'[c] # 0
             PROVE  c \in DOMAIN iports' /\ iports'[c].sticky /\ iports'[c].port = had'[c]
  BY DEF HadInv
<1>1. had \in [Devices -> Nat] /\ DeviceList \notin Devices /\ Devices \subseteq Ids
  BY DeviceListAssumption DEF Inv, TypeOK, Ids
<1>2. ASSUME UNCHANGED <<iports, had>>
      PROVE  c \in DOMAIN iports' /\ iports'[c].sticky /\ iports'[c].port = had'[c]
  BY <1>2 DEF HadInv
<1>3. ASSUME NEW d \in Ids, NEW x, UNCHANGED had, iports' = Put(d, x),
             d = c => x = iports[c]
      PROVE  c \in DOMAIN iports' /\ iports'[c].sticky /\ iports'[c].port = had'[c]
  BY <1>3 DEF HadInv, Put
<1>4. CASE Start
  <2>1. PICK what \in {"ignored", "listens", "unable to bind"} : Listen(DeviceList, what)
    BY <1>4 DEF Start
  <2>2. UNCHANGED iports \/ \E x : iports' = Put(DeviceList, x)
    BY <2>1 DEF Listen
  <2> QED BY <1>1, <1>2, <1>3, <1>4, <2>2 DEF Start, Ids
<1>5. ASSUME NEW d \in Devices, Attach(d)
      PROVE  c \in DOMAIN iports' /\ iports'[c].sticky /\ iports'[c].port = had'[c]
  <2>1. PICK p : /\ iports' = Put(d, [port |-> p, open |-> TRUE, sticky |-> TRUE])
                 /\ had' = [had EXCEPT ![d] = p]
    BY <1>5 DEF Attach
  <2> QED BY <1>1, <2>1 DEF HadInv, Put
<1>6. ASSUME NEW d \in Devices, AttachUnreachable(d)
      PROVE  c \in DOMAIN iports' /\ iports'[c].sticky /\ iports'[c].port = had'[c]
  <2>1. PICK p : /\ iports' = Closed(Put(d, Opened(d, p)), d)
                 /\ had' = [had EXCEPT ![d] = IF @ = 0 THEN 0 ELSE p]
    BY <1>6 DEF AttachUnreachable
  <2> DEFINE t == Put(d, Opened(d, p))
  <2>2. CASE c = d
    <3>1. had[d] # 0 /\ had'[d] = p
      BY <1>1, <2>1, <2>2
    <3>2. t[d] = [port |-> p, open |-> TRUE, sticky |-> iports[d].sticky] /\ iports[d].sticky
      BY <2>2, <3>1 DEF HadInv, Put, Opened, Found
    <3>3. d \in DOMAIN t /\ iports' = [t EXCEPT ![d].open = FALSE]
      BY <2>1, <3>2 DEF Closed, Put
    <3>4. t = [b \in DOMAIN t |-> t[b]]
      BY DEF Put
    <3> HIDE DEF t
    <3>5. iports' = [t EXCEPT ![d] = [t[d] EXCEPT !.open = FALSE]]
      BY <3>3
    <3>6. d \in DOMAIN iports' /\ iports'[d] = [t[d] EXCEPT !.open = FALSE]
      BY <3>3, <3>4, <3>5
    <3>7. iports'[d].sticky = t[d].sticky /\ iports'[d].port = t[d].port
      BY <3>2, <3>6
    <3> QED BY <2>2, <3>1, <3>2, <3>6, <3>7
  <2>3. CASE c # d
    <3>1. had'[c] = had[c]
      BY <1>1, <2>1, <2>3
    <3>2. c \in DOMAIN t /\ t[c] = iports[c]
      BY <2>3, <3>1 DEF HadInv, Put
    <3>3. t = [b \in DOMAIN t |-> t[b]]
      BY DEF Put
    <3> HIDE DEF t
    <3>4. c \in DOMAIN Closed(t, d) /\ Closed(t, d)[c] = t[c]
      BY <2>3, <3>2, <3>3 DEF Closed
    <3> QED BY <2>1, <3>1, <3>2, <3>4 DEF HadInv, t
  <2> QED BY <2>2, <2>3
<1>7. ASSUME NEW d \in Devices, AttachFails(d)
      PROVE  c \in DOMAIN iports' /\ iports'[c].sticky /\ iports'[c].port = had'[c]
  <2>1. UNCHANGED had /\ (UNCHANGED iports \/ iports' = Put(d, Found(d)))
    BY <1>7 DEF AttachFails, Listen
  <2>2. c = d => Found(d) = iports[c]
    BY <2>1 DEF HadInv, Found
  <2> QED BY <1>1, <1>2, <1>3, <2>1, <2>2
<1>8. ASSUME NEW d \in Ids, Close(d)
      PROVE  c \in DOMAIN iports' /\ iports'[c].sticky /\ iports'[c].port = had'[c]
  <2>1. d \in DOMAIN iports /\ iports' = Closed(iports, d) /\ UNCHANGED had
    BY <1>8 DEF Close
  <2>2. c \in DOMAIN iports /\ iports[c].sticky /\ iports[c].port = had[c]
    BY <2>1 DEF HadInv
  <2>3. iports \in [DOMAIN iports -> Iport]
    BY DEF Inv, TypeOK, IsTable
  <2>4. c \in DOMAIN iports' /\ iports'[c].sticky = iports[c].sticky
        /\ iports'[c].port = iports[c].port
    <3>1. CASE c # d
      BY <2>1, <2>2, <2>3, <3>1 DEF Closed
    <3>2. CASE c = d
      <4>1. iports' = [iports EXCEPT ![d] = [iports[d] EXCEPT !.open = FALSE]]
        BY <2>1, <2>2, <3>2 DEF Closed
      <4>2. iports'[d] = [iports[d] EXCEPT !.open = FALSE] /\ d \in DOMAIN iports'
        BY <2>1, <2>3, <4>1
      <4>3. iports[d] \in Iport
        BY <2>1, <2>3
      <4> QED BY <3>2, <4>2, <4>3 DEF Iport
    <3> QED BY <3>1, <3>2
  <2> QED BY <2>1, <2>2, <2>4
<1>9. CASE ConfigChanges \/ (\E p \in Ports : OtherBinds(p) \/ OtherReleases(p)) \/ UNCHANGED vars
  BY <1>2, <1>9 DEF ConfigChanges, OtherBinds, OtherReleases, vars
<1> QED BY <1>4, <1>5, <1>6, <1>7, <1>8, <1>9 DEF Next

\* When the port a device had is in its range and no other process holds it,
\* iwdp_listen selects no other one.
LEMMA KeptIsSelected ==
    ASSUME Inv, HadInv, NEW d \in Devices, d \in DOMAIN iports => ~iports[d].open,
           had[d] \in Entry(d).min..Entry(d).max \ (others \cup {0}),
           NEW p, Selects(d, p)
    PROVE  p = had[d]
<1>1. had[d] \in Nat \ {0}
  BY DEF Inv, TypeOK
<1>2. d \in DOMAIN iports /\ iports[d].port = had[d]
  BY <1>1 DEF HadInv
<1>3. KeptPort(d) = had[d]
  BY <1>2 DEF KeptPort
<1>4. CanBind(had[d])
  BY <1>1, <1>2 DEF CanBind, Inv, OnePerPort
<1> QED BY <1>1, <1>3, <1>4 DEF Selects

\* A device that was attached once gets the port it had at each later attach,
\* whatever was attached, edited and bound meanwhile, if the configuration
\* still has it and no other process holds it (README.md:152).
THEOREM ReattachCorrect == Spec => ReattachKeepsPort
<1> DEFINE d1 == said'.id
           Again == said'.what \in {"attached", "unable to attach"} =>
                      (had[d1] \in Entry(d1).min..Entry(d1).max \ (others \cup {0})
                         => had'[d1] = had[d1])
<1>1. Init => HadInv
  BY DEF Init, HadInv
<1>2. Inv /\ HadInv /\ [Next]_vars => [Again]_vars
  <2> SUFFICES ASSUME Inv, HadInv, Next,
                      said'.what \in {"attached", "unable to attach"},
                      had[d1] \in Entry(d1).min..Entry(d1).max \ (others \cup {0})
               PROVE  had'[d1] = had[d1]
    OBVIOUS
  <2>1. had \in [Devices -> Nat]
    BY DEF Inv, TypeOK
  <2>2. ASSUME NEW d \in Devices, Attach(d) \/ AttachUnreachable(d)
        PROVE  had'[d1] = had[d1]
    <3>1. PICK p \in Entry(d).min..Entry(d).max :
            /\ Selects(d, p)
            /\ \/ had' = [had EXCEPT ![d] = p]
               \/ had' = [had EXCEPT ![d] = IF @ = 0 THEN 0 ELSE p]
      <4>1. CASE Attach(d)
        BY <4>1 DEF Attach
      <4>2. CASE AttachUnreachable(d)
        BY <4>2 DEF AttachUnreachable
      <4> QED BY <2>2, <4>1, <4>2
    <3>2. d1 = d /\ (d \in DOMAIN iports => ~iports[d].open)
      <4>1. CASE Attach(d)
        BY <4>1 DEF Attach
      <4>2. CASE AttachUnreachable(d)
        BY <4>2 DEF AttachUnreachable
      <4> QED BY <2>2, <4>1, <4>2
    <3>3. p = had[d]
      BY <3>1, <3>2, KeptIsSelected
    <3> QED BY <2>1, <3>1, <3>2, <3>3
  <2>3. CASE Start
    BY <2>3 DEF Start, Listen
  <2>4. ASSUME NEW d \in Devices, AttachFails(d) PROVE had'[d1] = had[d1]
    BY <2>4 DEF AttachFails, Listen
  <2>5. CASE (\E d \in Ids : Close(d)) \/ ConfigChanges
             \/ \E p \in Ports : OtherBinds(p) \/ OtherReleases(p)
    BY <2>5 DEF Close, ConfigChanges, OtherBinds, OtherReleases, Silence
  <2> QED BY <2>2, <2>3, <2>4, <2>5 DEF Next
<1>3. ReattachKeepsPort <=> [][Again]_vars
  BY DEF ReattachKeepsPort
<1> QED BY <1>1, <1>2, <1>3, InvInit, InvStep, HadStep, PTL DEF Spec

-----------------------------------------------------------------------------
(* A device is refused only when its range is full.                          *)

\* When a port of its range is free, iwdp_listen selects one.
LEMMA SomeSelected ==
    ASSUME Inv, NEW d \in Ids, ~Ignored(d), d \in DOMAIN iports => ~iports[d].open,
           Entry(d).min > 0,
           NEW p \in Entry(d).min..Entry(d).max, p \notin others,
           \A c \in DOMAIN iports \ {d} : iports[c].port # p
    PROVE  \E q \in Entry(d).min..Entry(d).max : Selects(d, q)
<1>1. Entry(d).min \in Int /\ Entry(d).max \in Int
  BY EntryType DEF Ignored, Inv
<1>2. CanBind(p)
  BY DEF CanBind
<1>3. CASE p = KeptPort(d)
  BY <1>1, <1>2, <1>3 DEF Selects
<1>4. CASE p # KeptPort(d)
  <2> DEFINE free == {q \in Untaken(d) : CanBind(q)}
  <2>1. p \in free
    <3>1. d \in DOMAIN iports => iports[d].port # p
      BY <1>4 DEF KeptPort
    <3> QED BY <1>2, <1>4, <3>1 DEF Untaken
  <2>2. free \subseteq Nat
    BY <1>1 DEF Untaken
  <2>3. PICK q \in free : \A r \in free : q <= r
    BY <2>1, <2>2, SmallestIndex
  <2>4. q \in Entry(d).min..Entry(d).max
    BY DEF Untaken
  <2>5. CASE KeptPort(d) > 0 /\ CanBind(KeptPort(d))
    <3>1. CASE KeptPort(d) \in Entry(d).min..Entry(d).max
      BY <2>5, <3>1 DEF Selects
    <3>2. CASE KeptPort(d) = -1
      BY <2>5, <3>2
    <3> QED BY <3>1, <3>2 DEF KeptPort
  <2>6. CASE ~(KeptPort(d) > 0 /\ CanBind(KeptPort(d)))
    BY <2>3, <2>4, <2>6 DEF Selects
  <2> QED BY <2>5, <2>6
<1> QED BY <1>3, <1>4

\* iwdp_listen gives up on a device only when every port of its range is another
\* device's or held by another process (README.md:150).
THEOREM RefusalCorrect == Spec => RefusedOnlyWhenFull
<1> DEFINE d1 == said'.id
           Full(d) == \/ Entry(d).min <= 0
                      \/ \A p \in Entry(d).min..Entry(d).max :
                            \/ p \in others
                            \/ \E c \in DOMAIN iports \ {d} : iports[c].port = p
           Refusal == said'.what = "unable to bind" => Full(d1)
<1>1. ASSUME Inv, NEW d \in Ids, Listen(d, "unable to bind") PROVE Full(d)
  <2>1. /\ ~Ignored(d) /\ (d \in DOMAIN iports => ~iports[d].open)
        /\ ~\E p \in Entry(d).min..Entry(d).max : Selects(d, p)
    BY <1>1 DEF Listen
  <2>2. Entry(d).min \in Int
    BY <1>1, <2>1, EntryType DEF Ignored, Inv
  <2> SUFFICES ASSUME Entry(d).min > 0,
                      NEW p \in Entry(d).min..Entry(d).max, p \notin others,
                      ~\E c \in DOMAIN iports \ {d} : iports[c].port = p
               PROVE  FALSE
    BY <2>2
  <2>3. \A c \in DOMAIN iports \ {d} : iports[c].port # p
    OBVIOUS
  <2>4. \E q \in Entry(d).min..Entry(d).max : Selects(d, q)
    BY <1>1, <2>1, <2>3, SomeSelected
  <2> QED BY <2>1, <2>4
<1>2. Inv /\ [Next]_vars => [Refusal]_vars
  <2> SUFFICES ASSUME Inv, Next, said'.what = "unable to bind" PROVE Full(d1)
    OBVIOUS
  <2>1. ASSUME NEW d \in Ids, NEW what, Listen(d, what) PROVE Full(d1)
    <3>1. d1 = d /\ what = "unable to bind"
      BY <2>1 DEF Listen
    <3> QED BY <1>1, <2>1, <3>1
  <2>2. CASE Start
    <3> HIDE DEF Full
    <3> QED BY <2>1, <2>2 DEF Start, Ids
  <2>3. ASSUME NEW d \in Devices, AttachFails(d) PROVE Full(d1)
    <3> HIDE DEF Full
    <3> QED BY <2>1, <2>3 DEF AttachFails, Ids
  <2>4. ASSUME NEW d \in Devices, Attach(d) PROVE FALSE
    BY <2>4 DEF Attach
  <2>5. ASSUME NEW d \in Devices, AttachUnreachable(d) PROVE FALSE
    BY <2>5 DEF AttachUnreachable
  <2>6. CASE (\E d \in Ids : Close(d)) \/ ConfigChanges
             \/ \E p \in Ports : OtherBinds(p) \/ OtherReleases(p)
    <3>1. said' = Silence
      BY <2>6 DEF Close, ConfigChanges, OtherBinds, OtherReleases
    <3>2. said'.what = "nothing"
      BY <3>1 DEF Silence
    <3> QED BY <3>2
  <2> HIDE DEF Full
  <2> QED BY <2>2, <2>3, <2>4, <2>5, <2>6 DEF Next
<1>3. RefusedOnlyWhenFull <=> [][Refusal]_vars
  BY DEF RefusedOnlyWhenFull
<1> QED BY <1>2, <1>3, InvInit, InvStep, PTL DEF Spec

=============================================================================
