----------------------------- MODULE PortAssign -----------------------------
(***************************************************************************)
(* Which browser port a device gets: iwdp_listen, iwdp_on_attach,          *)
(* iwdp_on_detach and iwdp_iport_close of src/src/ios_webkit_debug_proxy.c *)
(* with iwdpm_select_port of the main program and pc_find, pc_select_port  *)
(* of src/src/port_config.c.  Devices come and go, the configuration file  *)
(* is edited and other processes bind ports in between.                    *)
(*                                                                         *)
(* Operators whose comment starts with (slip) are not part of the model:   *)
(* each is the definition that follows it with a plausible mistake, used   *)
(* to see that a property fails when the code is wrong in that way.        *)
(***************************************************************************)
EXTENDS Integers, Sequences, FiniteSets

CONSTANTS
    Devices,        \* device_ids
    DeviceList,     \* the NULL device_id: the list of devices
    AnyDevice,      \* the device_id "*" of a configuration entry
    Configs,        \* contents of the configuration: sequences of entries
    IsFile,         \* the configuration is a file, parsed again every time
    Ports           \* port numbers other processes bind

Ids == Devices \cup {DeviceList}

ASSUME DeviceListAssumption == DeviceList \notin Devices
ASSUME ConfigsAssumption ==
    Configs \subseteq Seq([id : Ids \cup {AnyDevice}, min : Int, max : Int])
ASSUME IsFileAssumption == IsFile \in BOOLEAN

VARIABLES
    config,
    iports,     \* device_id_to_iport: id -> [port, open, sticky], open: s_fd > 0
    started,    \* iwdp_start has run
    others,     \* (kernel) ports that other processes hold
    had,        \* (ghost) the port a device had last, once it was attached; or 0
    said        \* (ghost) what became of the attach the last step handled

vars == <<config, iports, started, others, had, said>>

Iport == [port : Nat, open : BOOLEAN, sticky : BOOLEAN]
IsTable(t) == DOMAIN t \subseteq Ids /\ t \in [DOMAIN t -> Iport]

Silence == [id |-> DeviceList, what |-> "nothing"]

Init ==
    /\ config \in Configs
    /\ iports = [d \in {} |-> Silence]
    /\ started = FALSE
    /\ others = {}
    /\ had = [d \in Devices |-> 0]
    /\ said = Silence

-----------------------------------------------------------------------------

\* pc_find: the entries for d; the first one counts.
Entries(d) == {i \in 1..Len(config) : config[i].id \in {AnyDevice, d}}
HasEntry(d) == Entries(d) # {}
Entry(d) == config[CHOOSE i \in Entries(d) : \A j \in Entries(d) : i <= j]

\* (slip) the port of the last time is not looked up.
KeptPortForgotten(d) == -1

\* The port of the last time, if the configuration still has it in the range.
KeptPort(d) ==
    IF d \in DOMAIN iports /\ iports[d].port \in Entry(d).min..Entry(d).max
    THEN iports[d].port ELSE -1

\* iwdp_listen returns before it changes anything.
Ignored(d) ==
    \/ ~HasEntry(d)
    \/ KeptPort(d) < 0 /\ (Entry(d).min < 0 \/ Entry(d).max < Entry(d).min)

\* sm_listen(p) succeeds.
CanBind(p) == p \notin others /\ \A d \in DOMAIN iports : iports[d].open => iports[d].port # p

\* (slip) only the ports that are listened on are skipped.
UntakenIfClosed(d) ==
    IF Entry(d).min > 0
    THEN {p \in Entry(d).min..Entry(d).max :
            p # KeptPort(d) /\ \A c \in DOMAIN iports : iports[c].open => iports[c].port # p}
    ELSE {}

\* (slip) p < max_port.
UntakenBelow(d) ==
    IF Entry(d).min > 0
    THEN {p \in Entry(d).min..(Entry(d).max - 1) :
            p # KeptPort(d) /\ \A c \in DOMAIN iports : iports[c].port # p}
    ELSE {}

\* The ports of the range that no iport has, open or kept for a reattach.
Untaken(d) ==
    IF Entry(d).min > 0
    THEN {p \in Entry(d).min..Entry(d).max :
            p # KeptPort(d) /\ \A c \in DOMAIN iports : iports[c].port # p}
    ELSE {}

\* The loop of iwdp_listen: the kept port, else the first one that binds.
Selects(d, p) ==
    /\ CanBind(p)
    /\ \/ p = KeptPort(d) /\ p > 0
       \/ /\ ~(KeptPort(d) > 0 /\ CanBind(KeptPort(d)))
          /\ p \in Untaken(d)
          /\ \A q \in Untaken(d) : CanBind(q) => p <= q

Put(d, iport) == [c \in DOMAIN iports \cup {d} |-> IF c = d THEN iport ELSE iports[c]]

\* (slip) the number of a new iport is not cleared.
FoundMinusOne(d) == IF d \in DOMAIN iports THEN iports[d] ELSE [port |-> -1, open |-> FALSE, sticky |-> FALSE]

\* The iport of d, or a new one that iwdp_listen puts into the table.
Found(d) == IF d \in DOMAIN iports THEN iports[d] ELSE [port |-> 0, open |-> FALSE, sticky |-> FALSE]

\* It listens on p now.
Opened(d, p) == [port |-> p, open |-> TRUE, sticky |-> Found(d).sticky]

\* iwdp_iport_close: a sticky iport stays, to restore the port, another one is
\* removed and freed.
Closed(table, d) ==
    IF table[d].sticky THEN [table EXCEPT ![d].open = FALSE]
    ELSE [c \in DOMAIN table \ {d} |-> table[c]]

\* iwdp_listen(d), which then finds its port open, or not (it is said why).
Listen(d, what) ==
    /\ d \in DOMAIN iports => ~iports[d].open
    /\ IF Ignored(d) THEN UNCHANGED iports /\ what = "ignored"
       ELSE \/ \E p \in Entry(d).min..Entry(d).max :
                  /\ Selects(d, p)
                  /\ iports' = Put(d, Opened(d, p))
                  /\ what = "listens"
            \/ /\ ~\E p \in Entry(d).min..Entry(d).max : Selects(d, p)
               /\ iports' = Put(d, Found(d))
               /\ what = "unable to bind"
    /\ said' = [id |-> d, what |-> what]

\* iwdp_start: the device list; its failure is ignored.
Start ==
    /\ ~started /\ started' = TRUE
    /\ \E what \in {"ignored", "listens", "unable to bind"} : Listen(DeviceList, what)
    /\ UNCHANGED <<config, others, had>>

\* iwdp_on_attach: the port listens and the inspector is reached.
Attach(d) ==
    /\ started
    /\ d \in DOMAIN iports => ~iports[d].open
    /\ ~Ignored(d)
    /\ \E p \in Entry(d).min..Entry(d).max :
          /\ Selects(d, p)
          /\ iports' = Put(d, [port |-> p, open |-> TRUE, sticky |-> TRUE])
          /\ had' = [had EXCEPT ![d] = p]
    /\ said' = [id |-> d, what |-> "attached"]
    /\ UNCHANGED <<config, started, others>>

\* The port listens, the inspector is not reached: the port is closed again.
AttachUnreachable(d) ==
    /\ started
    /\ d \in DOMAIN iports => ~iports[d].open
    /\ ~Ignored(d)
    /\ \E p \in Entry(d).min..Entry(d).max :
          /\ Selects(d, p)
          /\ iports' = Closed(Put(d, Opened(d, p)), d)
          /\ had' = [had EXCEPT ![d] = IF @ = 0 THEN 0 ELSE p]
    /\ said' = [id |-> d, what |-> "unable to attach"]
    /\ UNCHANGED <<config, started, others>>

\* iwdp_listen fails; on_attach returns.
AttachFails(d) ==
    /\ started
    /\ \E what \in {"ignored", "unable to bind"} : Listen(d, what)
    /\ UNCHANGED <<config, started, others, had>>

\* The iport is closed: by iwdp_on_detach, by iwdp_iwi_close when the inspector
\* goes, or because accept failed.
Close(d) ==
    /\ d \in DOMAIN iports /\ iports[d].open
    /\ iports' = Closed(iports, d)
    /\ said' = Silence
    /\ UNCHANGED <<config, started, others, had>>

\* The file is edited.
ConfigChanges ==
    /\ IsFile
    /\ config' \in Configs
    /\ said' = Silence
    /\ UNCHANGED <<iports, started, others, had>>

\* Another process binds a port, or releases it.
OtherBinds(p) ==
    /\ CanBind(p)
    /\ others' = others \cup {p}
    /\ said' = Silence
    /\ UNCHANGED <<config, iports, started, had>>

OtherReleases(p) ==
    /\ p \in others
    /\ others' = others \ {p}
    /\ said' = Silence
    /\ UNCHANGED <<config, iports, started, had>>

Next ==
    \/ Start
    \/ \E d \in Devices : Attach(d) \/ AttachUnreachable(d) \/ AttachFails(d)
    \/ \E d \in Ids : Close(d)
    \/ ConfigChanges
    \/ \E p \in Ports : OtherBinds(p) \/ OtherReleases(p)

Spec == Init /\ [][Next]_vars

-----------------------------------------------------------------------------

\* The type of the state.
TypeOK ==
    /\ config \in Configs
    /\ IsTable(iports)
    /\ started \in BOOLEAN
    /\ others \subseteq Ports
    /\ had \in [Devices -> Nat]
    /\ said \in [id : Ids, what : {"nothing", "ignored", "listens", "attached",
                                   "unable to attach", "unable to bind"}]

\* "attach C gets :9224 (not :9222)": no port belongs to two devices, counting
\* the port that a detached device will get again.  (iport->port of a device
\* that never got one is 0.)
OnePerPort ==
    \A c, d \in DOMAIN iports : c # d /\ iports[c].port = iports[d].port => iports[d].port = 0

\* "The port assignment is preserved if a device is detached and reattached":
\* whatever was attached, edited and bound meanwhile, a device that was attached
\* once gets the port it had last, unless the configuration has it no longer or
\* another process holds it.
ReattachKeepsPort ==
    [][LET d == said'.id IN
         said'.what \in {"attached", "unable to attach"} =>
            (had[d] \in Entry(d).min..Entry(d).max \ (others \cup {0}) => had'[d] = had[d])]_vars

\* What a device had is what its iport remembers: iwdp_iport_close never frees
\* the iport of a device that was attached once.
HadInv ==
    \A d \in Devices : had[d] # 0 =>
        d \in DOMAIN iports /\ iports[d].sticky /\ iports[d].port = had[d]

\* "If a port is in use then the next available port will be used, up to the
\* range limit": a device is refused only if every port of its range is another
\* device's or held by another process.
RefusedOnlyWhenFull ==
    [][said'.what = "unable to bind" =>
         \/ Entry(said'.id).min <= 0
         \/ \A p \in Entry(said'.id).min..Entry(said'.id).max :
              \/ p \in others
              \/ \E c \in DOMAIN iports \ {said'.id} : iports[c].port = p]_vars
=============================================================================
