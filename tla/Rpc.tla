-------------------------------- MODULE Rpc --------------------------------
(***************************************************************************)
(* The messages between the proxy and a web inspector, src/src/rpc.c, as   *)
(* operators: which handler a property list calls, with what, or that it   *)
(* is refused; and what is sent.                                           *)
(*                                                                         *)
(* A node of a property list is a record [type, value]; the value of a     *)
(* "dict" is a function from keys to nodes, and NoNode is the NULL of a    *)
(* key that is not there.  A "uint" fits 32 bits; a larger one is "huge".  *)
(* Titles, urls and names are kept as far as their type is tested.         *)
(*                                                                         *)
(* Operators whose comment starts with (slip) are not part of the model:   *)
(* each is the definition that follows it with a plausible mistake.        *)
(***************************************************************************)
EXTENDS Integers, Sequences

Null == "null"

Node(type, value) == [type |-> type, value |-> value]
NoNode == Node("none", Null)
Text(value) == Node("string", value)

\* plist_dict_get_item.
Item(node, key) ==
    IF node.type = "dict" /\ key \in DOMAIN node.value THEN node.value[key] ELSE NoNode

\* rpc_dict_get_required_string, _bool, _uint and _data, by type.
HasRequired(node, key, type) == Item(node, key).type = type

\* (slip) the item must be there.
HasOptionalStrict(node, key, type) == HasRequired(node, key, type)

\* rpc_dict_get_optional_string and _bool.
HasOptional(node, key, type) ==
    node.type # "none" /\ (Item(node, key).type # "none" => HasRequired(node, key, type))

-----------------------------------------------------------------------------
(* Receiving.                                                                *)

\* rpc_parse_app succeeds.
IsApp(node) ==
    /\ HasRequired(node, "WIRApplicationIdentifierKey", "string")
    /\ HasOptional(node, "WIRApplicationNameKey", "string")
    /\ HasOptional(node, "WIRIsApplicationProxyKey", "bool")

AppId(node) == Item(node, "WIRApplicationIdentifierKey").value

\* rpc_parse_apps succeeds: one entry that is wrong spoils the list.
AreApps(node) ==
    /\ node.type = "dict"
    /\ \A key \in DOMAIN node.value : IsApp(node.value[key]) /\ AppId(node.value[key]) = key

\* rpc_parse_page succeeds.
IsPage(node) ==
    /\ HasRequired(node, "WIRPageIdentifierKey", "uint")
    /\ \A key \in {"WIRConnectionIdentifierKey", "WIRTitleKey", "WIRURLKey"} :
            HasOptional(node, key, "string")

PageOf(node) ==
    [id |-> Item(node, "WIRPageIdentifierKey").value,
     conn |-> Item(node, "WIRConnectionIdentifierKey").value]

\* rpc_parse_pages succeeds; a key is the number of its page.
ArePages(node) ==
    /\ node.type = "dict"
    /\ \A key \in DOMAIN node.value : IsPage(node.value[key]) /\ PageOf(node.value[key]).id = key

\* The calls of the handlers.
Call(t) == [t |-> t]
AppCall(t, app) == [t |-> t, app |-> app]
AppList(apps) == [t |-> "appList", apps |-> apps]
Listing(app, pages) == [t |-> "listing", app |-> app, pages |-> pages]
Data(id) == [t |-> "data", id |-> id]
Invalid == Call("invalid")

\* rpc_recv_applicationUpdated: with the id of a host or a name, either of which
\* is read into app_id; the handler uses dest_id, the app's own.
IsUpdate(args) ==
    /\ \E key \in {"WIRHostApplicationIdentifierKey", "WIRApplicationNameKey"} :
            HasRequired(args, key, "string")
    /\ HasRequired(args, "WIRApplicationIdentifierKey", "string")

\* rpc_recv_applicationSentData and rpc_recv_applicationSentListing have what they
\* require.
IsData(args) ==
    /\ HasRequired(args, "WIRApplicationIdentifierKey", "string")
    /\ HasRequired(args, "WIRDestinationKey", "string")
    /\ HasRequired(args, "WIRMessageDataKey", "data")

IsListing(args) ==
    /\ HasRequired(args, "WIRApplicationIdentifierKey", "string")
    /\ ArePages(Item(args, "WIRListingKey"))

\* rpc_recv_msg: what is called for a message with the given selector and argument.
RecvMsg(selector, args) ==
    LET apps == Item(args, "WIRApplicationDictionaryKey")
        listing == Item(args, "WIRListingKey") IN
    CASE selector = "_rpc_reportSetup:" /\ args.type = "dict" -> Call("reportSetup")
      [] selector = "_rpc_reportConnectedApplicationList:" /\ AreApps(apps) ->
            AppList(DOMAIN apps.value)
      [] selector = "_rpc_applicationConnected:" /\ IsApp(args) -> AppCall("connected", AppId(args))
      [] selector = "_rpc_applicationDisconnected:" /\ IsApp(args) ->
            AppCall("disconnected", AppId(args))
      [] selector = "_rpc_applicationUpdated:" /\ IsUpdate(args) -> AppCall("updated", AppId(args))
      [] selector = "_rpc_applicationSentListing:" /\ IsListing(args) ->
            Listing(AppId(args), {PageOf(listing.value[key]) : key \in DOMAIN listing.value})
      [] selector = "_rpc_applicationSentData:" /\ IsData(args) ->
            Data(Item(args, "WIRDestinationKey").value)
      [] selector \in {"_rpc_reportConnectedDriverList:", "_rpc_reportCurrentState:"} ->
            Call("ignored")
      [] OTHER -> Invalid

\* rpc_recv_plist.
RecvPlist(rpc) == RecvMsg(Item(rpc, "__selector").value, Item(rpc, "__argument"))

-----------------------------------------------------------------------------
(* Sending.  The keys are those of the property list, without "WIR" and      *)
(* "Key"; what is NULL is never sent, as the callers have it.                *)

\* rpc_send_msg, with rpc_new_args.
SendMsg(selector, args) == [selector |-> selector, args |-> args]

ForwardGetListing(conn, app) ==
    SendMsg("_rpc_forwardGetListing:",
            [ConnectionIdentifier |-> conn, ApplicationIdentifier |-> app])

ForwardSocketSetup(conn, app, page, sender) ==
    SendMsg("_rpc_forwardSocketSetup:",
            [ConnectionIdentifier |-> conn, ApplicationIdentifier |-> app,
             AutomaticallyPause |-> FALSE, PageIdentifier |-> page, Sender |-> sender])

ForwardDidClose(conn, app, page, sender) ==
    SendMsg("_rpc_forwardDidClose:",
            [ConnectionIdentifier |-> conn, ApplicationIdentifier |-> app,
             PageIdentifier |-> page, Sender |-> sender])
=============================================================================
