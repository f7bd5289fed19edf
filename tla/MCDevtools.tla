----------------------------- MODULE MCDevtools -----------------------------
(* Constants of the checked instances of Devtools. *)
EXTENDS Devtools, TLC

CONSTANTS a, b, p1, p2, c1, c2, w1, w2, w3

MCAppOfP == p1 :> a
MCAppOfOne == (p1 :> a) @@ (p2 :> a)
MCAppOfTwo == (p1 :> a) @@ (p2 :> b)

MCNoNoise == <<>>

Rpcs(selector, argument) == Node("dict", ("__selector" :> Text(selector)) @@ ("__argument" :> argument))
MCApp(id) == Node("dict", "WIRApplicationIdentifierKey" :> id)
MCList(key, entries) == Node("dict", key :> entries)
MCPage(id) == Node("dict", "WIRPageIdentifierKey" :> id)
MCListing(entries) ==
    Node("dict", ("WIRApplicationIdentifierKey" :> Text(a)) @@ ("WIRListingKey" :> entries))

\* What calls no handler that matters; then messages without a selector or with one
\* that is not known, without an argument, with an item of the wrong type or out of
\* range, and lists of apps and pages with an entry that is not what its key says.
MCNoise ==
    <<Rpcs("_rpc_reportSetup:", Node("dict", <<>>)), Rpcs("_rpc_reportCurrentState:", NoNode),
      Node("dict", "__argument" :> MCApp(Text(a))), Rpcs("_rpc_reportSomething:", MCApp(Text(a))),
      Rpcs("_rpc_applicationConnected:", NoNode), Rpcs("_rpc_applicationDisconnected:", MCApp(Node("uint", 1))),
      Rpcs("_rpc_applicationUpdated:", MCApp(Text(a))), Rpcs("_rpc_applicationSentData:", MCApp(Text(a))),
      Rpcs("_rpc_reportConnectedApplicationList:", MCList("WIRApplicationDictionaryKey", NoNode)),
      Rpcs("_rpc_reportConnectedApplicationList:",
           MCList("WIRApplicationDictionaryKey", Node("dict", b :> MCApp(Text(a))))),
      Rpcs("_rpc_applicationSentListing:", MCListing(NoNode)),
      Rpcs("_rpc_applicationSentListing:", MCListing(Node("dict", p1 :> MCPage(Node("huge", p1))))),
      Rpcs("_rpc_applicationSentListing:", MCListing(Node("dict", p1 :> MCPage(Node("uint", p2)))))>>

Symmetry == Permutations(Iwss) \cup Permutations(WsIds)

\* The pages of one app are alike (of the unexpected messages, which name one of them,
\* only the kind is kept); with an app of each, the apps are alike together with them.
SymmetryOfOne == Symmetry \cup Permutations(PageIds)
SymmetryOfTwo == Symmetry \cup {(a :> b) @@ (b :> a) @@ (p1 :> p2) @@ (p2 :> p1)}
=============================================================================
