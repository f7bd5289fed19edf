--------------------------- MODULE MCWebInspector ---------------------------
(* The checked instance of WebInspector has its constants in the cfg. *)
EXTENDS WebInspector
=============================================================================
