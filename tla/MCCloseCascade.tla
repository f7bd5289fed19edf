-------------------------- MODULE MCCloseCascade --------------------------
(* Constants of the checked instances of CloseCascade. *)
EXTENDS CloseCascade

CONSTANTS c1, c2, c3, f1, f2, p1, p2
===========================================================================
