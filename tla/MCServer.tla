------------------------------ MODULE MCServer ------------------------------
(* Small instances of Server for TLC. *)
EXTENDS Server

CONSTANTS c1, c2, i1, i2, p1, p2, l1
=============================================================================
