----------------------------- MODULE MCSessions -----------------------------
(* A small instance of Sessions for TLC. *)
EXTENDS Sessions

CONSTANTS b1, b2, ok
=============================================================================
