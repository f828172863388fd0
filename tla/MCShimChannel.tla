---------------------------- MODULE MCShimChannel ----------------------------
(* A small instance of ShimChannel for TLC. *)
EXTENDS ShimChannel

CONSTANT s1
=============================================================================
