----------------------------- MODULE MCAppProxy -----------------------------
(* A small instance of AppProxy for TLC. *)
EXTENDS AppProxy, TLC

CONSTANTS r1, r2, l1

\* The two requests are alike where both are Cacheable or neither is.
Equal == Permutations(Requests)
=============================================================================
