-------------------------- MODULE MCInvertingProxy --------------------------
(* A small instance of InvertingProxy for TLC. *)
EXTENDS InvertingProxy

CONSTANTS c1, i1, l1

\* The POSTs of a worker that retries once.
MCPosts == {i1} \X (0 .. 1)
=============================================================================
