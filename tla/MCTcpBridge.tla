---------------------------- MODULE MCTcpBridge ----------------------------
(* A small instance of TcpBridge for TLC. *)
EXTENDS TcpBridge
=============================================================================
