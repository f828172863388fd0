------------------------- MODULE MCWebsocketBridge -------------------------
(* A small instance of WebsocketBridge for TLC. *)
EXTENDS WebsocketBridge
=============================================================================
