---------------------------- MODULE MCWebSocket ----------------------------
(* WebSocket for TLC: the values are in the configurations.                *)
EXTENDS WebSocket

=============================================================================
