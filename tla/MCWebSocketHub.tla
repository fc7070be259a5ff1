--------------------------- MODULE MCWebSocketHub ---------------------------
(* Instances of WebSocketHub for TLC.                                        *)
EXTENDS WebSocketHub

CONSTANTS c1, c2, b1, b2
=============================================================================
