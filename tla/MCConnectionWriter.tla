------------------------- MODULE MCConnectionWriter -------------------------
(* A small ConnectionWriter for TLC: a heartbeat, an important message and *)
(* ordinary traffic, on a queue of two with room for one more.             *)
EXTENDS ConnectionWriter

MCPrios == {-10, 0, 5}
MCHeartbeat == -10
=============================================================================
