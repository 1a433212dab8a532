--------------------------- MODULE MCMessageQueue ---------------------------
(* A small MessageQueue for TLC: two over, so that pruning works in batches. *)
EXTENDS MessageQueue

MCPrios == {-10, 5}
MCAges == {0, 1}
=============================================================================
