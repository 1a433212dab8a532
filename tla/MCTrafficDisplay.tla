-------------------------- MODULE MCTrafficDisplay --------------------------
(* An instance of TrafficDisplay for TLC: an aircraft, which the map drops  *)
(* a second before the daemon does.                                        *)
EXTENDS TrafficDisplay
=============================================================================
