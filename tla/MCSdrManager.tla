---------------------------- MODULE MCSdrManager ----------------------------
(* Instances of SdrManager for TLC. *)
EXTENDS SdrManager
=============================================================================
