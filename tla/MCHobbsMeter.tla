---------------------------- MODULE MCHobbsMeter ----------------------------
(* A HobbsMeter for TLC, its times scaled down: see the configurations. *)
EXTENDS HobbsMeter
=============================================================================
