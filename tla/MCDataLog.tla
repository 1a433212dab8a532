----------------------------- MODULE MCDataLog ------------------------------
(* A DataLog for TLC, with room for a single row in each channel. *)
EXTENDS DataLog
=============================================================================
