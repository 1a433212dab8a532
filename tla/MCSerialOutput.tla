--------------------------- MODULE MCSerialOutput ---------------------------
(* A SerialOutput for TLC; three openings of the device can overlap. *)
EXTENDS SerialOutput
=============================================================================
