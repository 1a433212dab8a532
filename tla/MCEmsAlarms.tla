---------------------------- MODULE MCEmsAlarms ----------------------------
(* Small instances of EmsAlarms.                                                 *)
EXTENDS EmsAlarms

CONSTANTS r1, r2
TwoRules == <<r1, r2>>
=============================================================================
