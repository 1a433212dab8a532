-------------------------- MODULE MCAlertsDisplay --------------------------
(* Instances of AlertsDisplay for TLC. *)
EXTENDS AlertsDisplay
=============================================================================
