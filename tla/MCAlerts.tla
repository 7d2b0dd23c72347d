------------------------------ MODULE MCAlerts ------------------------------
(* Alerts.tla for TLC.  No symmetry: AlertsAll checks liveness.             *)
EXTENDS Alerts
=============================================================================
