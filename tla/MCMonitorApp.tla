---------------------------- MODULE MCMonitorApp ----------------------------
(* MonitorApp.tla for TLC.                                                  *)
EXTENDS MonitorApp
=============================================================================
