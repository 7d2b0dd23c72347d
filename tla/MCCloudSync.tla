---------------------------- MODULE MCCloudSync ----------------------------
(* CloudSync.tla for TLC.  The asks are interchangeable, and the runs check  *)
(* invariants only.                                                          *)
EXTENDS CloudSync, TLC

AskSymmetry == Permutations(Asks)
=============================================================================
