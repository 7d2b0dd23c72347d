------------------------------ MODULE MCBridge ------------------------------
(* Bridge.tla for TLC.  No symmetry: the runs check liveness or refinement.  *)
EXTENDS Bridge
=============================================================================
