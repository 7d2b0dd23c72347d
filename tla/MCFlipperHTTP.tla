--------------------------- MODULE MCFlipperHTTP ---------------------------
(* FlipperHTTP.tla and UartLife.tla for TLC, time in half seconds.          *)
EXTENDS UartLife
=============================================================================
