--------------------------- MODULE MCTerminalSizes ---------------------------
(* Two browsers.  TLC numbers them and explores one view's events in full.  *)
EXTENDS TerminalSizes
=============================================================================
