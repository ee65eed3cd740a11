------------------------------- MODULE Absence -------------------------------
(* The constant the modules of the page use for what is not there. *)
CONSTANT None
=============================================================================
