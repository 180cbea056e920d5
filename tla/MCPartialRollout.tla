--------------------------- MODULE MCPartialRollout ---------------------------
(* PartialRollout for TLC *)
EXTENDS PartialRollout
===============================================================================
