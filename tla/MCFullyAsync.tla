---------------------------- MODULE MCFullyAsync ----------------------------
(* FullyAsync for TLC: the configurations choose the run's parameters. *)
EXTENDS FullyAsync
=============================================================================
