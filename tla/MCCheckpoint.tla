----------------------------- MODULE MCCheckpoint -----------------------------
(* Checkpoint for TLC *)
EXTENDS Checkpoint
=============================================================================
