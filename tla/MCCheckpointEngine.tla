-------------------------- MODULE MCCheckpointEngine --------------------------
(* Models of one to five parameters, none or all of which fit one bucket. *)
EXTENDS CheckpointEngine

MCModels == {<<1>>, <<2, 1, 1, 1, 2>>, <<2, 1, 1>>, <<3, 1, 2, 3>>}
=============================================================================
