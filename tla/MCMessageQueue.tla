--------------------------- MODULE MCMessageQueue ---------------------------
(* MessageQueue with two consumers, a queue of two and five samples.        *)
EXTENDS MessageQueue

MCSample == 1 .. MaxProduced
MCVersion == 0 .. 1
=============================================================================
