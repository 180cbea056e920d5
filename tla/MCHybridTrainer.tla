---------------------------- MODULE MCHybridTrainer ----------------------------
(* HybridTrainer for TLC: a server with two engines and one with a single
   engine, and every configuration (LoRA has no EMA teacher) *)
EXTENDS HybridTrainer, TLC

CONSTANTS r1, r2, r3, s1, s2

MCServerOf == (r1 :> s1) @@ (r2 :> s1) @@ (r3 :> s2)

MCConfigs ==
    {c \in Config :
        /\ c.loss = "vanilla" => c.teacher = "none"
        /\ c.lora => c.teacher # "ema"
        /\ c.asyncReward = (c.loss = "tasd")}
=============================================================================
