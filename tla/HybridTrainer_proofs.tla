------------------------- MODULE HybridTrainer_proofs -------------------------
(***************************************************************************)
(* Theorems about HybridTrainer, for every number of ranks, servers, steps *)
(* and mini-batches and every configuration.                               *)
(***************************************************************************)
EXTENDS HybridTrainer, TLAPS

\* The policy that sampled the batch in use has not been updated since.
BatchPhases == {"reward", "log_prob", "advantage", "update"}

\* A step that has still to take its mini-batches.
Pending == pc \in BatchPhases \/ (pc \in {"wake", "generate", "sleep"} /\ purpose = "train")

\* The loop counts its steps before it takes them, and purpose says whether
\* it has started.
StepInv ==
    /\ pc \notin {"load", "sleep", "next", "done"} => purpose # "boot"
    /\ (purpose = "boot" /\ pc \in {"next", "done"}) => policy = saved.policy
    /\ (pc = "load" \/ (pc = "sleep" /\ purpose = "boot")) => teacher = 0
    /\ saved.policy <= saved.step * UpdateSteps
    /\ policy <= globalStep * UpdateSteps /\ teacher <= globalStep
    /\ Pending => /\ policy + UpdateSteps <= globalStep * UpdateSteps
                  /\ teacher < globalStep
    /\ pc = "mini_batches" => /\ policy + UpdateSteps <= globalStep * UpdateSteps + mini
                              /\ teacher < globalStep

\* How far the ranks have switched, and what a rank that has been sent the
\* weights then runs: only sleeping at level 2 gives up the base model, and
\* then the base model is sent again.
EngineInv ==
    \A r \in Ranks :
        /\ pc \notin {"wake", "generate", "sleep"} => mode[r] = "trainer"
        /\ pc = "generate" => mode[r] = "rollout"
        /\ pc = "sleep" => \/ mode[r] = "rollout"
                           \/ mode[r] = "trainer" /\ ServerOf[r] \in reset
        /\ ~ base[r] => config.sleepLevel = 2
        /\ (pc \in {"wake", "generate"} /\ mode[r] \in {"updated", "rollout"})
              => engine[r] = policy /\ base[r]
        /\ (config.freeCache /\ mode[r] \in {"trainer", "collected"}) => onGpu[r] = {}

\* A server answers from the policy and from a cache that it filled since it
\* was woken.
ServerInv ==
    \A s \in Servers :
        /\ pc \in {"generate", "sleep"} => served[s] \subseteq {policy}
        /\ pc = "generate" => prefixCache[s] \subseteq {policy} /\ s \notin reset
        /\ pc = "sleep" => (s \in reset => prefixCache[s] = {})
        /\ pc \notin {"generate", "sleep"} => prefixCache[s] = {}
        /\ (pc = "sleep" /\ purpose = "train") => served[s] # {}

\* One policy sampled the batch; while the mini-batches move on from it, the
\* teacher is still the one that scored it.
BatchInv ==
    /\ pc \in BatchPhases => batch.sampledBy = {policy}
    /\ pc \in {"advantage", "update"} => batch.old = policy
    /\ pc = "mini_batches" =>
        \E p \in Nat : /\ batch.sampledBy = {p}
                       /\ p <= policy /\ policy <= p + mini /\ teacher <= p
                       /\ improved <=> p < policy
    /\ (pc \in {"update", "mini_batches"} /\ Ema) => batch.score.ema = teacher
    /\ teacher <= policy

\* The actor is on the GPU only while it is updated, if it is offloaded at all.
ResidencyInv ==
    (config.offload /\ pc # "mini_batches") => ~ optimizerOnGpu /\ \A r \in Ranks : ~ actorOnGpu[r]

Inv ==
    /\ HybridTypeOK /\ StepInv /\ EngineInv /\ ServerInv /\ BatchInv /\ ResidencyInv

-----------------------------------------------------------------------------
(* Arithmetic: the mini-batches of n steps *)

LEMMA StepsMonotone ==
    ASSUME NEW n \in Nat, NEW m \in Nat, n <= m
    PROVE  n * UpdateSteps <= m * UpdateSteps
<1>1. \A u, k \in Nat : n * u <= (n + k) * u
  OBVIOUS
<1>2. m - n \in Nat /\ m = n + (m - n) /\ UpdateSteps \in Nat
  BY HybridTrainerAssumption
<1>3. QED
  BY <1>1, <1>2

LEMMA OneMoreStep ==
    ASSUME NEW n \in Nat
    PROVE  (n + 1) * UpdateSteps = n * UpdateSteps + UpdateSteps /\ n * UpdateSteps \in Nat
<1>1. \A u \in Nat : (n + 1) * u = n * u + u /\ n * u \in Nat
  OBVIOUS
<1>2. QED
  BY <1>1, HybridTrainerAssumption

\* One mini-batch more of a step that has not taken all of them.
LEMMA OneMoreMiniBatch ==
    ASSUME NEW p \in Nat, NEW u \in Nat, NEW m \in Nat, NEW a \in Nat, NEW b \in Nat,
           p + u <= a + m, m < u, a <= b
    PROVE  p + 1 <= b
  OBVIOUS

-----------------------------------------------------------------------------
(* The initial states *)

LEMMA InitInv == Init => Inv
<1> SUFFICES ASSUME Init PROVE Inv
  OBVIOUS
<1> USE HybridTrainerAssumption DEF Init, Fresh, Boot, Fill, NoBatch, NoScore
<1>1. 0 \in Policies /\ 0 \in Weights /\ Unknown \in Weights
  BY OneMoreStep DEF Policies, Weights
<1>2. HybridTypeOK
  <2>1. batch \in [sampledBy : SUBSET Weights, old : Weights,
                   score : [ema : 0 .. TotalSteps, student : Weights]]
    BY <1>1
  <2>2. engine \in [Ranks -> Weights] /\ config \in Config
    BY <1>1 DEF FreshEngine
  <2>3. actorOnGpu \in [Ranks -> BOOLEAN] /\ optimizerOnGpu \in BOOLEAN
    BY <2>2 DEF Config
  <2>4. saved \in [step : 0 .. TotalSteps, policy : Policies]
    BY <1>1
  <2>5. QED
    <3>1. pc \in {"load", "sleep"} /\ purpose \in DOMAIN AfterSleep
      BY DEF AfterSleep
    <3>2. mode \in [Ranks -> {"trainer", "rollout"}]
      OBVIOUS
    <3>3. 0 \in 0 .. TotalSteps /\ 0 \in 0 .. UpdateSteps /\ 0 \in 0 .. MaxCrashes
      OBVIOUS
    <3>4. QED
      BY <1>1, <2>1, <2>2, <2>3, <2>4, <3>1, <3>2, <3>3 DEF HybridTypeOK
<1>3. StepInv /\ ServerInv /\ BatchInv /\ EngineInv
  BY OneMoreStep DEF StepInv, Pending, BatchPhases, ServerInv, BatchInv, EngineInv
<1>4. ResidencyInv
  BY DEF ResidencyInv
<1>5. QED
  BY <1>2, <1>3, <1>4 DEF Inv

-----------------------------------------------------------------------------
(* The steps *)

\* Whatever loads the actor offloads it again, the update at its end.
LEMMA ResidencyStep ==
    ASSUME Inv, [Next]_vars PROVE ResidencyInv'
<1> USE HybridTrainerAssumption DEF Inv, HybridTypeOK, ResidencyInv, Config, Fill
<1>1. ASSUME NEW r \in Ranks, Collect(r) PROVE ResidencyInv'
  BY <1>1 DEF Collect, driver, durables, updating, servers
<1>2. ASSUME NEW r \in Ranks, ResumeWeights(r) PROVE ResidencyInv'
  BY <1>2 DEF ResumeWeights, driver, durables, updating, residency, servers
<1>3. ASSUME NEW r \in Ranks, UpdateWeights(r) PROVE ResidencyInv'
  BY <1>3 DEF UpdateWeights, driver, durables, updating, residency, servers
<1>4. ASSUME NEW r \in Ranks, ResumeCache(r) PROVE ResidencyInv'
  BY <1>4 DEF ResumeCache, driver, durables, updating, residency, servers
<1>5. ASSUME NEW r \in Ranks, TrainerMode(r) PROVE ResidencyInv'
  BY <1>5 DEF TrainerMode, driver, durables, updating, residency, servers
<1>6. ASSUME NEW s \in Servers, Generate(s) PROVE ResidencyInv'
  BY <1>6 DEF Generate, driver, durables, updating, residency, engines
<1>7. ASSUME NEW s \in Servers, ResetPrefixCache(s) PROVE ResidencyInv'
  BY <1>7 DEF ResetPrefixCache, driver, durables, updating, residency, engines
<1>8. CASE Woken
  BY <1>8 DEF Woken, durables, updating, residency, engines
<1>9. CASE Generated
  BY <1>9 DEF Generated, durables, updating, residency, engines, servers
<1>10. CASE Slept
  BY <1>10 DEF Slept, durables, updating, residency, engines, servers
<1>11. CASE Load
  BY <1>11 DEF Load, durables, engines, servers
<1>12. CASE NextStep
  BY <1>12 DEF NextStep, durables, updating, residency, engines, servers
<1>13. CASE StartReward
  BY <1>13 DEF StartReward, durables, updating, residency, engines, servers
<1>14. CASE RewardReady
  BY <1>14 DEF RewardReady, durables, updating, residency, engines, servers
<1>15. CASE OldLogProb
  BY <1>15 DEF OldLogProb, durables, updating, engines, servers
<1>16. CASE Advantage
  BY <1>16 DEF Advantage, durables, updating, engines, servers
<1>17. CASE SkipUpdate
  BY <1>17 DEF SkipUpdate, durables, updating, residency, engines, servers
<1>18. CASE BeginUpdate
  BY <1>18 DEF BeginUpdate, durables, engines, servers
<1>19. CASE OptimizerStep
  BY <1>19 DEF OptimizerStep, driver, durables, residency, engines, servers
<1>20. CASE EndUpdate
  BY <1>20 DEF EndUpdate, durables, engines, servers
<1>21. CASE Validate
  BY <1>21 DEF Validate, durables, updating, residency, engines, servers
<1>22. CASE Save
  BY <1>22 DEF Save, updating, engines, servers
<1>23. CASE Crash
  BY <1>23 DEF Crash
<1>24. CASE Terminated \/ UNCHANGED vars
  BY <1>24 DEF Terminated, vars, driver, durables, updating, residency, engines, servers
<1>25. QED
  BY <1>1, <1>2, <1>3, <1>4, <1>5, <1>6, <1>7, <1>8, <1>9, <1>10, <1>11, <1>12, <1>13, <1>14,
    <1>15, <1>16, <1>17, <1>18, <1>19, <1>20, <1>21, <1>22, <1>23, <1>24 DEF Next, Progress

\* The ranks switch under the driver's calls only.
LEMMA EngineStep ==
    ASSUME Inv, [Next]_vars PROVE EngineInv'
<1> USE HybridTrainerAssumption DEF Inv, HybridTypeOK, EngineInv, Config, Fill, EngineMemory,
    Boot, Fresh, AfterSleep, StepInv, Called
<1>1. ASSUME NEW r \in Ranks, Collect(r) PROVE EngineInv'
  BY <1>1 DEF Collect, driver, durables, updating, servers
<1>2. ASSUME NEW r \in Ranks, ResumeWeights(r) PROVE EngineInv'
  BY <1>2 DEF ResumeWeights, driver, durables, updating, residency, servers
<1>3. ASSUME NEW r \in Ranks, UpdateWeights(r) PROVE EngineInv'
  <2>1. base'[r] /\ engine'[r] = policy'
    <3>1. config.sleepLevel = 2 \/ base[r] = TRUE
      BY <1>3 DEF EngineInv
    <3>2. base' = [base EXCEPT ![r] = base[r] \/ ~ config.lora \/ config.sleepLevel = 2]
      BY <1>3 DEF UpdateWeights
    <3>3. base[r] \/ ~ config.lora \/ config.sleepLevel = 2
      BY <3>1
    <3>4. (base[r] \/ ~ config.lora \/ config.sleepLevel = 2) = TRUE
      BY <3>3
    <3>5. base' = [base EXCEPT ![r] = TRUE]
      BY <3>2, <3>4, Zenon
    <3>6. QED
      BY <1>3, <3>5 DEF UpdateWeights, updating
  <2>2. \A q \in Ranks \ {r} : base'[q] = base[q] /\ engine'[q] = engine[q] /\ mode'[q] = mode[q]
    BY <1>3 DEF UpdateWeights
  <2>3. mode'[r] = "updated" /\ pc = "wake"
    BY <1>3 DEF UpdateWeights
  <2>4. QED
    BY <1>3, <2>1, <2>2, <2>3 DEF UpdateWeights, driver, updating, servers
<1>4. ASSUME NEW r \in Ranks, ResumeCache(r) PROVE EngineInv'
  BY <1>4 DEF ResumeCache, driver, durables, updating, residency, servers
<1>5. ASSUME NEW r \in Ranks, TrainerMode(r) PROVE EngineInv'
  BY <1>5 DEF TrainerMode, driver, durables, updating, residency, servers
<1>6. ASSUME NEW s \in Servers, Generate(s) PROVE EngineInv'
  BY <1>6 DEF Generate, driver, durables, updating, residency, engines
<1>7. ASSUME NEW s \in Servers, ResetPrefixCache(s) PROVE EngineInv'
  BY <1>7 DEF ResetPrefixCache, driver, durables, updating, residency, engines
<1>8. CASE Woken
  BY <1>8 DEF Woken, durables, updating, residency, engines
<1>9. CASE Generated
  BY <1>9 DEF Generated, durables, updating, residency, engines, servers
<1>10. CASE Slept
  BY <1>10 DEF Slept, durables, updating, residency, engines, servers
<1>11. CASE Load
  BY <1>11 DEF Load, durables, engines, servers
<1>12. CASE NextStep
  BY <1>12 DEF NextStep, durables, updating, residency, engines, servers
<1>13. CASE StartReward
  BY <1>13 DEF StartReward, durables, updating, residency, engines, servers
<1>14. CASE RewardReady
  BY <1>14 DEF RewardReady, durables, updating, residency, engines, servers
<1>15. CASE OldLogProb
  BY <1>15 DEF OldLogProb, durables, updating, engines, servers
<1>16. CASE Advantage
  BY <1>16 DEF Advantage, durables, updating, engines, servers
<1>17. CASE SkipUpdate
  BY <1>17 DEF SkipUpdate, durables, updating, residency, engines, servers
<1>18. CASE BeginUpdate
  BY <1>18 DEF BeginUpdate, durables, engines, servers
<1>19. CASE OptimizerStep
  BY <1>19 DEF OptimizerStep, driver, durables, residency, engines, servers
<1>20. CASE EndUpdate
  BY <1>20 DEF EndUpdate, durables, engines, servers
<1>21. CASE Validate
  BY <1>21 DEF Validate, durables, updating, residency, engines, servers
<1>22. CASE Save
  BY <1>22 DEF Save, updating, engines, servers
<1>23. CASE Crash
  BY <1>23 DEF Crash
<1>24. CASE Terminated \/ UNCHANGED vars
  BY <1>24 DEF Terminated, vars, driver, durables, updating, residency, engines, servers
<1>25. QED
  BY <1>1, <1>2, <1>3, <1>4, <1>5, <1>6, <1>7, <1>8, <1>9, <1>10, <1>11, <1>12, <1>13, <1>14,
    <1>15, <1>16, <1>17, <1>18, <1>19, <1>20, <1>21, <1>22, <1>23, <1>24 DEF Next, Progress

\* No cached prefix outlives the policy it was computed under.
LEMMA ServerStep ==
    ASSUME Inv, [Next]_vars PROVE ServerInv'
<1> USE HybridTrainerAssumption DEF Inv, HybridTypeOK, ServerInv, EngineInv, Config, Fill,
    Boot, Fresh, AfterSleep, StepInv, Running
<1>1. ASSUME NEW r \in Ranks, Collect(r) PROVE ServerInv'
  BY <1>1 DEF Collect, driver, durables, updating, servers
<1>2. ASSUME NEW r \in Ranks, ResumeWeights(r) PROVE ServerInv'
  BY <1>2 DEF ResumeWeights, driver, durables, updating, residency, servers
<1>3. ASSUME NEW r \in Ranks, UpdateWeights(r) PROVE ServerInv'
  BY <1>3 DEF UpdateWeights, driver, durables, updating, residency, servers
<1>4. ASSUME NEW r \in Ranks, ResumeCache(r) PROVE ServerInv'
  BY <1>4 DEF ResumeCache, driver, durables, updating, residency, servers
<1>5. ASSUME NEW r \in Ranks, TrainerMode(r) PROVE ServerInv'
  BY <1>5 DEF TrainerMode, driver, durables, updating, residency, servers
<1>6. ASSUME NEW s \in Servers, Generate(s) PROVE ServerInv'
  BY <1>6 DEF Generate, driver, durables, updating, residency, engines
<1>7. ASSUME NEW s \in Servers, ResetPrefixCache(s) PROVE ServerInv'
  BY <1>7 DEF ResetPrefixCache, driver, durables, updating, residency, engines
<1>8. CASE Woken
  BY <1>8 DEF Woken, durables, updating, residency, engines
<1>9. CASE Generated
  BY <1>9 DEF Generated, durables, updating, residency, engines, servers
<1>10. CASE Slept
  BY <1>10 DEF Slept, durables, updating, residency, engines, servers
<1>11. CASE Load
  BY <1>11 DEF Load, durables, engines, servers
<1>12. CASE NextStep
  BY <1>12 DEF NextStep, durables, updating, residency, engines, servers
<1>13. CASE StartReward
  BY <1>13 DEF StartReward, durables, updating, residency, engines, servers
<1>14. CASE RewardReady
  BY <1>14 DEF RewardReady, durables, updating, residency, engines, servers
<1>15. CASE OldLogProb
  BY <1>15 DEF OldLogProb, durables, updating, engines, servers
<1>16. CASE Advantage
  BY <1>16 DEF Advantage, durables, updating, engines, servers
<1>17. CASE SkipUpdate
  BY <1>17 DEF SkipUpdate, durables, updating, residency, engines, servers
<1>18. CASE BeginUpdate
  BY <1>18 DEF BeginUpdate, durables, engines, servers
<1>19. CASE OptimizerStep
  BY <1>19 DEF OptimizerStep, driver, durables, residency, engines, servers
<1>20. CASE EndUpdate
  BY <1>20 DEF EndUpdate, durables, engines, servers
<1>21. CASE Validate
  BY <1>21 DEF Validate, durables, updating, residency, engines, servers
<1>22. CASE Save
  BY <1>22 DEF Save, updating, engines, servers
<1>23. CASE Crash
  BY <1>23 DEF Crash
<1>24. CASE Terminated \/ UNCHANGED vars
  BY <1>24 DEF Terminated, vars, driver, durables, updating, residency, engines, servers
<1>25. QED
  BY <1>1, <1>2, <1>3, <1>4, <1>5, <1>6, <1>7, <1>8, <1>9, <1>10, <1>11, <1>12, <1>13, <1>14,
    <1>15, <1>16, <1>17, <1>18, <1>19, <1>20, <1>21, <1>22, <1>23, <1>24 DEF Next, Progress

\* The counts are numbers.
LEMMA NatPolicy ==
    ASSUME HybridTypeOK
    PROVE  /\ policy \in Nat /\ saved.policy \in Nat /\ teacher \in Nat /\ mini \in Nat
           /\ globalStep \in Nat /\ saved.step \in Nat
  BY HybridTrainerAssumption DEF HybridTypeOK, Policies

LEMMA SomeWeights == 0 \in Policies /\ Policies \subseteq Weights /\ Unknown \in Weights
  BY HybridTrainerAssumption, OneMoreStep DEF Policies, Weights

\* A batch is learned by the policy that sampled it, and scored by one teacher.
LEMMA BatchStep ==
    ASSUME Inv, [Next]_vars PROVE BatchInv'
<1> USE HybridTrainerAssumption DEF Inv, HybridTypeOK, BatchInv, ServerInv, StepInv,
    BatchPhases, AfterSleep, Boot, Fresh, Ema, UsesTeacher
<1>1. ASSUME NEW r \in Ranks, Collect(r) PROVE BatchInv'
  BY <1>1 DEF Collect, driver, durables, updating, servers
<1>2. ASSUME NEW r \in Ranks, ResumeWeights(r) PROVE BatchInv'
  BY <1>2 DEF ResumeWeights, driver, durables, updating, residency, servers
<1>3. ASSUME NEW r \in Ranks, UpdateWeights(r) PROVE BatchInv'
  BY <1>3 DEF UpdateWeights, driver, durables, updating, residency, servers
<1>4. ASSUME NEW r \in Ranks, ResumeCache(r) PROVE BatchInv'
  BY <1>4 DEF ResumeCache, driver, durables, updating, residency, servers
<1>5. ASSUME NEW r \in Ranks, TrainerMode(r) PROVE BatchInv'
  BY <1>5 DEF TrainerMode, driver, durables, updating, residency, servers
<1>6. ASSUME NEW s \in Servers, Generate(s) PROVE BatchInv'
  BY <1>6 DEF Generate, driver, durables, updating, residency, engines
<1>7. ASSUME NEW s \in Servers, ResetPrefixCache(s) PROVE BatchInv'
  BY <1>7 DEF ResetPrefixCache, driver, durables, updating, residency, engines
<1>8. CASE Woken
  BY <1>8 DEF Woken, durables, updating, residency, engines
<1>9. CASE Generated
  BY <1>9 DEF Generated, durables, updating, residency, engines, servers
<1>10. CASE Slept
  BY <1>10 DEF Slept, durables, updating, residency, engines, servers
<1>11. CASE Load
  BY <1>11, NatPolicy DEF Load, durables, engines, servers
<1>12. CASE NextStep
  BY <1>12 DEF NextStep, durables, updating, residency, engines, servers
<1>13. CASE StartReward
  BY <1>13 DEF StartReward, durables, updating, residency, engines, servers
<1>14. CASE RewardReady
  BY <1>14 DEF RewardReady, durables, updating, residency, engines, servers
<1>15. CASE OldLogProb
  BY <1>15 DEF OldLogProb, durables, updating, engines, servers
<1>16. CASE Advantage
  <2>1. batch'.sampledBy = batch.sampledBy /\ batch'.old = batch.old
    BY <1>16 DEF Advantage
  <2>2. Ema => batch'.score.ema = teacher
    BY <1>16 DEF Advantage, Score
  <2>3. QED
    BY <1>16, <2>1, <2>2 DEF Advantage, updating
<1>17. CASE SkipUpdate
  BY <1>17 DEF SkipUpdate, durables, updating, residency, engines, servers
<1>18. CASE BeginUpdate
  BY <1>18, NatPolicy DEF BeginUpdate, durables, engines, servers
<1>19. CASE OptimizerStep
  <2>1. PICK p \in Nat : /\ batch.sampledBy = {p} /\ p <= policy /\ policy <= p + mini
                         /\ teacher <= p /\ (improved <=> p < policy)
    BY <1>19 DEF OptimizerStep
  <2>2. /\ batch'.sampledBy = {p} /\ p <= policy' /\ policy' <= p + mini' /\ teacher' <= p
        /\ improved' <=> p < policy'
    BY <1>19, <2>1, NatPolicy DEF OptimizerStep, driver
  <2>3. /\ pc' = "mini_batches" /\ teacher' <= policy' /\ batch' = batch /\ teacher' = teacher
        /\ Ema' = Ema
    BY <1>19, <2>2, NatPolicy DEF OptimizerStep, driver
  <2>4. QED
    BY <2>2, <2>3, <1>19 DEF OptimizerStep
<1>20. CASE EndUpdate
  <2>1. PICK p \in Nat : p <= policy /\ teacher <= p /\ (improved <=> p < policy)
    BY <1>20 DEF EndUpdate
  <2>2. teacher' <= policy'
    BY <1>20, <2>1, NatPolicy DEF EndUpdate, TeacherAfter
  <2>3. QED
    BY <1>20, <2>2 DEF EndUpdate
<1>21. CASE Validate
  BY <1>21 DEF Validate, durables, updating, residency, engines, servers
<1>22. CASE Save
  BY <1>22 DEF Save, updating, engines, servers
<1>23. CASE Crash
  BY <1>23 DEF Crash
<1>24. CASE Terminated \/ UNCHANGED vars
  BY <1>24 DEF Terminated, vars, driver, durables, updating, residency, engines, servers
<1>25. QED
  BY <1>1, <1>2, <1>3, <1>4, <1>5, <1>6, <1>7, <1>8, <1>9, <1>10, <1>11, <1>12, <1>13, <1>14,
    <1>15, <1>16, <1>17, <1>18, <1>19, <1>20, <1>21, <1>22, <1>23, <1>24 DEF Next, Progress

\* (Types)
LEMMA TypeStep ==
    ASSUME Inv, [Next]_vars PROVE HybridTypeOK'
<1> USE HybridTrainerAssumption DEF Inv, HybridTypeOK, Fill, AfterSleep, Config, EngineMemory
<1>1. ASSUME NEW r \in Ranks, Collect(r) PROVE HybridTypeOK'
  BY <1>1 DEF Collect, driver, durables, updating, servers
<1>2. ASSUME NEW r \in Ranks, ResumeWeights(r) PROVE HybridTypeOK'
  BY <1>2 DEF ResumeWeights, driver, durables, updating, residency, servers
<1>3. ASSUME NEW r \in Ranks, UpdateWeights(r) PROVE HybridTypeOK'
  BY <1>3, SomeWeights DEF UpdateWeights, driver, durables, updating, residency, servers
<1>4. ASSUME NEW r \in Ranks, ResumeCache(r) PROVE HybridTypeOK'
  BY <1>4 DEF ResumeCache, driver, durables, updating, residency, servers
<1>5. ASSUME NEW r \in Ranks, TrainerMode(r) PROVE HybridTypeOK'
  <2>1. engine' \in [Ranks -> Weights] /\ onGpu' \in [Ranks -> SUBSET EngineMemory]
    BY <1>5, SomeWeights DEF TrainerMode
  <2>2. base' \in [Ranks -> BOOLEAN]
    BY <1>5 DEF TrainerMode
  <2>3. QED
    BY <1>5, <2>1, <2>2 DEF TrainerMode, driver, durables, updating, residency, servers
<1>6. ASSUME NEW s \in Servers, Generate(s) PROVE HybridTypeOK'
  <2>1. \A q \in Ranks : Running(q) \in Weights
    BY SomeWeights DEF Running
  <2>2. prefixCache[s] \cup {Running(q) : q \in {q \in Ranks : ServerOf[q] = s}} \in SUBSET Weights
    BY <2>1
  <2>3. served' \in [Servers -> SUBSET Weights] /\ prefixCache' \in [Servers -> SUBSET Weights]
    BY <1>6, <2>2 DEF Generate
  <2>4. QED
    BY <1>6, <2>3 DEF Generate, driver, durables, updating, residency, engines
<1>7. ASSUME NEW s \in Servers, ResetPrefixCache(s) PROVE HybridTypeOK'
  BY <1>7 DEF ResetPrefixCache, driver, durables, updating, residency, engines
<1>8. CASE Woken
  BY <1>8 DEF Woken, durables, updating, residency, engines
<1>9. CASE Generated
  BY <1>9 DEF Generated, durables, updating, residency, engines, servers
<1>10. CASE Slept
  BY <1>10 DEF Slept, durables, updating, residency, engines, servers
<1>11. CASE Load
  BY <1>11, SomeWeights DEF Load, durables, engines, servers
<1>12. CASE NextStep
  <2>1. NoBatch \in [sampledBy : SUBSET Weights, old : Weights,
                     score : [ema : 0 .. TotalSteps, student : Weights]]
    BY SomeWeights DEF NoBatch, NoScore
  <2>2. globalStep' \in 0 .. TotalSteps
    BY <1>12 DEF NextStep
  <2>3. QED
    BY <1>12, <2>1, <2>2 DEF NextStep, durables, updating, residency, engines, servers
<1>13. CASE StartReward
  BY <1>13 DEF StartReward, durables, updating, residency, engines, servers
<1>14. CASE RewardReady
  BY <1>14 DEF RewardReady, durables, updating, residency, engines, servers
<1>15. CASE OldLogProb
  BY <1>15, SomeWeights DEF OldLogProb, durables, updating, engines, servers
<1>16. CASE Advantage
  <2>1. Score \in [ema : 0 .. TotalSteps, student : Weights]
    BY SomeWeights DEF Score
  <2>2. NoScore \in [ema : 0 .. TotalSteps, student : Weights]
    BY SomeWeights DEF NoScore
  <2>3. QED
    BY <1>16, <2>1, <2>2 DEF Advantage, durables, updating, engines, servers
<1>17. CASE SkipUpdate
  BY <1>17 DEF SkipUpdate, durables, updating, residency, engines, servers
<1>18. CASE BeginUpdate
  <2>1. actorOnGpu' \in [Ranks -> BOOLEAN]
    BY <1>18 DEF BeginUpdate
  <2>2. optimizerOnGpu' \in BOOLEAN /\ improved' \in BOOLEAN
    BY <1>18, Zenon DEF BeginUpdate
  <2>3. mini' \in 0 .. UpdateSteps
    BY <1>18 DEF BeginUpdate
  <2>4. QED
    BY <1>18, <2>1, <2>2, <2>3 DEF BeginUpdate, durables, engines, servers
<1>19. CASE OptimizerStep
  <2>1. policy + 1 <= TotalSteps * UpdateSteps
    <3>1. globalStep * UpdateSteps <= TotalSteps * UpdateSteps
      BY StepsMonotone
    <3>2. /\ policy \in Nat /\ mini \in Nat /\ mini < UpdateSteps
          /\ policy + UpdateSteps <= globalStep * UpdateSteps + mini
      BY <1>19, NatPolicy DEF OptimizerStep, StepInv
    <3>3. globalStep * UpdateSteps \in Nat /\ TotalSteps * UpdateSteps \in Nat
      BY OneMoreStep
    <3>4. UpdateSteps \in Nat
      OBVIOUS
    <3>5. QED
      BY <3>1, <3>2, <3>3, <3>4, OneMoreMiniBatch
  <2>2. policy + 1 \in Policies
    BY <2>1, NatPolicy DEF Policies
  <2>3. policy' \in Policies /\ mini' \in 0 .. UpdateSteps
    BY <1>19, <2>2 DEF OptimizerStep
  <2>4. improved' \in BOOLEAN
    BY <1>19, Zenon DEF OptimizerStep
  <2>5. QED
    BY <1>19, <2>3, <2>4 DEF OptimizerStep, driver, durables, residency, engines, servers
<1>20. CASE EndUpdate
  <2>1. teacher + 1 \in 0 .. TotalSteps
    BY <1>20 DEF EndUpdate, StepInv
  <2>2. teacher' \in 0 .. TotalSteps
    BY <2>1, <1>20 DEF EndUpdate, TeacherAfter
  <2>3. QED
    BY <1>20, <2>2 DEF EndUpdate, durables, engines, servers
<1>21. CASE Validate
  BY <1>21 DEF Validate, durables, updating, residency, engines, servers
<1>22. CASE Save
  <2>1. saved' \in [step : 0 .. TotalSteps, policy : Policies]
    BY <1>22 DEF Save
  <2>2. actorOnGpu' \in [Ranks -> BOOLEAN]
    <3>1. actorOnGpu' = actorOnGpu \/ actorOnGpu' = [y \in Ranks |-> ~ config.offload]
      BY <1>22 DEF Save
    <3>2. [y \in Ranks |-> ~ config.offload] \in [Ranks -> BOOLEAN]
      OBVIOUS
    <3>3. QED
      BY <3>1, <3>2
  <2>3. QED
    BY <1>22, <2>1, <2>2 DEF Save, updating, engines, servers
<1>23. CASE Crash
  <2>1. NoBatch \in [sampledBy : SUBSET Weights, old : Weights,
                     score : [ema : 0 .. TotalSteps, student : Weights]]
    BY SomeWeights DEF NoBatch, NoScore
  <2>2. /\ engine' \in [Ranks -> Weights] /\ mode' \in [Ranks -> {"trainer", "rollout"}]
        /\ actorOnGpu' \in [Ranks -> BOOLEAN] /\ optimizerOnGpu' \in BOOLEAN
    BY <1>23, SomeWeights DEF Crash, FreshEngine, Fresh
  <2>3. /\ served' \in [Servers -> SUBSET Weights] /\ prefixCache' \in [Servers -> SUBSET Weights]
        /\ base' \in [Ranks -> BOOLEAN] /\ onGpu' \in [Ranks -> SUBSET EngineMemory]
        /\ reset' \in SUBSET Servers
    BY <1>23 DEF Crash
  <2>4. /\ pc' \in {"load", "sleep"} /\ purpose' = "boot" /\ reward' = "none"
        /\ globalStep' \in 0 .. TotalSteps /\ teacher' \in 0 .. TotalSteps
    BY <1>23 DEF Crash, Fresh, Boot
  <2>5. /\ policy' \in Policies /\ mini' \in 0 .. UpdateSteps
        /\ crashes' \in 0 .. MaxCrashes /\ config' \in Configs /\ saved' = saved
    BY <1>23, SomeWeights DEF Crash
  <2>6. improved' \in BOOLEAN
    BY <1>23, Zenon DEF Crash
  <2>7. QED
    BY <1>23, <2>1, <2>2, <2>3, <2>4, <2>5, <2>6 DEF Crash
<1>24. CASE Terminated \/ UNCHANGED vars
  BY <1>24 DEF Terminated, vars, driver, durables, updating, residency, engines, servers
<1>25. QED
  BY <1>1, <1>2, <1>3, <1>4, <1>5, <1>6, <1>7, <1>8, <1>9, <1>10, <1>11, <1>12, <1>13, <1>14,
    <1>15, <1>16, <1>17, <1>18, <1>19, <1>20, <1>21, <1>22, <1>23, <1>24 DEF Next, Progress

\* The counts.
LEMMA StepStep ==
    ASSUME Inv, [Next]_vars PROVE StepInv'
<1> USE HybridTrainerAssumption DEF Inv, HybridTypeOK, StepInv, BatchPhases, Pending,
    AfterSleep, Boot, Fresh, Policies
<1>1. ASSUME NEW r \in Ranks, Collect(r) PROVE StepInv'
  BY <1>1 DEF Collect, driver, durables, updating, servers
<1>2. ASSUME NEW r \in Ranks, ResumeWeights(r) PROVE StepInv'
  BY <1>2 DEF ResumeWeights, driver, durables, updating, residency, servers
<1>3. ASSUME NEW r \in Ranks, UpdateWeights(r) PROVE StepInv'
  BY <1>3 DEF UpdateWeights, driver, durables, updating, residency, servers
<1>4. ASSUME NEW r \in Ranks, ResumeCache(r) PROVE StepInv'
  BY <1>4 DEF ResumeCache, driver, durables, updating, residency, servers
<1>5. ASSUME NEW r \in Ranks, TrainerMode(r) PROVE StepInv'
  BY <1>5 DEF TrainerMode, driver, durables, updating, residency, servers
<1>6. ASSUME NEW s \in Servers, Generate(s) PROVE StepInv'
  BY <1>6 DEF Generate, driver, durables, updating, residency, engines
<1>7. ASSUME NEW s \in Servers, ResetPrefixCache(s) PROVE StepInv'
  BY <1>7 DEF ResetPrefixCache, driver, durables, updating, residency, engines
<1>8. CASE Woken
  BY <1>8 DEF Woken, durables, updating, residency, engines
<1>9. CASE Generated
  BY <1>9 DEF Generated, durables, updating, residency, engines, servers
<1>10. CASE Slept
  BY <1>10 DEF Slept, durables, updating, residency, engines, servers
<1>11. CASE Load
  BY <1>11 DEF Load, durables, engines, servers
<1>12. CASE NextStep
  BY <1>12 DEF NextStep, durables, updating, residency, engines, servers
<1>13. CASE StartReward
  BY <1>13 DEF StartReward, durables, updating, residency, engines, servers
<1>14. CASE RewardReady
  BY <1>14 DEF RewardReady, durables, updating, residency, engines, servers
<1>15. CASE OldLogProb
  BY <1>15 DEF OldLogProb, durables, updating, engines, servers
<1>16. CASE Advantage
  BY <1>16 DEF Advantage, durables, updating, engines, servers
<1>17. CASE SkipUpdate
  BY <1>17 DEF SkipUpdate, durables, updating, residency, engines, servers
<1>18. CASE BeginUpdate
  BY <1>18 DEF BeginUpdate, durables, engines, servers
<1>19. CASE OptimizerStep
  BY <1>19 DEF OptimizerStep, driver, durables, residency, engines, servers
<1>20. CASE EndUpdate
  <2>1. teacher' <= globalStep' /\ globalStep' = globalStep
    BY <1>20, NatPolicy DEF EndUpdate, TeacherAfter
  <2>2. QED
    BY <1>20, <2>1, NatPolicy DEF EndUpdate, durables
<1>21. CASE Validate
  BY <1>21 DEF Validate, durables, updating, residency, engines, servers
<1>22. CASE Save
  BY <1>22 DEF Save, updating, engines, servers
<1>23. CASE Crash
  BY <1>23 DEF Crash
<1>24. CASE Terminated \/ UNCHANGED vars
  BY <1>24 DEF Terminated, vars, driver, durables, updating, residency, engines, servers
<1>25. QED
  BY <1>1, <1>2, <1>3, <1>4, <1>5, <1>6, <1>7, <1>8, <1>9, <1>10, <1>11, <1>12, <1>13, <1>14,
    <1>15, <1>16, <1>17, <1>18, <1>19, <1>20, <1>21, <1>22, <1>23, <1>24 DEF Next, Progress

LEMMA InvStep == Inv /\ [Next]_vars => Inv'
  BY TypeStep, StepStep, EngineStep, ServerStep, BatchStep, ResidencyStep DEF Inv

-----------------------------------------------------------------------------
(* Theorems *)

\* Every variable keeps its type: in particular the policy never takes more
\* optimizer steps than the training steps have mini-batches, whatever is
\* lost and repeated.
THEOREM TypeCorrect == Spec => []HybridTypeOK
<1>1. Inv => HybridTypeOK
  BY DEF Inv
<1>2. QED
  BY InitInv, InvStep, <1>1, PTL DEF Spec

\* Whatever is trained on or validated comes from the current policy alone:
\* the engines are never stale, and neither are their prefix caches.
THEOREM DataIsOnPolicy == Spec => []OnPolicyData
<1>1. Inv => OnPolicyData
  BY DEF Inv, OnPolicyData, ServerInv, BatchInv, BatchPhases
<1>2. QED
  BY InitInv, InvStep, <1>1, PTL DEF Spec

\* The trainer and the rollout engines take turns on the GPU.
THEOREM GpuIsExclusive == Spec => []GpuExclusive
<1>1. Inv => GpuExclusive
  BY DEF Inv, GpuExclusive, EngineInv, ResidencyInv
<1>2. QED
  BY InitInv, InvStep, <1>1, PTL DEF Spec

\* The teacher of a batch stays what it was until the batch is learned.
THEOREM TeacherIsSteady == Spec => []TeacherFollows
<1>1. Inv => TeacherFollows
  BY DEF Inv, TeacherFollows, BatchInv
<1>2. QED
  BY InitInv, InvStep, <1>1, PTL DEF Spec

-----------------------------------------------------------------------------
(* The abstract specification *)

\* What the abstract specification sees.
SeenPolicy == IF pc = "load" \/ purpose = "boot" THEN saved.policy ELSE policy
SeenBatch ==
    IF pc \in {"reward", "log_prob", "advantage", "update", "mini_batches"}
    THEN batch.sampledBy ELSE {}
Seen == <<SeenPolicy, teacher, SeenBatch, saved.policy>>

\* A step of the trainer takes, improves, finishes, keeps or loses a batch
\* as PolicyIteration allows, or nothing of it can be seen.
LEMMA IterationStep ==
    ASSUME Inv, Inv', Next PROVE Iteration!Next \/ UNCHANGED Seen
<1> USE DEF Inv, SeenPolicy, SeenBatch, Seen, BatchPhases
<1>1. CASE Slept
  <2>1. CASE purpose = "train"
    <3>1. batch'.sampledBy = {policy} /\ pc' = "reward" /\ purpose' = "train"
      BY <1>1, <2>1 DEF Slept, AfterSleep, BatchInv, updating
    <3>2. Iteration!Sample
      BY <1>1, <2>1, <3>1 DEF Slept, Iteration!Sample, updating, durables
    <3>3. QED
      BY <3>2 DEF Iteration!Next
  <2>2. CASE purpose # "train"
    BY <1>1, <2>2 DEF Slept, AfterSleep, HybridTypeOK, updating, durables, StepInv
  <2>3. QED
    BY <2>1, <2>2
<1>2. CASE OptimizerStep
  <2>1. PICK p \in Nat : batch.sampledBy = {p} /\ p <= policy /\ policy <= p + mini
    BY <1>2 DEF OptimizerStep, BatchInv
  <2>2. policy < p + UpdateSteps
    BY <1>2, <2>1, NatPolicy, HybridTrainerAssumption DEF OptimizerStep
  <2>3. purpose # "boot" /\ purpose' = purpose /\ pc = "mini_batches" /\ pc' = pc /\ batch' = batch
    BY <1>2 DEF OptimizerStep, StepInv, driver
  <2>4. CASE policy' = policy + 1
    <3>1. Iteration!Improve
      BY <1>2, <2>1, <2>2, <2>3, <2>4 DEF OptimizerStep, Iteration!Improve, durables
    <3>2. QED
      BY <3>1 DEF Iteration!Next
  <2>5. CASE policy' = policy
    BY <1>2, <2>3, <2>5 DEF OptimizerStep, durables
  <2>6. QED
    BY <1>2, <2>4, <2>5 DEF OptimizerStep
<1>3. CASE EndUpdate
  <2>1. PICK p \in Nat : batch.sampledBy = {p} /\ p <= policy /\ (improved <=> p < policy)
    BY <1>3 DEF EndUpdate, BatchInv
  <2>2. teacher' = teacher \/ (policy \notin {p} /\ teacher' = teacher + 1)
    BY <1>3, <2>1, NatPolicy DEF EndUpdate, TeacherAfter
  <2>3. Iteration!Finish
    BY <1>3, <2>1, <2>2 DEF EndUpdate, Iteration!Finish, durables, StepInv
  <2>4. QED
    BY <2>3 DEF Iteration!Next
<1>4. CASE SkipUpdate
  <2>1. Iteration!Finish
    BY <1>4 DEF SkipUpdate, Iteration!Finish, BatchInv, StepInv, durables, updating
  <2>2. QED
    BY <2>1 DEF Iteration!Next
<1>5. CASE Save
  <2>1. CASE saved' = saved
    BY <1>5, <2>1 DEF Save, updating, StepInv
  <2>2. CASE saved' = [step |-> globalStep, policy |-> policy]
    <3>1. Iteration!Keep
      BY <1>5, <2>2 DEF Save, Iteration!Keep, updating, StepInv
    <3>2. QED
      BY <3>1 DEF Iteration!Next
  <2>3. QED
    BY <1>5, <2>1, <2>2 DEF Save
<1>6. CASE Crash
  <2>1. Iteration!Restart
    BY <1>6 DEF Crash, Fresh, Boot, Iteration!Restart
  <2>2. QED
    BY <2>1 DEF Iteration!Next
<1>7. CASE Load
  BY <1>7 DEF Load, durables
<1>8. CASE NextStep
  BY <1>8 DEF NextStep, StepInv, durables, updating
<1>9. CASE StartReward \/ RewardReady \/ OldLogProb \/ Advantage \/ BeginUpdate \/ Validate
  <2>1. batch'.sampledBy = batch.sampledBy
    BY <1>9 DEF StartReward, RewardReady, OldLogProb, Advantage, BeginUpdate, Validate,
      HybridTypeOK
  <2>2. CASE StartReward \/ OldLogProb \/ Advantage
    BY <2>1, <2>2 DEF StartReward, OldLogProb, Advantage, durables, updating
  <2>3. CASE RewardReady
    BY <2>1, <2>3 DEF RewardReady, durables, updating
  <2>4. CASE BeginUpdate
    BY <2>1, <2>4 DEF BeginUpdate, durables
  <2>5. CASE Validate
    BY <2>1, <2>5 DEF Validate, durables, updating, StepInv
  <2>6. QED
    BY <1>9, <2>2, <2>3, <2>4, <2>5
<1>10. CASE Woken \/ Generated \/ Terminated
  BY <1>10 DEF Woken, Generated, Terminated, vars, driver, durables, updating
<1>11. ASSUME NEW r \in Ranks,
              Collect(r) \/ ResumeWeights(r) \/ UpdateWeights(r) \/ ResumeCache(r) \/ TrainerMode(r)
       PROVE  UNCHANGED Seen
  BY <1>11 DEF Collect, ResumeWeights, UpdateWeights, ResumeCache, TrainerMode, driver, durables,
    updating
<1>12. ASSUME NEW s \in Servers, Generate(s) \/ ResetPrefixCache(s)
       PROVE  UNCHANGED Seen
  BY <1>12 DEF Generate, ResetPrefixCache, driver, durables, updating
<1>13. QED
  BY <1>1, <1>2, <1>3, <1>4, <1>5, <1>6, <1>7, <1>8, <1>9, <1>10, <1>11, <1>12 DEF Next, Progress

\* The hybrid trainer, with its mode switches, its skipped and repeated steps
\* and its restarts, is on-policy training.
THEOREM ImplementsOnPolicyTraining == Spec => ImplementsIteration
<1>1. Init => Iteration!Init
  BY DEF Init, Fresh, Boot, Iteration!Init
<1>2. Inv /\ Inv' /\ [Next]_vars => [Iteration!Next]_Seen
  <2> SUFFICES ASSUME Inv, Inv', [Next]_vars
               PROVE  Iteration!Next \/ UNCHANGED Seen
    OBVIOUS
  <2>1. CASE UNCHANGED vars
    BY <2>1 DEF vars, driver, durables, updating, Seen, SeenPolicy, SeenBatch
  <2>2. QED
    BY <2>1, IterationStep
<1>3. QED
  BY InitInv, InvStep, <1>1, <1>2, PTL
     DEF Spec, ImplementsIteration, Iteration!Spec, Iteration!vars, Seen, SeenPolicy, SeenBatch

=============================================================================
