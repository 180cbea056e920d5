----------------------------- MODULE HybridTrainer -----------------------------
(***************************************************************************)
(* RayPPOTrainer.fit with the hybrid engine: the same ranks train the      *)
(* actor and run the rollout engines, so every generation switches all of  *)
(* them to rollout mode, which sends them the actor's weights, and back to *)
(* trainer mode. One step generates a batch, scores it with the reward     *)
(* function and the teacher of SDPO or TASD, and updates the actor in      *)
(* mini-batches. Ranks are the processes of ActorRolloutRefWorker, servers *)
(* the vLLM servers in front of them; the driver runs fit.                 *)
(*                                                                         *)
(* A policy is the number of optimizer steps in its weights, an EMA        *)
(* teacher the number of its updates. A save is one step here (module      *)
(* Checkpoint has the parts of one).                                       *)
(***************************************************************************)
EXTENDS Integers, FiniteSets

CONSTANTS
    Ranks, Servers,
    ServerOf,         \* the server each rank runs an engine of
    Configs,          \* configurations to run, see Config
    TotalSteps, UpdateSteps,    \* training steps; mini-batches times ppo_epochs
    CriticWarmup, SaveFreq, TestFreq, ValBeforeTrain,
    MaxCrashes        \* bound of this model: crashes in a run

\* free_cache_engine, param_offload and optimizer_offload, LoRA, the level
\* vLLM sleeps at (2 gives up the weights), launch_reward_fn_async.
Config ==
    [loss : {"vanilla", "sdpo", "tasd"}, teacher : {"ema", "trust-region", "none"},
     freeCache : BOOLEAN, offload : BOOLEAN, lora : BOOLEAN, sleepLevel : {1, 2},
     asyncReward : BOOLEAN]

ASSUME HybridTrainerAssumption ==
    /\ IsFiniteSet(Ranks) /\ Ranks # {} /\ ServerOf \in [Ranks -> Servers]
    /\ \A s \in Servers : \E r \in Ranks : ServerOf[r] = s
    /\ Configs \subseteq Config
    /\ TotalSteps \in Nat \ {0} /\ UpdateSteps \in Nat \ {0} /\ MaxCrashes \in Nat
    /\ CriticWarmup \in Nat /\ SaveFreq \in Nat /\ TestFreq \in Nat /\ ValBeforeTrain \in BOOLEAN

VARIABLES
    config,           \* fixed
    (* the driver *)
    pc, globalStep,
    purpose,          \* what is being generated for: "boot" (nothing), "before" (val_before_train),
                      \* "val", "train"
    reward,           \* the reward of the batch
    batch,            \* sampledBy, old (old_log_probs), score: who computed each column
    crashes,
    saved,            \* the last checkpoint
    (* the trainer's side of the ranks *)
    policy, teacher,
    mini, improved,   \* update_policy: optimizer steps tried, and did_update
    actorOnGpu, optimizerOnGpu,
    (* the rollout side *)
    mode,             \* how far each rank has switched
    engine, base,     \* the policy in its engine, and whether what LoRA does not train is there
    onGpu,            \* of the engine's "weights" and "kv_cache", what holds memory
    served,           \* the policies behind what each server has answered
    prefixCache,      \* the policies behind the blocks it would reuse
    reset             \* servers that have reset it since the responses came

driver == <<pc, globalStep, purpose, reward, batch>>
durables == <<crashes, saved>>
updating == <<policy, teacher, mini, improved>>
residency == <<actorOnGpu, optimizerOnGpu>>
engines == <<mode, engine, base, onGpu>>
servers == <<served, prefixCache, reset>>
vars == <<config, driver, durables, updating, residency, engines, servers>>

Unknown == -1         \* weights that no training step wrote
NoScore == [ema |-> 0, student |-> Unknown]
NoBatch == [sampledBy |-> {}, old |-> Unknown, score |-> NoScore]

EngineMemory == {"weights", "kv_cache"}
Fill(S, x) == [y \in S |-> x]

UsesTeacher == config.loss # "vanilla"
Ema == UsesTeacher /\ config.teacher = "ema"

\* Dummy weights until the first wake-up, except with LoRA, which requires
\* the base model to be loaded; the adapter starts as nothing.
FreshEngine(c) == IF c.lora THEN 0 ELSE Unknown

Boot(c) == IF c.freeCache THEN "sleep" ELSE "load"

\* init_workers; the engines are awake when they have been built.
Fresh(c) ==
    [pc |-> Boot(c), mode |-> IF c.freeCache THEN "rollout" ELSE "trainer"]

Init ==
    /\ config \in Configs
    /\ pc = Fresh(config).pc /\ globalStep = 0 /\ purpose = "boot"
    /\ reward = "none" /\ batch = NoBatch
    /\ crashes = 0 /\ saved = [step |-> 0, policy |-> 0]
    /\ policy = 0 /\ teacher = 0 /\ mini = 0 /\ improved = FALSE
    /\ actorOnGpu = Fill(Ranks, ~ config.offload) /\ optimizerOnGpu = ~ config.offload
    /\ mode = Fill(Ranks, Fresh(config).mode)
    /\ engine = Fill(Ranks, FreshEngine(config)) /\ base = Fill(Ranks, TRUE)
    /\ onGpu = Fill(Ranks, EngineMemory)
    /\ served = Fill(Servers, {}) /\ prefixCache = Fill(Servers, {}) /\ reset = {}

Due(freq) == freq > 0 /\ (globalStep = TotalSteps \/ globalStep % freq = 0)

-----------------------------------------------------------------------------
(* wake_up: AgentLoopManager, the replicas, their servers and the ranks *)

\* asyncio.gather calls every replica, server and rank.
Called_F(r) == pc = "wake" /\ \A q \in Ranks : mode[q] = "trainer" \/ q = r \/ mode[q] = "rollout"
Called(r) == pc = "wake"

\* rollout_mode loads the parameters, takes their state dict and offloads
\* them again.
Collect(r) ==
    /\ Called(r) /\ mode[r] = "trainer"
    /\ mode' = [mode EXCEPT ![r] = "collected"]
    /\ actorOnGpu' = [actorOnGpu EXCEPT ![r] = ~ config.offload]
    /\ UNCHANGED <<config, driver, durables, updating, optimizerOnGpu, engine, base, onGpu, servers>>

ResumeWeights(r) ==
    /\ mode[r] = "collected"
    /\ mode' = [mode EXCEPT ![r] = "resumed"]
    /\ onGpu' = [onGpu EXCEPT ![r] = @ \cup {"weights"}]
    /\ UNCHANGED <<config, driver, durables, updating, residency, engine, base, servers>>

\* Gathering the full tensors takes every rank. With LoRA only the adapter is
\* sent, after the base model if sleeping has given it up.
UpdateWeights_F(r) ==
    /\ mode[r] = "resumed"
    /\ \A q \in Ranks : mode[q] \in {"resumed", "updated", "rollout"}
    /\ mode' = [mode EXCEPT ![r] = "updated"]
    /\ engine' = [engine EXCEPT ![r] = IF config.freeCache \/ @ = Unknown THEN policy ELSE @]
    /\ base' = [base EXCEPT ![r] = @ \/ ~ config.lora \/ config.sleepLevel = 2]
    /\ UNCHANGED <<config, driver, durables, updating, residency, onGpu, servers>>
UpdateWeights(r) ==
    /\ mode[r] = "resumed"
    /\ \A q \in Ranks : mode[q] \in {"resumed", "updated", "rollout"}
    /\ mode' = [mode EXCEPT ![r] = "updated"]
    /\ engine' = [engine EXCEPT ![r] = policy]
    /\ base' = [base EXCEPT ![r] = @ \/ ~ config.lora \/ config.sleepLevel = 2]
    /\ UNCHANGED <<config, driver, durables, updating, residency, onGpu, servers>>

ResumeCache(r) ==
    /\ mode[r] = "updated"
    /\ mode' = [mode EXCEPT ![r] = "rollout"]
    /\ onGpu' = [onGpu EXCEPT ![r] = EngineMemory]
    /\ UNCHANGED <<config, driver, durables, updating, residency, engine, base, servers>>

Woken ==
    /\ pc = "wake" /\ \A r \in Ranks : mode[r] = "rollout"
    /\ pc' = "generate" /\ served' = Fill(Servers, {}) /\ reset' = {}
    /\ UNCHANGED <<config, globalStep, purpose, reward, batch, durables, updating, residency,
                   engines, prefixCache>>

-----------------------------------------------------------------------------
(* generate_sequences, and sleep *)

\* The policy a rank's engine runs.
Running(r) == IF base[r] THEN engine[r] ELSE Unknown

\* The responses of a server, which also reuses the prefixes it has cached.
Generate(s) ==
    /\ pc = "generate" /\ served[s] = {}
    /\ LET answer == prefixCache[s] \cup {Running(r) : r \in {q \in Ranks : ServerOf[q] = s}}
       IN  /\ served' = [served EXCEPT ![s] = answer]
           /\ prefixCache' = [prefixCache EXCEPT ![s] = answer]
    /\ UNCHANGED <<config, driver, durables, updating, residency, engines, reset>>

Generated ==
    /\ pc = "generate" /\ \A s \in Servers : served[s] # {}
    /\ pc' = "sleep"
    /\ UNCHANGED <<config, globalStep, purpose, reward, batch, durables, updating, residency,
                   engines, servers>>

\* A server resets its prefix cache before it calls its ranks.
ResetPrefixCache_F(s) ==
    /\ pc = "sleep" /\ s \notin reset
    /\ reset' = reset \cup {s}
    /\ prefixCache' = [prefixCache EXCEPT ![s] = IF config.freeCache THEN {} ELSE @]
    /\ UNCHANGED <<config, driver, durables, updating, residency, engines, served>>
ResetPrefixCache(s) ==
    /\ pc = "sleep" /\ s \notin reset
    /\ reset' = reset \cup {s}
    /\ prefixCache' = [prefixCache EXCEPT ![s] = {}]
    /\ UNCHANGED <<config, driver, durables, updating, residency, engines, served>>

\* trainer_mode; only free_cache_engine gives the engine's memory back.
TrainerMode_F(r) ==
    /\ pc = "sleep" /\ ServerOf[r] \in reset /\ mode[r] = "rollout"
    /\ mode' = [mode EXCEPT ![r] = "trainer"]
    /\ onGpu' = [onGpu EXCEPT ![r] = IF config.freeCache THEN @ \ {"kv_cache"} ELSE @]
    /\ UNCHANGED <<config, driver, durables, updating, residency, engine, base, servers>>
TrainerMode(r) ==
    /\ pc = "sleep" /\ ServerOf[r] \in reset /\ mode[r] = "rollout"
    /\ mode' = [mode EXCEPT ![r] = "trainer"]
    /\ IF config.freeCache
       THEN /\ onGpu' = [onGpu EXCEPT ![r] = {}]
            /\ engine' = [engine EXCEPT ![r] = IF config.sleepLevel = 2 THEN Unknown ELSE @]
            /\ base' = [base EXCEPT ![r] = @ /\ config.sleepLevel = 1]
       ELSE UNCHANGED <<onGpu, engine, base>>
    /\ UNCHANGED <<config, driver, durables, updating, residency, servers>>

\* What the driver does next; the responses of a batch are its own.
AfterSleep == [boot |-> "load", before |-> "next", val |-> "save", train |-> "reward"]

Slept ==
    /\ pc = "sleep" /\ \A r \in Ranks : mode[r] = "trainer"
    /\ pc' = AfterSleep[purpose]
    /\ batch' = IF purpose = "train"
                THEN [batch EXCEPT !.sampledBy = UNION {served[s] : s \in Servers}]
                ELSE batch
    /\ UNCHANGED <<config, globalStep, purpose, reward, durables, updating, residency, engines,
                   servers>>

-----------------------------------------------------------------------------
(* One step of fit *)

\* _load_checkpoint, then _validate if val_before_train.
Load ==
    /\ pc = "load"
    /\ globalStep' = saved.step /\ policy' = saved.policy
    /\ actorOnGpu' = Fill(Ranks, ~ config.offload) /\ optimizerOnGpu' = ~ config.offload
    /\ IF ValBeforeTrain
       THEN purpose' = "before" /\ pc' = "wake"
       ELSE pc' = "next" /\ UNCHANGED purpose
    /\ UNCHANGED <<config, reward, batch, durables, teacher, mini, improved, engines, servers>>

\* The next batch, until the last step, or none is left after a restart.
NextStep ==
    /\ pc = "next"
    /\ batch' = NoBatch /\ reward' = "none"
    /\ IF globalStep = TotalSteps
       THEN pc' = "done" /\ UNCHANGED <<globalStep, purpose>>
       ELSE pc' = "wake" /\ purpose' = "train" /\ globalStep' = globalStep + 1
    /\ UNCHANGED <<config, durables, updating, residency, engines, servers>>

\* launch_reward_fn_async starts a task of its own.
StartReward ==
    /\ pc = "reward"
    /\ reward' = IF config.asyncReward THEN "running" ELSE "ready"
    /\ pc' = "log_prob"
    /\ UNCHANGED <<config, globalStep, purpose, batch, durables, updating, residency, engines,
                   servers>>

RewardReady ==
    /\ reward = "running"
    /\ reward' = "ready"
    /\ UNCHANGED <<config, pc, globalStep, purpose, batch, durables, updating, residency,
                   engines, servers>>

\* compute_log_prob loads the parameters and offloads them again, and so
\* does compute_teacher_log_probs.
OldLogProb ==
    /\ pc = "log_prob"
    /\ batch' = [batch EXCEPT !.old = policy]
    /\ actorOnGpu' = Fill(Ranks, ~ config.offload)
    /\ pc' = "advantage"
    /\ UNCHANGED <<config, globalStep, purpose, reward, durables, updating, optimizerOnGpu,
                   engines, servers>>

\* The teacher as it scores: the EMA of the student in the reference module,
\* the reference mixed with the student itself, or the student.
Score ==
    [ema |-> IF Ema THEN teacher ELSE 0, student |-> IF Ema THEN Unknown ELSE policy]

\* The reward is awaited; TASD needs the teacher for its token rewards, SDPO
\* for its loss (the forward pass before update_actor).
Advantage ==
    /\ pc = "advantage" /\ reward = "ready"
    /\ batch' = [batch EXCEPT !.score = IF UsesTeacher THEN Score ELSE NoScore]
    /\ actorOnGpu' = Fill(Ranks, ~ config.offload)
    /\ pc' = "update"
    /\ UNCHANGED <<config, globalStep, purpose, reward, durables, updating, optimizerOnGpu,
                   engines, servers>>

\* The critic is warmed up before the actor is updated.
SkipUpdate ==
    /\ pc = "update" /\ globalStep < CriticWarmup
    /\ pc' = "validate"
    /\ UNCHANGED <<config, globalStep, purpose, reward, batch, durables, updating, residency,
                   engines, servers>>

-----------------------------------------------------------------------------
(* update_actor *)

BeginUpdate ==
    /\ pc = "update" /\ CriticWarmup <= globalStep
    /\ actorOnGpu' = Fill(Ranks, TRUE) /\ optimizerOnGpu' = TRUE
    /\ mini' = 0 /\ improved' = FALSE
    /\ pc' = "mini_batches"
    /\ UNCHANGED <<config, globalStep, purpose, reward, batch, durables, policy, teacher,
                   engines, servers>>

\* _optimizer_step: a gradient that is not finite is skipped, by all ranks.
OptimizerStep ==
    /\ pc = "mini_batches" /\ mini < UpdateSteps
    /\ mini' = mini + 1
    /\ \/ policy' = policy + 1 /\ improved' = TRUE
       \/ UNCHANGED <<policy, improved>>
    /\ UNCHANGED <<config, driver, durables, teacher, residency, engines, servers>>

\* _update_teacher, once per update, and the offloading.
TeacherAfter_F == IF Ema THEN teacher + 1 ELSE teacher
TeacherAfter == IF Ema /\ improved THEN teacher + 1 ELSE teacher

EndUpdate ==
    /\ pc = "mini_batches" /\ mini = UpdateSteps
    /\ teacher' = TeacherAfter
    /\ actorOnGpu' = Fill(Ranks, ~ config.offload) /\ optimizerOnGpu' = ~ config.offload
    /\ pc' = "validate"
    /\ UNCHANGED <<config, globalStep, purpose, reward, batch, durables, policy, mini, improved,
                   engines, servers>>

-----------------------------------------------------------------------------
(* Validation, checkpoints and crashes *)

Validate ==
    /\ pc = "validate"
    /\ IF Due(TestFreq)
       THEN purpose' = "val" /\ pc' = "wake"
       ELSE pc' = "save" /\ UNCHANGED purpose
    /\ UNCHANGED <<config, globalStep, reward, batch, durables, updating, residency, engines,
                   servers>>

\* save_checkpoint writes the actor, its optimizer and its scheduler.
Save ==
    /\ pc = "save"
    /\ pc' = "next"
    /\ IF Due(SaveFreq)
       THEN /\ saved' = [step |-> globalStep, policy |-> policy]
            /\ actorOnGpu' = Fill(Ranks, ~ config.offload)
       ELSE UNCHANGED <<saved, actorOnGpu>>
    /\ UNCHANGED <<config, globalStep, purpose, reward, batch, crashes, updating,
                   optimizerOnGpu, engines, servers>>

\* The job dies and is started again: every process is new.
Crash ==
    /\ pc # "done" /\ crashes < MaxCrashes
    /\ crashes' = crashes + 1
    /\ pc' = Fresh(config).pc /\ globalStep' = 0 /\ purpose' = "boot"
    /\ reward' = "none" /\ batch' = NoBatch
    /\ policy' = 0 /\ teacher' = 0 /\ mini' = 0 /\ improved' = FALSE
    /\ actorOnGpu' = Fill(Ranks, ~ config.offload) /\ optimizerOnGpu' = ~ config.offload
    /\ mode' = Fill(Ranks, Fresh(config).mode)
    /\ engine' = Fill(Ranks, FreshEngine(config)) /\ base' = Fill(Ranks, TRUE)
    /\ onGpu' = Fill(Ranks, EngineMemory)
    /\ served' = Fill(Servers, {}) /\ prefixCache' = Fill(Servers, {}) /\ reset' = {}
    /\ UNCHANGED <<config, saved>>

Terminated == pc = "done" /\ UNCHANGED vars

Progress ==
    \/ \E r \in Ranks :
          Collect(r) \/ ResumeWeights(r) \/ UpdateWeights(r) \/ ResumeCache(r) \/ TrainerMode(r)
    \/ \E s \in Servers : Generate(s) \/ ResetPrefixCache(s)
    \/ Woken \/ Generated \/ Slept
    \/ Load \/ NextStep \/ StartReward \/ RewardReady \/ OldLogProb \/ Advantage \/ SkipUpdate
    \/ BeginUpdate \/ OptimizerStep \/ EndUpdate \/ Validate \/ Save

Next == Progress \/ Crash \/ Terminated

Spec == Init /\ [][Next]_vars

\* Calls to workers and the reward task end unless the job crashes.
FairSpec == Spec /\ WF_vars(Progress)

-----------------------------------------------------------------------------
(* Properties *)

Policies == 0 .. TotalSteps * UpdateSteps
Weights == {Unknown} \cup Policies

HybridTypeOK ==
    /\ config \in Configs
    /\ pc \in {"load", "wake", "generate", "sleep", "next", "reward", "log_prob", "advantage",
               "update", "mini_batches", "validate", "save", "done"}
    /\ globalStep \in 0 .. TotalSteps /\ purpose \in DOMAIN AfterSleep
    /\ reward \in {"none", "running", "ready"}
    /\ batch \in [sampledBy : SUBSET Weights, old : Weights,
                 score : [ema : 0 .. TotalSteps, student : Weights]]
    /\ crashes \in 0 .. MaxCrashes
    /\ saved \in [step : 0 .. TotalSteps, policy : Policies]
    /\ policy \in Policies /\ teacher \in 0 .. TotalSteps
    /\ mini \in 0 .. UpdateSteps /\ improved \in BOOLEAN
    /\ actorOnGpu \in [Ranks -> BOOLEAN] /\ optimizerOnGpu \in BOOLEAN
    /\ mode \in [Ranks -> {"trainer", "collected", "resumed", "updated", "rollout"}]
    /\ engine \in [Ranks -> Weights] /\ base \in [Ranks -> BOOLEAN]
    /\ onGpu \in [Ranks -> SUBSET EngineMemory]
    /\ served \in [Servers -> SUBSET Weights] /\ prefixCache \in [Servers -> SUBSET Weights]
    /\ reset \in SUBSET Servers

\* What is generated, for training or validation, comes from the policy being
\* trained and from nothing else: no engine with the weights of an earlier
\* step or without them, and no prefix cached under another policy. Training
\* then starts from old_log_probs of that policy.
OnPolicyData ==
    /\ pc = "sleep" => \A s \in Servers : served[s] \subseteq {policy}
    /\ pc \in {"reward", "log_prob", "advantage", "update"} => batch.sampledBy = {policy}
    /\ pc \in {"advantage", "update"} => batch.old = policy

\* The two sides never hold the GPU together: the engine has given up its
\* memory when the actor loads, computes or is saved, and the actor and its
\* optimizer have been offloaded when the engine generates.
GpuExclusive ==
    /\ (config.freeCache /\ pc \in {"load", "next", "log_prob", "advantage", "update",
                                   "mini_batches", "save"})
          => \A r \in Ranks : onGpu[r] = {}
    /\ (config.offload /\ pc = "generate")
          => ~ optimizerOnGpu /\ \A r \in Ranks : ~ actorOnGpu[r]

\* The teacher that scored a batch does not move while the batch is learned:
\* it takes in the student once per update, and only if the student moved.
TeacherFollows ==
    /\ (pc = "mini_batches" /\ Ema) => batch.score.ema = teacher
    /\ teacher <= policy

Iteration == INSTANCE PolicyIteration WITH
    StepsPerBatch <- UpdateSteps, saved <- saved.policy,
    policy <- IF pc = "load" \/ purpose = "boot" THEN saved.policy ELSE policy,
    batch <- IF pc \in {"reward", "log_prob", "advantage", "update", "mini_batches"}
             THEN batch.sampledBy ELSE {}

\* Every optimizer step is taken on a batch of the policy's own, and what a
\* crash undoes goes back to the last save.
ImplementsIteration == Iteration!Spec

\* No switch of the engines waits for ever, and the run ends.
RunCompletes == <>(pc = "done")
=============================================================================
