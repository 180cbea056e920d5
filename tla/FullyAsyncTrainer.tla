------------------------- MODULE FullyAsyncTrainer -------------------------
(***************************************************************************)
(* FullyAsyncTrainer (verl/experimental/fully_async_policy/                *)
(* fully_async_trainer.py): fit collects required_samples samples from the *)
(* message queue, trains, and after every trigger_parameter_sync_step      *)
(* batches gives the weights to the rollouter. Each call it makes blocks   *)
(* it, so an action is what it does between two calls that can wait.       *)
(***************************************************************************)
EXTENDS ParameterSynchronizer

CONSTANT TestFreq      \* rollout.test_freq

\* fit() divides by it.
ASSUME TestFreqAssumption == TestFreq \in Nat \ {0}

VARIABLES
    trainer,         \* where fit is
    batch,           \* queue_samples of _get_samples_from_queue
    localStep,       \* self.local_trigger_step
    trainerVersion,  \* self.current_param_version
    finalSync,       \* fit is past its loop, in the additional last sync
    logged,          \* param_version of the last validation result logged
    trained          \* the samples trained on

trainerVars == <<trainer, batch, localStep, trainerVersion, finalSync, logged, trained>>

TrainerInit ==
    /\ trainer = "start"
    /\ batch = <<>>
    /\ localStep = 1
    /\ trainerVersion = 0
    /\ finalSync = FALSE
    /\ logged = 0
    /\ trained = {}

SampleIds(entries) == {entries[i].id : i \in DOMAIN entries}

\* Variants of the definitions below that a plausible mistake would make of
\* them end in _F; no specification uses one.
LogValidation_F ==
    /\ MQ!GetValidate
    /\ logged' = IF valQueue = <<>> THEN logged ELSE valQueue[Len(valQueue)]

\* _log_validation_data: at most one result per call.
LogValidation ==
    /\ MQ!GetValidate
    /\ logged' = IF valQueue = <<>> THEN logged ELSE Head(valQueue)

\* fit, before its loop.
StartFit ==
    /\ trainer = "start"
    /\ LogValidation
    /\ trainer' = "collect"
    /\ UNCHANGED <<batch, localStep, trainerVersion, finalSync, trained, syncVars,
                   rollouterVars>>

\* _get_samples_from_queue waits in get_sample.
WaitForQueue ==
    /\ trainer = "collect"
    /\ MQ!WaitForSample("trainer")
    /\ UNCHANGED <<trainerVars, syncVars, rollouterVars>>

BatchFull_F == Len(batch) >= RequiredSamples

\* The loop of _get_samples_from_queue ends with the next sample.
BatchFull == Len(batch) + 1 >= RequiredSamples

\* _get_samples_from_queue receives a sample.
CollectSample ==
    /\ trainer = "collect"
    /\ queue # <<>> /\ Head(queue).id # EndSignal
    /\ MQ!GetSample("trainer", Head(queue))
    /\ batch' = Append(batch, Head(queue))
    /\ trainer' = IF BatchFull THEN "train" ELSE "collect"
    /\ UNCHANGED <<localStep, trainerVersion, finalSync, logged, trained, syncVars,
                   rollouterVars>>

\* It receives None: the samples collected so far are given up, the loop ends.
CollectEndSignal ==
    /\ trainer = "collect"
    /\ queue # <<>> /\ Head(queue).id = EndSignal
    /\ MQ!GetSample("trainer", Head(queue))
    /\ batch' = <<>>
    /\ trainer' = "finalWait"
    /\ UNCHANGED <<localStep, trainerVersion, finalSync, logged, trained, syncVars,
                   rollouterVars>>

\* The training step and the head of _trigger_parameter_sync_after_step.
TrainBatch ==
    /\ trainer = "train"
    /\ trained' = trained \cup SampleIds(batch)
    /\ batch' = <<>>
    /\ IF localStep < TriggerSyncStep
         THEN /\ localStep' = localStep + 1
              /\ trainer' = "log"
              /\ UNCHANGED trainerVersion
         ELSE /\ localStep' = 1
              /\ trainerVersion' = trainerVersion + 1
              /\ trainer' = "waitValid"
    /\ UNCHANGED <<finalSync, logged, syncVars, rollouterVars, queueVars>>

\* wait_last_valid has returned: sync_weights is called.
CallSync ==
    /\ trainer = "waitValid"
    /\ LastSyncOver
    /\ BeginSync(trainerVersion)
    /\ trainer' = "syncing"
    /\ UNCHANGED <<batch, localStep, trainerVersion, finalSync, logged, trained>>

\* sync_weights returns to the trainer.
EndSync ==
    /\ trainer = "syncing"
    /\ TransferWeights
    /\ trainer' = IF finalSync THEN "lastWait" ELSE "log"
    /\ UNCHANGED <<batch, localStep, trainerVersion, finalSync, logged, trained>>

\* The tail of fit's loop.
LogStep ==
    /\ trainer = "log"
    /\ LogValidation
    /\ trainer' = "collect"
    /\ UNCHANGED <<batch, localStep, trainerVersion, finalSync, trained, syncVars,
                   rollouterVars>>

\* After the loop: wait_last_valid, the log, and one more sync with
\* validation if something was trained since the last validated version.
FinalWait ==
    /\ trainer = "finalWait"
    /\ LastSyncOver
    /\ LogValidation
    /\ IF trainerVersion % TestFreq # 0 \/ localStep > 1
         THEN /\ trainerVersion' = trainerVersion + 1
              /\ localStep' = 1
              /\ finalSync' = TRUE
              /\ trainer' = "waitValid"
         ELSE trainer' = "finished" /\ UNCHANGED <<trainerVersion, localStep, finalSync>>
    /\ UNCHANGED <<batch, trained, syncVars, rollouterVars>>

LastWait ==
    /\ trainer = "lastWait"
    /\ LastSyncOver
    /\ LogValidation
    /\ trainer' = "finished"
    /\ UNCHANGED <<batch, localStep, trainerVersion, finalSync, trained, syncVars,
                   rollouterVars>>

Trainer ==
    \/ StartFit \/ WaitForQueue \/ CollectSample \/ CollectEndSignal \/ TrainBatch
    \/ CallSync \/ EndSync \/ LogStep \/ FinalWait \/ LastWait
=============================================================================
