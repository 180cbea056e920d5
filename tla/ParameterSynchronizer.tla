----------------------- MODULE ParameterSynchronizer -----------------------
(***************************************************************************)
(* ParameterSynchronizer (verl/experimental/fully_async_policy/            *)
(* param_sync.py): sync_weights pauses the rollouter, tells the message    *)
(* queue the new version, moves the weights, and starts                    *)
(* update_param_version and resume without waiting for them;               *)
(* wait_last_valid waits for both.                                         *)
(***************************************************************************)
EXTENDS Rollouter

VARIABLES
    syncVersion,    \* self.current_version
    weightVersion   \* the version of the weights the rollout servers hold

syncVars == <<syncVersion, weightVersion>>

SyncInit == syncVersion = 0 /\ weightVersion = 0

\* sync_weights up to its call of rollouter.pause.
BeginSync(version) ==
    /\ call = "none"
    /\ syncVersion' = version
    /\ call' = "pauseLock"
    /\ lockQ' = Append(lockQ, "sync")
    /\ UNCHANGED <<weightVersion, feedVars, taskVars, procVars, flagVars, counted,
                   monitor, main, queueVars>>

\* A variant of TellQueue that a plausible mistake would make of it; no
\* specification uses it.
TellQueue_F ==
    /\ call = "paused"
    /\ MQ!UpdateVersion(rollVersion)
    /\ call' = "transfer"
    /\ UNCHANGED <<syncVars, feedVars, taskVars, procVars, flagVars, counted, monitor,
                   main, lockQ>>

\* pause has returned: the queue learns the version.
TellQueue ==
    /\ call = "paused"
    /\ MQ!UpdateVersion(syncVersion)
    /\ call' = "transfer"
    /\ UNCHANGED <<syncVars, feedVars, taskVars, procVars, flagVars, counted, monitor,
                   main, lockQ>>

\* The collective transfer of the weights ends; update_param_version is
\* started, and sync_weights returns.
TransferWeights ==
    /\ call = "transfer"
    /\ weightVersion' = syncVersion
    /\ call' = "updateSent"
    /\ UNCHANGED <<syncVersion, feedVars, taskVars, procVars, flagVars, counted, monitor,
                   main, lockQ, queueVars>>

\* wait_last_valid returns: the update and the resume of the last call are over.
LastSyncOver == call = "none"
=============================================================================
