# Verification of the TASD training system

The repository trains language models with reinforcement learning and
self-distillation (TASD, SDPO, on top of `verl`). This directory holds TLA+
models of its control logic, TLC configurations that check them, and proofs of
what matters most. The models cover two training systems and what they share:

- the **fully asynchronous run** (`experimental/fully_async_policy`): a rollouter
  that generates without pause, a trainer that consumes, a queue between them, a
  synchronizer that carries new weights back, servers and agent loops that are
  interrupted for it, and the broadcast of the weights;
- the **synchronous run** of `RayPPOTrainer`, the one TASD uses: the hybrid engine
  that trains and generates on the same GPUs, and the path of a batch through
  dispatch, balancing, teacher contexts and advantages to the optimizer;
- **checkpoints** of the reinforcement-learning and the supervised trainer.

Below, `A/` is `src/verl/experimental/fully_async_policy/` and other paths start
in `src/verl/`.

## 1. Inventory

### The fully asynchronous run

| component | state | operations | what makes it correct |
|---|---|---|---|
| `MessageQueue` (`A/message_queue.py`), an async Ray actor | a bounded deque, `running`, the version, the validation queue, three counters, a lock with a condition | `put_sample` (drops the oldest of a full queue), `get_sample` (waits), `update_param_version`, `clear_queue`, `shutdown`, `put_validate`, `get_validate` | every sample put is accounted for, in order; nobody sleeps while there is something to return |
| `FullyAsyncRollouter` (`A/fully_async_rollouter.py`), an async Ray actor | `pending_queue`, `cancel_queue`, `active_tasks`, `staleness_samples`, the version, `paused`, `running`, `monitor_loop_trigger`, one lock with one condition | coroutines: feeder, processor, monitor, main, one task per sample; remote calls: `pause`, `update_param_version`, `resume` | no sample is duplicated; the look-ahead is bounded; a pause is complete and ends; the stream is closed |
| `ParameterSynchronizer` (`A/param_sync.py`) | `current_version`, the two calls it has started | `sync_weights`, `wait_last_valid` | versions reach queue, servers and rollouter in order, one at a time |
| `FullyAsyncTrainer` (`A/fully_async_trainer.py`) | the batch being collected, `local_trigger_step`, `current_param_version` | `fit`, `_get_samples_from_queue`, `_trigger_parameter_sync_after_step`, `_log_validation_data` | trains whole batches, no sample twice, none too old; logs every validation result; ends |
| `FullyAsyncTaskRunner` (`A/fully_async_main.py`) | the two futures | starts both `fit` methods, waits for both, clears the queue | the run ends |
| partial rollout: servers (`A/vllm_rollout/vllm_async_server.py`), agent loops and their workers (`A/agent_loop/`) | per request: cancel event, output so far; per worker: a cancellation event; per response: tokens, mask, log-probabilities, state of the loop | `generate_for_partial`, `cancel`, `resume`, restoring a loop from its output, scoring | a response keeps its tokens over interruptions, is aligned, scored once, and nothing is generated during a transfer |
| checkpoint engine (`A/checkpoint_engine.py`, `A/fsdp_workers.py`), on every rank | `global_buckets`, `memory_buffers`, a double buffer, a loader thread and its socket | `register_checkpoint`, `update_checkpoint`, `sync_rollout_weights_by_checkpoint` | every parameter is replaced once per transfer; no rank or thread waits for ever |

The rollouter's sample tasks submit responses to agent-loop workers, which ask the
servers for tokens, and call `put_sample`; the trainer blocks in `get_sample`. After
`trigger_parameter_sync_step` batches the trainer calls `wait_last_valid` and
`sync_weights`, which calls `rollouter.pause` and waits for it, tells the queue the
new version, starts the transfer on both worker groups and waits for the rollouter's,
and starts `rollouter.update_param_version` and, depending on it, `rollouter.resume`
without waiting. Validation results come back through the queue, whose length the
rollouter also reads for back-pressure and to reset `staleness_samples`.

Hard in it: one event loop interleaves eight kinds of coroutines at every `await`,
and what was tested before `async with self.lock` may be false after it; the
processor awaits tasks with the lock held; pausing is decided in two places and
undone in two others; weights, versions and counters change at different moments
in different actors; the end of the stream is a `None` in a queue that drops its
oldest element; a generation ends, is cancelled and is resumed by three parties.

### The synchronous run

| component | state | operations | what makes it correct |
|---|---|---|---|
| hybrid engine (`workers/fsdp_workers.py`, `workers/rollout/vllm_rollout/`, `workers/actor/dp_actor.py`, the loop of `trainer/ppo/ray_trainer.py`) | actor, EMA teacher, optimizer and engine of every rank, what is on the GPU, prefix caches, the batch | `fit`, `rollout_mode`, `trainer_mode`, `wake_up`, `sleep`, `update_actor`, `_update_teacher`, validation, restart | every batch comes from the policy it trains; the two sides never share the GPU; the teacher moves once per update |
| data path (`protocol.py`, `single_controller/base/decorator.py`, `utils/seqlen_balancing.py`) | the columns of a batch | repeat, pad, chunk, concat, dispatch, collect, balance, micro-batches and their reversal, mini-batches | a row stays one row; each is trained once; ranks do the same number of forward passes |
| advantages and teacher contexts (`trainer/ppo/core_algos.py`, `ray_trainer.py`) | columns of numbers per token | GRPO, GAE, TASD; the choice of the solution and the feedback the teacher sees | computed from the rows of the same prompt, wherever they are |
| checkpoints (`ray_trainer.py`, `trainer/sft_trainer.py`, `utils/checkpoint/`) | folders, tracker file, best checkpoint, `previous_saved_paths`, loader states | save, rotate, load | a restart continues from a complete checkpoint, at the data that follows it |

Hard in it: every rank switches sides at every step, in an order that differs between
configurations; engines keep prefix caches; the rows are reordered between the phases
and matched by uid; files are replaced in place by several processes; collectives hang
when one rank takes a different number of steps.

### The rest of the repository

| component | status |
|---|---|
| checkpoints of the asynchronous run | not modelled: the trainer's follow those of `RayPPOTrainer`; the rollouter saves its data loader ahead of the samples in flight, which a restart loses by design |
| `experimental/one_step_off_policy` | not modelled: its overlap of generation and training is subsumed by the asynchronous run's |
| `experimental/reward_loop` | not modelled: token buckets and retries over wall-clock time |
| `tools/sandbox_fusion_tools.py` | not modelled: a counting semaphore in an actor |
| `checkpoint_engine/` (NCCL, NIXL) | not modelled: no trainer of the repository uses them |
| `experimental/agent_loop` | partly: splitting of a batch, waking and sleeping; a server is chosen arbitrarily in the models |
| `experimental/transfer_queue`, `experimental/vla` | not modelled: an external package; a separate experiment |
| `workers/megatron_workers.py`, `utils/megatron_utils.py`, `utils/kernel`, models, losses | not modelled: tensor numerics and wrappers of external libraries |
| data sets, model merger, tools, docs, shell scripts | not modelled: sequential I/O and glue |

`PROJECT.json` lists the same components, and the hazards of the code at their lines.

## 2. Modules

| module | models |
|---|---|
| `MessageQueue` | the queue actor; one action per method, also usable on its own |
| `Rollouter` | the rollouter's event loop; uses the queue as `MQ == INSTANCE MessageQueue` |
| `ParameterSynchronizer` | `sync_weights`; EXTENDS `Rollouter` |
| `FullyAsyncTrainer` | `fit` of the trainer; EXTENDS `ParameterSynchronizer` |
| `FullyAsync` | the composition, its properties, the refinement of `SamplePipeline` |
| `SamplePipeline` | abstract: the life of one sample |
| `PartialRollout` | one sample's rollouts, workers and servers under pause, transfer, resume |
| `Transcripts` | abstract: responses only grow, are completed once, released together |
| `CheckpointEngine` | the broadcast of the weights by buckets, main and loader threads of every rank |
| `WeightTransfer` | abstract: every parameter of every model goes to the next version, once |
| `HybridTrainer` | the synchronous training loop over ranks, engines and servers |
| `PolicyIteration` | abstract: sample from a policy, improve that policy, keep it |
| `DataProto`, `SeqlenBalancing`, `Advantages` | the algorithms of the data path as operators |
| `BatchPath` | one batch through the phases of a step |
| `Checkpoint` | saving, rotation, tracker, crashes between file operations, restart |
| `DurableTraining` | abstract: weights on disk, one set of them on record, and from where a crash lets the run go on |
| `MC*` | the instances for TLC |
| `*_proofs` | the theorems (eight modules) |

**Asynchronous run.** Coroutines are variables that say at which await they are
(`processor`, `monitor`, `main`, `feed`, `trainer`, and `call` for the one remote call
that can be in progress). `active_tasks` is split by where a task is: `generating`,
`delivering` (in `put_sample`) and `unreaped`, the number of finished tasks nobody has
awaited yet, which `len(active_tasks)` still counts. `lockQ` is the asyncio lock: its
holder followed by its waiters, since asyncio's lock is fair. An action is what one
coroutine does between two awaits that can suspend it. Taking a free lock, `put` into a
queue that is not full and `notify_all` do not suspend; `put_sample` and the read of the
queue's size in `update_param_version` are remote calls, hence actions of their own. A
sample is its global step; a generation's end is the choice between `FinishGeneration`,
`CancelGeneration` and `FailGeneration`, which is what `PartialRollout` looks inside of;
a transfer of weights is one step, which is what `CheckpointEngine` looks inside of.

**Partial rollout.** A token is its kind and the version of the weights that produced
it. `pc` says what an agent loop awaits; the output an interrupted loop leaves behind
and the next submission restores is in the same variables `state`, `text`, `mask`,
`logprobs`, `start`. `sync` and `toTell` are the calls of `pause()` and `resume()`, which
reach servers and workers in any order. Other samples appear as the arbitrary choice of
worker and server. A tool call is one token, or an opening and a closing one.

**Checkpoint engine.** A parameter is its index, its size a number of buffer units. The
main thread of a rank is `pc` and `slot` (`gidx`), the loader thread is the action
`Loader` between `request` and `reply`, the two ends of the REQ/REP socket. A buffer holds
a bucket and the version of the weights in it, so that reading a buffer under the wrong
description shows as `Mixed`. A broadcast leaves its source at once and reaches another
rank when that rank takes part, the weakest order the collective allows.

**Hybrid engine.** A policy is the number of optimizer steps in its weights, an EMA teacher
the number of its updates. Each rank's `mode` goes through `rollout_mode` and
`trainer_mode` at its own pace, as its coroutines do; `engine`, `base`, `onGpu` are the
weights and the memory of the rank's engine, `served` and `prefixCache` what a server has
answered from and still caches. `mini` counts the optimizer steps of an update.

**Data path.** A batch is a record of columns. What is computed for a row is the response it
was computed from, so that a row that has been mixed up with another shows; advantages are
whole numbers in units of 1/`Scale`. What the teacher says of a token may be of either sign, a
probability or a logarithm: `SafetyThreshold` is the threshold of TASD's safety clip, which
becomes ten times as far below 0 when the rewards of the batch are negative on average
(`core_algos.py:3464-3473`). Balancing is the Karmarkar-Karp differencing of the
code, with its heap order. Tokens, scores, judgements and estimates are bounded inputs.

**Checkpoints.** Weights and files are the number of steps they contain; a file can be
absent, torn, or of a step. A save is one file operation per action, of any rank, and a
crash may come between any two; `crashes` bounds them. Three fixed variables are the
configuration: `trainer` says which of the two trainers runs, `limit` is the number of
checkpoints to keep (0 for all; one number for actor and critic), `tracksBest` whether the
validation reports a metric, after which best checkpoints are saved. A run is `Guarded` when
the limit is not 1 and no best checkpoint is saved: only then is the folder that the tracker
names safe from rotation. In `DurableTraining` `record` is that tracker, `whole` the steps whose weights are
on disk for every role and rank, `guarded` that the set on record is never removed, and
`inPlace` that the record is emptied before it is rewritten, as the PPO trainer does and the
supervised one, which renames, does not.

Definitions whose name ends in `_F` are faulty variants of the definition that follows
them (a dropped guard, an off-by-one, a missing reset). No specification uses them; each
is a mistake that a named property must catch when it takes the place of the original.

## 3. Properties and runs

| run | instance | checks | shows |
|---|---|---|---|
| `message_queue` | 2 consumers, capacity 2, 5 samples | `NothingUnaccounted`, `NoLostWakeup` | order and account of the samples through overflow, clearing and shutdown; no lost wakeup |
| `async_stream` | threshold 1, no partial rollout, 5 samples, 1 task may raise (2.5 million states) | `LockDiscipline`, `VersionsInOrder`, `ConcurrencyBounded`, `RolloutAheadBounded`, `StalenessBounded`, `StreamIsClosed`, `ValidationLogged`, `GatherIsComplete` | locking, versions, back-pressure and the end of the stream in the whole run |
| `on_policy` | threshold 0, batches of 2, 2 per version, partial rollout, 7 samples, 1 task may raise | `OnPolicy`, `RunEnds`, `ImplementsPipeline` | threshold 0 is synchronous training; samples are trained once and in whole batches; both `fit` methods return |
| `partial_rollout` | threshold 1, partial rollout, 3 samples, 1 task may raise | `SampleInOnePlace`, `SyncEnds` | interrupted samples are never in two places; a synchronization ends with the rollouter resumed |
| `partial_server` | 2 responses of up to 3 tokens, 2 servers, 1 worker, 1 synchronization | `Aligned`, `QuietTransfer`, `ScoredOnce`, `VersionsOrdered`, `ImplementsTranscripts`, `PauseCompletes`, `SampleReleased` | what an interruption may do to a response, in every order of the calls |
| `weight_broadcast` | 2 trainer and 2 rollouter ranks, 4 models of 1 to 5 parameters, buffer of 2 units, 2 transfers, with and without overlap | `ImplementsTransfer`, `TransferEnds` | every parameter is replaced once per transfer; neither sockets nor broadcasts nor barriers wait in a circle |
| `training_step` | 3 ranks, 2 servers, every valid configuration, 3 steps, 2 mini-batches, 1 crash | `OnPolicyData`, `GpuExclusive`, `TeacherFollows`, `ImplementsIteration`, `RunCompletes` | the switches of the hybrid engine |
| `data_path` | 2 prompts, 3 responses each, up to 3 tokens, 3 agent workers, 2 data-parallel by 2 sequence-parallel ranks, 6 configurations (103 thousand states) | `RowsAligned`, `TrainedOnce`, `SameForwards`, `AdvantagesByPrompt`, `TeacherContext`, `RanksBalanced` | one batch from the prompts to the optimizer |
| `checkpoint` | 5 steps, 2 ranks, critic, a save and a validation every 2 steps, all, 1 or 2 kept, with up to 2 best checkpoints per process or none, 2 crashes, both trainers (1.2 million states) | `TrackerNamesCheckpoint`, `LoaderMatchesWeights`, `DiskBounded`, `ImplementsDurability`, `TrainingEnds` | crashes between any two file operations, best checkpoints before and after a save |
| `best_checkpoint`, `tool_call_split`, `sentence_reward` | the smallest that show it | one statement of the documentation or a comment each | the code does otherwise: section 5 |

The five refinements say most. `ImplementsPipeline`: a sample is waiting, rolling,
queued, batched, trained, in this order; it is lost only where the system may lose it
and never comes back. `ImplementsTranscripts`: responses grow, a complete one never
changes, a sample is released once, when all its responses are complete.
`ImplementsIteration`: every optimizer step is on a batch sampled by the policy it
improves. `ImplementsDurability`: a guarded run goes on from the last weights it has put on
record, and stops only if the crash came while the PPO tracker was being rewritten or another
supervised rank was writing its loader; any other run may have removed these weights, and then
the PPO restart stops, and none goes on from part of a checkpoint. `ImplementsTransfer`: a
transfer replaces every parameter of every rollout model, once, which is what lets the other
models take it as one step.

`SampleInOnePlace` is the mutual exclusion behind `ImplementsPipeline`.
`RolloutAheadBounded` is the freshness control as the code has it
(`max_required_samples` and one, section 5.2 explains the one) and `StalenessBounded`
what it means for the trainer. `StreamIsClosed` says that the end signal, once sent,
is in the queue until the trainer has it, also with a processor that died of a failed task.
Only `StalenessBounded` notices what a monitor that undoes a pause (section 5) costs:
`VersionsInOrder` and `SyncEnds` are about the order of the versions and the end of a
synchronization, which do not depend on it. `VersionsOrdered` is about `param_version_start`;
the other end of a response's span, `param_version_end`, is not in the model. `TrackerNamesCheckpoint` says of a guarded run that
what the tracker names is complete, and of the others that it is complete or the restart
raises. `LoaderMatchesWeights` is about rank 0 (for PPO the driver) and, until the first crash,
every rank; after it, it says of the other supervised ranks only that they are not ahead. `TrainingEnds` allows
a run to end as "failed", at a restart that cannot read what a crash left.
`QuietTransfer` is the promise of `pause()` seen from inside the servers. `SameForwards` is
what keeps FSDP's collectives from hanging. `RanksBalanced` bounds the difference between
the heaviest and the lightest rank by the spread of the rows (or groups) to be placed.

### Bounds

*Asynchronous run.* Three or four samples are enough for one to be trained, one queued, one
in the processor's hand and one generating, with at least two
synchronizations after one another and a stream that ends during either; only with the fifth of
`async_stream` can a sample be old by the second interval of `StalenessBounded` (section 5). `max_required_samples` 2 with one sample per
version is the smallest back-pressure that differs from synchronous training; two concurrent
samples make the limit bite, and a `pending_queue` of 1 (128 in the code) makes the feeder
wait. Seven samples in batches of two leave an incomplete batch. One failing task is the
case of a dead processor. There is no state constraint: the data set is finite.

*Partial rollout.* Three tokens allow a response to be interrupted, to call a tool, whose
answer takes a place, and to go on; two servers and two responses give every mix of
cancelled and continuing requests; one synchronization is one interruption of each, and in
that instance every token is a call, the case in which all states of the loop occur. A
second synchronization repeats the first from a state the first already reaches; for any
number the proofs speak.

*Broadcast.* The models have one bucket per rank or several, an odd or even number of
them, a rank without parameters, one with more buckets than the other, and a parameter larger
than the buffer. The second transfer
can start while trainer ranks are still ending the first.

*Hybrid engine.* One server with two ranks and one with a single rank; three steps with a
save, a validation and a critic warm-up at the second make every branch of the loop happen
before and after a crash.

*Data path.* Six rows over two ranks leave each an odd number, the four rows of a validation have
to be padded for three workers, and responses of one
to three tokens, one with a tool's answer in it, make balancing reorder. The teacher's judgements
go from -24 to 2, so that batches add up to either sign and both thresholds of the safety clip bite.

*Checkpoints.* Saves at 2, 4 and 5 make a rotation, an uneven last save, and
two crashes a restart that itself crashes. The second best checkpoint of a process comes when the
tracker names an earlier save that is still in the list of the actor's checkpoints, so that
its registration removes what the tracker names. Limits 0, 1
and 2 are "keep all", the limit at which `ensure_checkpoint_capacity` does nothing, and the first
at which it makes room.

### Fairness

asyncio runs every ready coroutine and Ray executes every submitted call, so every
coroutine, remote call, rank and thread has weak fairness. The asyncio lock grants its
waiters in order (`lockQ`), so weak fairness is enough where an unfair lock would need
more. A generation ends because the number of tokens is bounded. Collectives end when all
ranks take part, which the models state as their guard. Not assumed: the failure of a task,
a crash, that anybody puts a sample into the queue alone, and any choice of server, worker
or order of calls.

Deadlock is checked everywhere but in the two runs of `PartialRollout`, whose behaviours end
when the sample is released; `SampleReleased` says that they end in no other way.

## 4. Proofs

For every value of the constants, under the assumptions named in the modules.

- `MessageQueue_proofs`: `QueueTypeCorrect`, `QueueAccounts` (`NothingUnaccounted`, inductive
  together with the types), `QueueWakesConsumers` (`NoLostWakeup`).
- `FullyAsync_proofs`: `LockIsDisciplined` comes first. Its invariant `LockInv` says that the
  elements of `lockQ` are exactly the coroutines in or before a critical section, without
  repetition, and that whatever awaits inside one is at the head; that a release leaves a
  queue of the right type follows only from it. `TypeCorrect` adds that the processor holds
  a sample exactly where it is about to submit one, and that the delivering tasks are finite.
  `PauseGathersAll`: a task is only added with the lock, which `pause()` has while it gathers.
  `VersionsAreInOrder`: the order of four versions is not inductive without the exact value
  of each as a function of where the call is. `ConcurrencyIsBounded`: between the test of the
  limit and the submission no other step adds a task.
  Where the samples are: `SamplesAreInOnePlace` and `ImplementsSamplePipeline`, the refinement of
  `SamplePipeline`. `PlaceInv` has three parts that need each other: the nine places are pairwise
  disjoint; no queue holds anything twice, and the two end markers come last (else a second end
  signal could be taken for a sample); the processor has nothing in its hand and the trainer
  nothing in its batch except where the code says so (else a sample could be overwritten). Each
  step is first reduced to a move of a set of samples from one place to another, with those it
  drops; both theorems follow from the moves.
  Staleness: `RolloutAheadIsBounded`, `StalenessIsBounded`, `RunIsOnPolicy`. `AheadInv` says what `staleness_samples` is worth:
  it counts everything outstanding but at most one sample. The one is in the processor's hand
  while `update_param_version` counts tasks and queue in two steps; between these what is in
  tasks has already been counted, because the lock keeps the processor from submitting.
  `AgeInv` measures the age of a sample in samples, one interval (`require_batches` times
  `trigger_parameter_sync_step`) per version: an entry of the queue is as old as what will have
  been trained when its turn comes allows, so that a version more is paid for by the places it has
  moved up; a sample arrives with an age of at most one interval, two without partial rollout.
  `BudgetInv` is for threshold 0: what is collected for a version and what is outstanding share
  `max_required_samples`, hence nothing is outstanding when a version ends, and until the counter
  is reset it keeps the processor from taking a sample; `CurrentInv` follows, that everything
  finished is of the current version.
  How the run ends: `ValidationIsLogged`, whose `LogInv` says that the results in the queue
  are consecutive from the last one logged up to the version that was reported last; the order
  alone is not inductive. `StreamIsAlwaysClosed`, whose `EndInv` bounds what can still push the
  end signal out of a full queue: the entries behind it and the tasks that are left are fewer
  than the capacity, since a failed processor leaves fewer tasks than the limit of concurrency.
- `PartialRollout_proofs`: one invariant, `Inv`, of six parts: types, control (which
  combinations of state, output and score a loop can be in), room (a response that is not over
  has room for a token), alignment, versions (those of a response only grow) and pausing (every
  server is paused from the end of `pause()` until `resume()`). From it `StaysAligned`,
  `TransferIsQuiet`, `RewardedOnce`, `VersionsStayOrdered`, and `KeepsItsPromise`, the
  refinement of `Transcripts`, which needs room and control to see that a step of the loop
  extends at most one response and never a complete one.
- `HybridTrainer_proofs`: `Inv` says how far the ranks have switched at each phase
  (`EngineInv`), what the servers can have cached (`ServerInv`), who sampled the batch and how
  far the mini-batches have moved on from it (`BatchInv`), and what is on the GPU. From it
  `DataIsOnPolicy`, `GpuIsExclusive`, `TeacherIsSteady`, and `ImplementsOnPolicyTraining`, the
  refinement of `PolicyIteration`.
- `Checkpoint_proofs`: for every configuration of both trainers, best checkpoints and a limit of
  one included. `WeightsInv` and `TrackerInv` say where weights, loader and tracker are at each
  point of a save, `FilesInv` that the ranks which have nothing left to write have written and
  that, where the folder of the tracker stays (`FolderStays`), so does rank 0's loader state in
  it. `LostInv` is for a restart that began from an older step than files on disk
  are from: what the tracker names beyond the weights is gone. For `Guarded` runs
  `RotationInv` adds that the tracker's step is the last in the list of every role until
  that role registers the next, hence never among the folders being removed. From them
  `TrackerSound`, `LoaderSound` and `ImplementsDurable`, the refinement of `DurableTraining`,
  without an assumption on the configuration: what holds of guarded runs only is said by the
  properties themselves. `RotationIsBounded`
  (`DiskBounded`): `SpaceInv` says that until the first crash a folder on disk is in the list of its
  role, waits to be removed or is being written, and that the lists leave room for the latter.
- `CheckpointEngine_proofs`: first the plan of a transfer, which is data. `BucketsAre` and
  `SlotsAre`: for any number of parameters of any size and any number of ranks, the registration
  puts each parameter in one bucket of one rank, no bucket exceeds `bucket_size`
  (`NoBufferOverrun`), and the two nested loops visit each bucket once. Then `Inv` counts
  barriers (`arrived` is a multiple of the barriers of a transfer and those passed in this one), from
  which it follows that ranks are at most a transfer apart and that one which is behind has
  only its last barrier to leave; it says which bucket each half of the buffer holds
  while somebody may read it, what of the transfer has been loaded, and that nothing is on the net but
  buckets of this transfer, in the order of the slots. `ImplementsWeightTransfer` is the
  refinement of `WeightTransfer`.
- `SeqlenBalancing_proofs`: what the balancing algorithms return, for any number of rows of any length.
  The heap of `karmarkar_karp` holds states of `k` bins; the invariant of its loop is that the
  states hold disjoint sets of rows which together are all of them, each in the order of
  the loads, and, with equal sizes, as many rows in each bin and no two loads further apart
  than two rows are (the bins of two states are joined in opposite orders, so that the spread of
  the result is at most the greater of the two). `BalancedPartitions` follows, from it
  `GroupPartitions` (whole prompts are placed) and `RearrangeIs` (dynamic micro-batches), and
  `RestoreIs`: what was computed in these micro-batches comes back in the order of the rows.
- `BatchPath_proofs`: first the operations of `DataProto` on tables, then `ComputeIs`: dispatch,
  micro-batches, restoring and collecting are together the identity on a column. `BatchInvariant`
  says of every phase which columns the batch has and of which response each entry was made;
  the batch need not be in the order it was generated in, only every column in the same order.
  From it `RowsStayAligned`, `TeacherKnowsMore`; `RanksAgree` and
  `EveryRowTrainedOnce` take one invariant more each, on the forward passes and on what
  `update_policy` trains, and `LoadsAreBalanced` one on the batch as `_balance_batch` leaves it.
  `AdvantagesArePromised` (`AdvantagesByPrompt`) compares what the estimators compute with what
  they promise: `GrpoIs` and `TasdIs` turn sums over masked rows and columns into sums over the
  set of peers and their generated tokens (a row the teacher had no context for counts
  neither in the sum nor in the number of tokens), `ThresholdIs` does so for the sum that decides the
  threshold of the safety clip, and `GaeIs` shows by induction from the last
  position that the recursion of `compute_gae_advantage_return`, which carries a pair over the
  observation tokens, gives the discounted sums over the generated tokens alone. The invariant
  (`DrawnInvariant`, `AdvantagesInvariant`) keeps that from `ComputeAdvantage` to the next batch,
  whatever the teacher adds or drops in between. `ScoringAssumption` says that the critic and the
  teacher give numbers; the model has integers, with means rounded as `Mean` says.

The assumptions on constants are the relations the configuration enforces, such as
`max_required_samples = int(R * (threshold + 1) * T)` with a threshold of at least 0.

Only model-checked: liveness (`RunEnds`, `SyncEnds`, `TrainingEnds`, `PauseCompletes`,
`SampleReleased`, `RunCompletes`, `TransferEnds`), which is outside what the prover covers.
Induction over a range of numbers is within reach: `Induct` and `Recursion` of
`CheckpointEngine_proofs` and `SeqlenBalancing_proofs` derive it from the least element of a set of
numbers, with sets and functions in the place of operators.

## 5. Where the documentation and the code differ

Each of the first three is a run that finds a statement violated by the model of the code.

1. `best_checkpoint`. The best checkpoint is saved by the manager of the regular ones, always
   to the same path. Its second save registers `best/actor` again and removes every path before
   the last, including `best/actor` itself (`checkpoint_manager.py:159-172`); the comment at
   `ray_trainer.py:1444` promises the opposite. Every best checkpoint after a save removes
   the regular ones in the list as well, whatever `max_actor_ckpt_to_keep` says, and so the actor of the
   step in `latest_checkpointed_iteration.txt`: until the next save a crash leaves a tracker
   whose checkpoint cannot be loaded.
2. `tool_call_split`. An interrupted loop keeps its text, but looks for tool calls in the
   newest fragment only (`partial_tool_agent_loop.py:205-220`): a call that an interruption
   splits is never executed. The README promises to resume "from the saved state".
3. `sentence_reward`. The sequence reward is meant to be put at the last valid token; comparing
   the running sum of the mask with its total holds for every padding position after it too
   (`ray_trainer.py:2227`), so that GRPO's score grows with the padding.

Met while modelling the asynchronous run:

1. The documentation of mode 3 says that no new task is added once a synchronization is
   triggered. The monitor tests whether to recover before it waits for the lock; when `pause()`
   runs in between, the monitor then sets `paused = False` and the processor submits a task that
   is generated while the weights are transferred. At threshold 0 this does not arise. Without
   partial rollout such a sample can end under the old version, when the transfer has not begun, and
   be delivered before the next one: it is trained up to one more interval later than the threshold
   allows for. `StalenessBounded` is the bound that holds, with the second interval for this case.
2. The documentation bounds the samples by `rollout_num`; the reset of `staleness_samples` does
   not see the sample the processor holds while it waits for the lock, so there can be one more.
   `RolloutAheadBounded` is the bound that holds.
3. "The interrupted samples will continue to be generated": not when the processor was already
   awaiting `pending_queue` and receives `DONE` from it; it ends without another look at
   `cancel_queue`.
4. `active_tasks` is verified again after the lock is acquired, but the `for` loop over
   `done_tasks` is outside the test: if `pause()` emptied `active_tasks` before the first wait,
   the name is unbound and the processor ends with an exception.
5. A sample interrupted at its submission is in `cancel_queue` while its finished task is still
   in `active_tasks`, and counts twice. With `max_required_samples` reached and nothing
   outstanding nobody wakes the processor. `RunEnds` is therefore checked with partial rollout at
   threshold 0, where the situation does not arise.

In partial rollout, a request cancelled before its first token leaves its entries in
`cancel_event` and `req_output` (`A/vllm_rollout/vllm_async_server.py:106-107`). In the
checkpoint engine, an exception of `load_weights` ends the loader thread without a reply, and
every rank waits for ever.

In checkpoints:

1. With `max_actor_ckpt_to_keep = 1` the folder the tracker names is removed before
   the tracker is rewritten. A PPO restart finds `data.pt` in it and raises; the supervised trainer,
   whose folder goes as a whole, may begin from scratch, or, when the crash comes after the
   loader's file has gone and before any other, train on the first batches again. That last case is what
   `FolderStays` leaves out of `LoaderMatchesWeights`; `ImplementsDurability` has it as a record
   that is gone.
2. The tracker of the PPO trainer is truncated in place (`ray_trainer.py:1521`), and an empty
   one makes the restart fail. That moment, between `open` and `close`, is `BeginReplace` of
   `DurableTraining`, and the only one at which a guarded PPO run has nothing on record.
3. The supervised trainer renames its tracker before the other ranks have written their loader
   states. After a crash in between a rank finds no file, warns, and starts at its first batch, while rank
   0 goes on: the ranks' loaders differ for the rest of the run, although
   `checkpoint_handler.py:109-110` says of their state "So it's identical in each dp rank." A file
   that was being written makes the restart fail.
4. The best metric is forgotten by a restart, so that the first validation after it saves a best
   checkpoint, whatever its metric; `save_best_metric: null` does not disable it
   (`trainer/config/ppo_trainer.yaml:163`), a metric is detected.

In the synchronous run: the checkpoint holds the actor and not the EMA teacher, which restarts
from the initial model (`HybridTrainer` models it so, and `TeacherFollows` holds nevertheless);
`compute_teacher_log_probs` overrides the temperature of its batch, so that
`distill_temperature` has no effect (`workers/fsdp_workers.py:1083-1095`); the last, short
mini-batch is scaled by the full gradient accumulation; the number of dynamic micro-batches
follows from the total of the tokens (`seqlen_balancing.py:387`) and their contents from
workloads, so a micro-batch can hold more tokens than `max_token_len`, the "max sum of
attention_mask per micro-batch" of the docstring at line 362; TASD's safety clip bounds
the penalty of tokens with a low reward only, so that a token with a higher reward can end with a
lower advantage.

## 6. Not modelled

Most of the repository's code is tensor numerics, kernels, model definitions, Megatron and SGLang
wrappers, configuration, and data loading: its correctness is numerical agreement with a reference,
about which a bounded discrete model says nothing. The modules here are of the part that takes
decisions: who runs when, what is kept, what is matched with what. That is why the lines they
map are a small share of the repository, and why the share cannot approach a third.

Within the modelled parts:

- asynchronous run: checkpoints, validation on the trainer, the cancellation of one component when
  the other raises, metrics. A rollouter whose processor failed still sends its end signal, as in the
  code. `shutdown` is modelled in `MessageQueue` alone: no code calls it during a run.
  `test_freq = 0` is excluded by `TestFreqAssumption`: `fit` divides by it.
- partial rollout: `param_version_end`, the interaction state, limits on turns, images. The single-turn loop is in.
- checkpoint engine: the transfer parameter by parameter without it, failing allocations, Megatron's
  caller.
- hybrid engine: Megatron, SGLang, disaggregated replicas, the arithmetic of the trust-region
  teacher, LoRA together with an EMA teacher (the code excludes it).
- data path: Megatron's dispatch modes, `keep_minibatch` (no caller sets it), nested tensors; the
  divisibility that `chunk` asserts is an assumption.
- advantages: Teacher-GAE (`use_teacher_gae`, off by default; `core_algos.py:3403-3427`), other
  estimators, division by the standard deviation, whitening, losses, KL controllers.
- checkpoints: HDFS copies, asynchronous saves, `resume_from_path`, a `total_training_steps` smaller
  than the epochs.

## 7. Plan

Left, in this order: the one-step-off-policy trainer as a second implementation of an abstract specification with bounded
staleness; the checkpoints of the asynchronous run composed with `SamplePipeline`; the limits on
turns of the tool loop.

## 8. Running

    tlc -workers 2 -config MCFullyAsync_stream.cfg MCFullyAsync
    tlc -workers 2 -config MCCheckpointEngine.cfg MCCheckpointEngine
    tlapm PartialRollout_proofs.tla
