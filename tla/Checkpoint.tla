------------------------------ MODULE Checkpoint ------------------------------
(***************************************************************************)
(* Checkpoints of a training run: when they are saved, how the checkpoint  *)
(* manager of each worker group rotates them, the tracker file that names  *)
(* the latest, crashes at any point, and the restart. Two trainers share   *)
(* the manager: "ppo", RayPPOTrainer.fit with its driver process, and      *)
(* "sft", the supervised trainer with CheckpointHandler, in which every    *)
(* rank runs the loop.                                                     *)
(*                                                                         *)
(* Weights are the number of steps they have been trained for, and so are  *)
(* the contents of a file. 0 stands for a file that does not exist, for    *)
(* best/actor among the folders and for "keep all" (null) among the limits.  *)
(***************************************************************************)
EXTENDS Integers, Sequences, FiniteSets

CONSTANTS
    TotalSteps,       \* the steps of all epochs
    Ranks, Rank0,     \* the ranks of a worker group, and the one with rank 0
    Critic,           \* use_critic
    SaveFreq,         \* trainer.save_freq, 0 when it is negative: no saves
    TestFreq,         \* trainer.test_freq, 0 when there is no validation
    Limits,           \* values of max_ckpt_to_keep a run may be configured with
    MaxBests,         \* bound of this model: best metrics a process sees
    MaxCrashes        \* bound of this model: crashes in a run

ASSUME CheckpointAssumption ==
    /\ TotalSteps \in Nat \ {0} /\ Rank0 \in Ranks /\ IsFiniteSet(Ranks)
    /\ Critic \in BOOLEAN /\ SaveFreq \in Nat /\ TestFreq \in Nat /\ Limits \subseteq Nat
    /\ MaxBests \in Nat \ {0} /\ MaxCrashes \in Nat

VARIABLES
    (* the configuration *)
    trainer,          \* which of the two loops runs
    limit,            \* max_ckpt_to_keep of the SFT trainer, max_actor_ckpt_to_keep and
                      \* max_critic_ckpt_to_keep of the PPO trainer
    tracksBest,       \* the validation reports a metric to keep the best of
    (* the run *)
    pc,               \* where the loop, or a save, is
    crashes,
    (* on disk *)
    shard,            \* the files of a role's ranks in its folder global_step_<n>
    data,             \* the state of the data loader in that folder, per rank
    tracker,          \* latest_checkpointed_iteration.txt
    bestStep,         \* best/best_step.txt
    (* in memory *)
    globalStep,       \* global_steps
    weights,          \* the model
    position,         \* of the data loader, per rank
    bests,            \* how often this process has set _best_val_metric
    saved,            \* previous_saved_paths of each role's checkpoint manager
    role, path,       \* the save in progress
    removing,         \* folders rank 0 is removing
    toWrite           \* ranks that have still to write their file

config == <<trainer, limit, tracksBest>>
disk == <<shard, data, tracker, bestStep>>
saving == <<saved, role, path, removing, toWrite>>
vars == <<config, pc, crashes, disk, globalStep, weights, position, bests, saving>>

NoFile == 0
Torn == -1            \* a file whose writing a crash cut short
Best == 0             \* the folder best/
AllRoles == {"actor", "critic"}
Folders == 0 .. TotalSteps
Files == Torn .. TotalSteps

Roles == IF Critic /\ trainer = "ppo" THEN AllRoles ELSE {"actor"}

\* The processes that have a data loader: the driver, or every rank.
Loaders == IF trainer = "ppo" THEN {Rank0} ELSE Ranks

Blank(S) == [s \in S |-> NoFile]

Init ==
    /\ trainer \in {"ppo", "sft"} /\ limit \in Limits
    /\ tracksBest \in BOOLEAN /\ (tracksBest => trainer = "ppo")
    /\ pc = "load" /\ crashes = 0
    /\ shard = [o \in AllRoles |-> [f \in Folders |-> Blank(Ranks)]]
    /\ data = [f \in Folders |-> Blank(Ranks)]
    /\ tracker = NoFile /\ bestStep = NoFile
    /\ globalStep = 0 /\ weights = 0 /\ position = Blank(Ranks) /\ bests = 0
    /\ saved = [o \in AllRoles |-> <<>>]
    /\ role = "actor" /\ path = Best /\ removing = <<>> /\ toWrite = {}

-----------------------------------------------------------------------------
(* _load_checkpoint, with resume_mode "auto" *)

FolderExists(n) ==
    \/ \E o \in Roles, r \in Ranks : shard[o][n][r] # NoFile
    \/ \E r \in Ranks : data[n][r] # NoFile

\* find_latest_ckpt_path: the folder the tracker names, if both exist.
Latest == IF tracker \in {NoFile, Torn} \/ ~ FolderExists(tracker) THEN NoFile ELSE tracker

Readable(n) == \A o \in Roles, r \in Ranks : shard[o][n][r] \notin {NoFile, Torn}
LoaderReadable(n) == \A r \in Loaders : data[n][r] # Torn

\* The tracker cannot be parsed, or a file cannot be read: the run raises.
CannotLoad ==
    \/ tracker = Torn
    \/ /\ Latest # NoFile
       /\ ~ (Readable(Latest) /\ LoaderReadable(Latest))

\* A loader without a file starts from scratch.
Load ==
    /\ pc = "load" /\ ~ CannotLoad
    /\ weights' = IF Latest = NoFile THEN 0 ELSE shard["actor"][Latest][Rank0]
    /\ position' = [r \in Ranks |-> IF Latest = NoFile \/ r \notin Loaders THEN 0
                                   ELSE data[Latest][r]]
    /\ globalStep' = Latest + 1
    /\ pc' = IF Latest < TotalSteps THEN "train" ELSE "done"
    /\ UNCHANGED <<config, crashes, disk, bests, saving>>

LoadFails ==
    /\ pc = "load" /\ CannotLoad
    /\ pc' = "failed"
    /\ UNCHANGED <<config, crashes, disk, globalStep, weights, position, bests, saving>>

-----------------------------------------------------------------------------
(* One step of fit *)

IsLastStep == globalStep = TotalSteps
Due_F(freq) == freq > 0 /\ globalStep % freq = 0
Due(freq) == freq > 0 /\ (IsLastStep \/ globalStep % freq = 0)

Train ==
    /\ pc = "train"
    /\ weights' = weights + 1
    /\ position' = [r \in Ranks |-> IF r \in Loaders THEN position[r] + 1 ELSE position[r]]
    /\ pc' = "validate"
    /\ UNCHANGED <<config, crashes, disk, globalStep, bests, saving>>

BeginSave(o, f) ==
    /\ role' = o /\ path' = f
    /\ pc' = "capacity"
    /\ UNCHANGED <<saved, removing, toWrite>>

\* _maybe_save_best_checkpoint: the first metric of a process is its best.
NewBest ==
    /\ pc = "validate" /\ tracksBest /\ Due(TestFreq) /\ bests < MaxBests
    /\ bests' = bests + 1
    /\ BeginSave("actor", Best)
    /\ UNCHANGED <<config, crashes, disk, globalStep, weights, position>>

NoNewBest ==
    /\ pc = "validate"
    /\ (tracksBest /\ Due(TestFreq)) => bests > 0
    /\ pc' = "save"
    /\ UNCHANGED <<config, crashes, disk, globalStep, weights, position, bests, saving>>

\* The saves of the PPO loop also depend on the time that is left to the
\* instance (should_save_ckpt_esi); the last step of SFT is always saved.
SaveDue == Due(SaveFreq) \/ (trainer = "sft" /\ IsLastStep)
SaveExpiring == trainer = "ppo" /\ SaveFreq > 0

Save ==
    /\ pc = "save"
    /\ SaveDue \/ SaveExpiring
    /\ BeginSave("actor", globalStep)
    /\ UNCHANGED <<config, crashes, disk, globalStep, weights, position, bests>>

NoSave ==
    /\ pc = "save" /\ ~ SaveDue
    /\ pc' = "next"
    /\ UNCHANGED <<config, crashes, disk, globalStep, weights, position, bests, saving>>

NextStep ==
    /\ pc = "next"
    /\ IF IsLastStep
       THEN pc' = "done" /\ UNCHANGED globalStep
       ELSE pc' = "train" /\ globalStep' = globalStep + 1
    /\ UNCHANGED <<config, crashes, disk, weights, position, bests, saving>>

-----------------------------------------------------------------------------
(* save_checkpoint of the checkpoint manager *)

\* The best checkpoint is saved with max_ckpt_to_keep=1.
Keep == IF path = Best THEN 1 ELSE limit

\* ensure_checkpoint_capacity makes room for the new checkpoint, unless that
\* would leave none.
Surplus_F == IF Keep > 1 /\ Len(saved[role]) > Keep THEN Len(saved[role]) - Keep ELSE 0
Surplus == IF Keep > 1 /\ Len(saved[role]) >= Keep THEN Len(saved[role]) - Keep + 1 ELSE 0

\* register_checkpoint removes what is too much with the new one.
Excess(paths) == IF Keep > 0 /\ Len(paths) > Keep THEN Len(paths) - Keep ELSE 0

\* The first n paths of the role's list are removed, the others are kept.
Remove(paths, n) ==
    /\ removing' = SubSeq(paths, 1, n)
    /\ saved' = [saved EXCEPT ![role] = SubSeq(paths, n + 1, Len(paths))]

EnsureCapacity ==
    /\ pc = "capacity"
    /\ Remove(saved[role], Surplus)
    /\ pc' = "makeRoom"
    /\ UNCHANGED <<config, crashes, disk, globalStep, weights, position, bests, role, path,
                   toWrite>>

\* In "sft" the folder of a role is the folder of the step itself.
IsEmpty(f) ==
    \A r \in Ranks : shard[role][f][r] = NoFile /\ (trainer = "sft" => data[f][r] = NoFile)

\* shutil.rmtree removes one file after the other.
RemoveFile ==
    /\ removing # <<>>
    /\ LET f == Head(removing)
       IN  \/ /\ ~ IsEmpty(f)
              /\ \E r \in Ranks :
                    \/ /\ shard[role][f][r] # NoFile
                       /\ shard' = [shard EXCEPT ![role][f][r] = NoFile]
                       /\ UNCHANGED data
                    \/ /\ trainer = "sft" /\ data[f][r] # NoFile
                       /\ data' = [data EXCEPT ![f][r] = NoFile]
                       /\ UNCHANGED shard
              /\ UNCHANGED removing
           \/ /\ IsEmpty(f)
              /\ removing' = Tail(removing)
              /\ UNCHANGED <<shard, data>>
    /\ UNCHANGED <<config, pc, crashes, tracker, bestStep, globalStep, weights, position,
                   bests, saved, role, path, toWrite>>

\* The first barrier.
MakeFolder ==
    /\ pc = "makeRoom" /\ removing = <<>>
    /\ pc' = "write" /\ toWrite' = Ranks
    /\ UNCHANGED <<config, crashes, disk, globalStep, weights, position, bests, saved, role,
                   path, removing>>

WriteShard(r) ==
    /\ pc = "write" /\ r \in toWrite
    /\ shard' = [shard EXCEPT ![role][path][r] = weights]
    /\ toWrite' = toWrite \ {r}
    /\ UNCHANGED <<config, pc, crashes, data, tracker, bestStep, globalStep, weights, position,
                   bests, saved, role, path, removing>>

\* The second barrier; then rank 0 registers the new checkpoint. Loaders
\* may begin to write, those of the other ranks at once.
Register_F ==
    /\ pc = "write"
    /\ LET paths == Append(saved[role], path) IN Remove(paths, Excess(paths))
    /\ pc' = "rotate" /\ toWrite' = Loaders
    /\ UNCHANGED <<config, crashes, disk, globalStep, weights, position, bests, role, path>>
Register ==
    /\ pc = "write" /\ toWrite = {}
    /\ LET paths == Append(saved[role], path) IN Remove(paths, Excess(paths))
    /\ pc' = "rotate" /\ toWrite' = Loaders
    /\ UNCHANGED <<config, crashes, disk, globalStep, weights, position, bests, role, path>>

\* save_checkpoint returns in rank 0, and in the driver.
SaveReturns ==
    /\ pc = "rotate" /\ removing = <<>>
    /\ IF path = Best
       THEN pc' = "bestMeta" /\ UNCHANGED role
       ELSE IF role = "actor" /\ "critic" \in Roles
            THEN pc' = "capacity" /\ role' = "critic"
            ELSE pc' = "data" /\ UNCHANGED role
    /\ UNCHANGED <<config, crashes, disk, globalStep, weights, position, bests, saved, path,
                   removing, toWrite>>

-----------------------------------------------------------------------------
(* The rest of _save_best_checkpoint, _save_checkpoint and of the handler's *)
(* save_checkpoint                                                          *)

WriteBestMeta ==
    /\ pc = "bestMeta"
    /\ bestStep' = globalStep
    /\ pc' = "save" /\ toWrite' = {}
    /\ UNCHANGED <<config, crashes, shard, data, tracker, globalStep, weights, position,
                   bests, saved, role, path, removing>>

SavesData(r) ==
    \/ pc = "data"
    \/ /\ trainer = "sft"
       /\ pc = "barrier" \/ (pc = "rotate" /\ r # Rank0)

SaveData_F(r) ==
    /\ SavesData(r) /\ r \in toWrite
    /\ data' = [data EXCEPT ![path][r] = position[r] - 1]
    /\ toWrite' = toWrite \ {r}
    /\ UNCHANGED <<config, pc, crashes, shard, tracker, bestStep, globalStep, weights, position,
                   bests, saved, role, path, removing>>
SaveData(r) ==
    /\ SavesData(r) /\ r \in toWrite
    /\ data' = [data EXCEPT ![path][r] = position[r]]
    /\ toWrite' = toWrite \ {r}
    /\ UNCHANGED <<config, pc, crashes, shard, tracker, bestStep, globalStep, weights, position,
                   bests, saved, role, path, removing>>

\* open(..., "w") empties the PPO trainer's tracker, close() fills it.
OpenTracker_F ==
    /\ pc = "data" /\ trainer = "ppo"
    /\ tracker' = Torn
    /\ pc' = "tracker"
    /\ UNCHANGED <<config, crashes, shard, data, bestStep, globalStep, weights, position,
                   bests, saving>>
OpenTracker ==
    /\ pc = "data" /\ trainer = "ppo" /\ Rank0 \notin toWrite
    /\ tracker' = Torn
    /\ pc' = "tracker"
    /\ UNCHANGED <<config, crashes, shard, data, bestStep, globalStep, weights, position,
                   bests, saving>>

WriteTracker ==
    /\ pc = "tracker"
    /\ tracker' = path
    /\ pc' = "next"
    /\ UNCHANGED <<config, crashes, shard, data, bestStep, globalStep, weights, position,
                   bests, saving>>

\* The handler renames a new file over the old tracker.
RenameTracker ==
    /\ pc = "data" /\ trainer = "sft" /\ Rank0 \notin toWrite
    /\ tracker' = path
    /\ pc' = "barrier"
    /\ UNCHANGED <<config, crashes, shard, data, bestStep, globalStep, weights, position,
                   bests, saving>>

Barrier ==
    /\ pc = "barrier" /\ toWrite = {}
    /\ pc' = "next"
    /\ UNCHANGED <<config, crashes, disk, globalStep, weights, position, bests, saving>>

-----------------------------------------------------------------------------
(* Crashes *)

\* Files that are being written may be left torn; memory is lost.
Crash ==
    /\ pc \notin {"load", "done", "failed"} /\ crashes < MaxCrashes
    /\ crashes' = crashes + 1
    /\ \E torn \in SUBSET toWrite :
        /\ shard' = IF pc # "write" THEN shard
                    ELSE [shard EXCEPT ![role][path] =
                              [r \in Ranks |-> IF r \in torn THEN Torn ELSE @[r]]]
        /\ data' = IF ~ \E r \in torn : SavesData(r) THEN data
                   ELSE [data EXCEPT ![path] =
                            [r \in Ranks |-> IF r \in torn /\ SavesData(r) THEN Torn ELSE @[r]]]
    /\ pc' = "load"
    /\ globalStep' = 0 /\ weights' = 0 /\ position' = Blank(Ranks) /\ bests' = 0
    /\ saved' = [o \in AllRoles |-> <<>>]
    /\ role' = "actor" /\ path' = Best /\ removing' = <<>> /\ toWrite' = {}
    /\ UNCHANGED <<config, tracker, bestStep>>

Terminated == pc \in {"done", "failed"} /\ UNCHANGED vars

Progress ==
    \/ Load \/ LoadFails
    \/ Train \/ NewBest \/ NoNewBest \/ Save \/ NoSave \/ NextStep
    \/ EnsureCapacity \/ RemoveFile \/ MakeFolder \/ Register \/ SaveReturns
    \/ \E r \in Ranks : WriteShard(r) \/ SaveData(r)
    \/ WriteBestMeta \/ OpenTracker \/ WriteTracker \/ RenameTracker \/ Barrier

Next == Progress \/ Crash \/ Terminated

Spec == Init /\ [][Next]_vars

\* Every process of the run keeps running until it crashes.
FairSpec == Spec /\ WF_vars(Progress)

-----------------------------------------------------------------------------
(* Properties *)

DiskTypeOK ==
    /\ shard \in [AllRoles -> [Folders -> [Ranks -> Files]]]
    /\ data \in [Folders -> [Ranks -> Files]]
    /\ tracker \in Files /\ bestStep \in Folders

MemoryTypeOK ==
    /\ globalStep \in 0 .. TotalSteps + 1 /\ weights \in 0 .. TotalSteps
    /\ position \in [Ranks -> 0 .. TotalSteps] /\ bests \in Nat
    /\ saved \in [AllRoles -> Seq(Folders)]
    /\ role \in AllRoles /\ path \in Folders
    /\ removing \in Seq(Folders) /\ toWrite \in SUBSET Ranks

CheckpointTypeOK ==
    /\ trainer \in {"ppo", "sft"} /\ limit \in Limits /\ crashes \in Nat
    /\ tracksBest \in BOOLEAN /\ (tracksBest => trainer = "ppo")
    /\ pc \in {"load", "train", "validate", "save", "capacity", "makeRoom", "write", "rotate",
               "bestMeta", "data", "tracker", "barrier", "next", "done", "failed"}
    /\ DiskTypeOK /\ MemoryTypeOK

\* The checkpoint of step n can be loaded, by every role and rank, and is
\* the state after step n.
Complete(n) ==
    /\ \A o \in Roles, r \in Ranks : shard[o][n][r] = n
    /\ data[n][Rank0] = n

\* No folder the tracker names can be removed: a best checkpoint is never
\* registered with a limit of 1 among those of the steps, and the newest of
\* them is kept until the next is recorded.
Guarded == limit # 1 /\ ~ tracksBest

\* Something stays in the folder the tracker names: the PPO trainer never
\* removes data.pt.
FolderStays == trainer = "ppo" \/ limit # 1

\* The tracker across rotations, crashes in the middle of one and restarts
\* that have forgotten what was saved before. When more than one checkpoint
\* is kept and none is kept as the best, the checkpoint it names is complete.
\* Otherwise register_checkpoint can remove the actor the tracker names (a
\* best checkpoint removes every other in the list); then a PPO restart, which
\* finds data.pt left in the folder, raises, and neither begins from scratch
\* nor goes on from part of a checkpoint. (The folder of the SFT trainer goes
\* as a whole, before the tracker is replaced: with a limit of 1 its restart
\* may begin from scratch.)
TrackerNamesCheckpoint ==
    tracker \in 1 .. TotalSteps =>
        /\ Guarded => Complete(tracker)
        /\ FolderStays => FolderExists(tracker) /\ (CannotLoad \/ Complete(tracker))

\* The data loader of rank 0 goes on where the weights left off: after any
\* number of restarts no batch is trained on twice or skipped. No rank is ever
\* ahead of the weights, but the other ranks of the SFT trainer may lag behind
\* after a crash: the restart may have found no file of theirs. So may rank 0
\* of the SFT trainer with a limit of 1, which is left out: a crash may come
\* when the folder the tracker names has lost the loader's file, and no other.
LoaderMatchesWeights ==
    (pc \in {"train", "save", "next"} /\ FolderStays) =>
        /\ position[Rank0] = weights
        /\ \A r \in Loaders : position[r] <= weights /\ (crashes = 0 => position[r] = weights)

\* Rotation makes room before it writes: a process that keeps m > 1
\* checkpoints never has more than m folders of its own on disk, the one
\* being written included, and with m = 1 one more while it saves.
OnDisk(o) == {n \in 1 .. TotalSteps : \E r \in Ranks : shard[o][n][r] # NoFile}
DiskBounded ==
    (limit > 0 /\ crashes = 0) =>
        \A o \in Roles : Cardinality(OnDisk(o)) <= IF limit = 1 THEN 2 ELSE limit

\* best/ holds the weights of the step its metadata names, whenever they
\* are not being replaced.
BestKept ==
    (bestStep # NoFile /\ pc \in {"train", "validate", "next", "done"}) =>
        \A r \in Ranks : shard["actor"][Best][r] = bestStep

(* The promise of checkpointing *)

\* Every role and rank has its weights after step n on disk.
Whole(n) == \A o \in Roles, r \in Ranks : shard[o][n][r] = n

Durability == INSTANCE DurableTraining WITH
    inPlace <- trainer = "ppo", guarded <- Guarded, record <- tracker,
    whole <- {n \in 1 .. TotalSteps : Whole(n)},
    progress <- IF pc \notin {"load", "failed"} THEN weights
                ELSE IF CannotLoad THEN Torn ELSE Latest

\* A guarded run loses by a crash the steps since the last save and nothing
\* else, unless the crash finds the PPO trainer's tracker open, or the file of
\* another SFT rank's loader half written: then the restart stops. Any other
\* run may have removed the weights on record, and then a PPO run stops.
ImplementsDurability == Durability!Spec

\* Whatever the crashes, the run ends: with its last step saved when it saves
\* at all, or failed, at a restart that cannot read what a crash left.
TrainingEnds ==
    <>[](\/ pc = "failed" /\ crashes > 0
         \/ pc = "done" /\ (SaveFreq > 0 => tracker = TotalSteps))
=============================================================================
