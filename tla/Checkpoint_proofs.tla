-------------------------- MODULE Checkpoint_proofs --------------------------
(***************************************************************************)
(* Theorems about Checkpoint, for every configuration of the run: both     *)
(* trainers, every limit, with a best checkpoint and without. What differs *)
(* between them is in the properties themselves: in a guarded run the      *)
(* tracker's checkpoint is never removed (RotationInv), in the others a    *)
(* restart is kept from using what is left of it (FilesInv, LostInv).      *)
(***************************************************************************)
EXTENDS Checkpoint, SequenceTheorems, FiniteSetTheorems, TLAPS

Saving == {"capacity", "makeRoom", "write", "rotate", "data", "tracker", "barrier"}
InProgress == {"train", "validate", "save", "bestMeta", "next"} \cup Saving

\* The save in progress has registered the checkpoint of role o.
Registered(o) ==
    \/ pc \in {"data", "tracker", "barrier"}
    \/ (pc = "rotate" /\ role = o)
    \/ (pc \in Saving /\ role = "critic" /\ o = "actor")

WeightsInv ==
    /\ pc = "train" => (globalStep \in 1 .. TotalSteps /\ weights = globalStep - 1)
    /\ pc \in InProgress \ {"train"} =>
        globalStep \in 1 .. TotalSteps /\ weights = globalStep
    /\ (pc \in InProgress /\ FolderStays) => position[Rank0] = weights
    /\ pc \in InProgress =>
        \A r \in Ranks : /\ position[r] <= weights
                         /\ (crashes = 0 /\ r \in Loaders) => position[r] = weights
    /\ pc \in Saving =>
        /\ role \in Roles
        /\ \/ path = globalStep
           \/ /\ path = Best /\ role = "actor" /\ tracksBest
              /\ pc \in {"capacity", "makeRoom", "write", "rotate"}
    /\ pc = "bestMeta" => tracksBest

\* The tracker names a step before the one that is being saved, except in a
\* run that has begun again because the folder was gone.
TrackerInv ==
    /\ FolderStays =>
        /\ pc \in InProgress \ {"next", "tracker", "barrier"} => tracker \in 0 .. globalStep - 1
        /\ pc = "next" => tracker \in 0 .. globalStep
    /\ pc = "tracker" => tracker = Torn
    /\ pc = "barrier" => tracker = path
    /\ tracker = Torn => trainer = "ppo" /\ pc \in {"tracker", "load", "failed"}
    /\ (crashes = 0 /\ pc = "load") => tracker = NoFile

\* The newest checkpoint that may be in the list of a role.
Newest(o) ==
    IF pc = "next" \/ (Registered(o) /\ path # Best) THEN globalStep ELSE globalStep - 1

\* Folders in the lists are older than the one being saved.
ListInv ==
    /\ pc \in InProgress =>
        \A o \in AllRoles : \A i \in 1 .. Len(saved[o]) : saved[o][i] <= Newest(o)
    /\ \A i \in 1 .. Len(removing) : removing[i] < globalStep
    /\ removing # <<>> => pc \in {"makeRoom", "rotate"}
    /\ pc = "load" => \A o \in AllRoles : saved[o] = <<>>

\* A run that is behind the tracker has found its folder gone.
LostInv ==
    /\ (pc \in InProgress /\ (\/ tracker > weights
                              \/ tracker = weights /\ tracker # 0
                                 /\ pc \in {"validate", "save", "capacity", "makeRoom"})) =>
        \A o \in Roles, r \in Ranks : shard[o][tracker][r] = NoFile
    /\ (pc = "write" /\ path = tracker /\ path # Best) =>
        \A r \in toWrite : shard[role][path][r] = NoFile

Increasing(s) == \A i, j \in 1 .. Len(s) : i < j => s[i] < s[j]

\* What the tracker names is the last in the list of every role, until the
\* role registers the next, and so it is not among those that are removed.
RotationInv ==
    /\ \A o \in Roles :
        /\ Increasing(saved[o])
        /\ saved[o] # <<>> => saved[o][Len(saved[o])] = IF Registered(o) THEN path ELSE tracker
    /\ (pc \in {"makeRoom", "write"} /\ limit > 0) => Len(saved[role]) < limit
    /\ removing # <<>> => pc = "makeRoom"
    /\ \A i \in 1 .. Len(removing) : removing[i] # tracker

\* A file is whole, torn or not there, and so are those of the tracker's folder.
FilesInv ==
    /\ \A o \in AllRoles, n \in 1 .. TotalSteps, r \in Ranks : shard[o][n][r] \in {n, NoFile, Torn}
    /\ \A n \in Folders, r \in Ranks : data[n][r] <= n
    /\ (FolderStays /\ tracker \in 1 .. TotalSteps) => data[tracker][Rank0] = tracker
    /\ (Guarded /\ tracker \in 1 .. TotalSteps) => Whole(tracker)
    /\ pc = "write" => \A r \in Ranks \ toWrite : shard[role][path][r] = weights
    /\ path # Best =>
        \A o \in Roles : Registered(o) => \A r \in Ranks : shard[o][path][r] = path
    /\ pc = "rotate" => Rank0 \in toWrite
    /\ pc \in {"tracker", "barrier"} => Rank0 \notin toWrite
    /\ (pc \in {"data", "tracker"} /\ Rank0 \notin toWrite /\ FolderStays) =>
        data[path][Rank0] = path

Inv ==
    /\ CheckpointTypeOK /\ WeightsInv /\ TrackerInv /\ ListInv /\ LostInv /\ FilesInv
    /\ Guarded => RotationInv

-----------------------------------------------------------------------------
(* Types, for the actions that need more than their definition *)

\* The limit is a number.
LEMMA LimitType == Inv => limit \in Nat
  BY CheckpointAssumption DEF Inv, CheckpointTypeOK

\* Removing the first n of a list of folders keeps lists of folders.
LEMMA RemoveType ==
    ASSUME Inv, NEW paths \in Seq(Folders), NEW n \in 0 .. Len(paths), Remove(paths, n)
    PROVE  removing' \in Seq(Folders) /\ saved' \in [AllRoles -> Seq(Folders)]
<1>1. SubSeq(paths, 1, n) \in Seq(Folders) /\ SubSeq(paths, n + 1, Len(paths)) \in Seq(Folders)
  BY SubSeqProperties
<1>2. QED
  BY <1>1 DEF Remove, Inv, CheckpointTypeOK, MemoryTypeOK

\* A list of increasing folders, its first n removed: the rest still increases, ends
\* with the same folder, and that is above all that were removed.
LEMMA Split ==
    ASSUME NEW s \in Seq(Folders), Increasing(s), NEW n \in Nat, n <= Len(s)
    PROVE  /\ Len(SubSeq(s, 1, n)) = n
           /\ Len(SubSeq(s, n + 1, Len(s))) = Len(s) - n
           /\ \A i \in 1 .. n : SubSeq(s, 1, n)[i] = s[i]
           /\ Increasing(SubSeq(s, n + 1, Len(s)))
           /\ n < Len(s) => /\ SubSeq(s, n + 1, Len(s)) # <<>>
                            /\ SubSeq(s, n + 1, Len(s))[Len(SubSeq(s, n + 1, Len(s)))] = s[Len(s)]
                            /\ \A i \in 1 .. n : s[i] < s[Len(s)]
<1> DEFINE t == SubSeq(s, n + 1, Len(s))
<1>1. Len(s) \in Nat /\ \A i \in 1 .. Len(s) : s[i] \in Nat
  BY CheckpointAssumption DEF Folders
<1>2. Len(SubSeq(s, 1, n)) = n /\ \A i \in 1 .. n : SubSeq(s, 1, n)[i] = s[i]
  BY <1>1, SubSeqProperties
<1>3. t \in Seq(Folders) /\ Len(t) = Len(s) - n
  BY <1>1, SubSeqProperties
<1>4. \A i \in 1 .. Len(t) : t[i] = s[n + i]
  BY <1>1, <1>3, SubSeqProperties
<1> HIDE DEF t
<1>5. Increasing(t)
  <2> SUFFICES ASSUME NEW i \in 1 .. Len(t), NEW j \in 1 .. Len(t), i < j PROVE t[i] < t[j]
    BY DEF Increasing
  <2>1. n + i \in 1 .. Len(s) /\ n + j \in 1 .. Len(s) /\ n + i < n + j
    BY <1>1, <1>3
  <2>2. s[n + i] < s[n + j]
    BY <2>1 DEF Increasing
  <2>3. QED
    BY <1>4, <2>2
<1>6. ASSUME n < Len(s)
      PROVE t # <<>> /\ t[Len(t)] = s[Len(s)] /\ \A i \in 1 .. n : s[i] < s[Len(s)]
  <2>1. Len(t) \in 1 .. Len(t) /\ n + Len(t) = Len(s) /\ Len(t) # 0
    BY <1>1, <1>3, <1>6
  <2>2. t[Len(t)] = s[Len(s)]
    BY <1>4, <2>1
  <2>3. \A i \in 1 .. n : s[i] < s[Len(s)]
    BY <1>1, <1>6 DEF Increasing
  <2>4. QED
    BY <2>1, <2>2, <2>3
<1>7. QED
  BY <1>2, <1>3, <1>5, <1>6 DEF t

\* A restart that can read what it finds restores the step the tracker names;
\* it begins again when there was no save or no folder is left of it.
LEMMA LatestCheckpoint ==
    ASSUME Inv, ~ CannotLoad
    PROVE  /\ \/ Latest = 0 /\ (tracker = 0 \/ ~ FolderExists(tracker))
              \/ Latest = tracker /\ Whole(tracker) /\ LoaderReadable(tracker)
           /\ Latest \in Folders /\ tracker \in Folders
<1> USE CheckpointAssumption DEF Inv
<1>1. tracker \in Folders
  BY DEF CannotLoad, CheckpointTypeOK, DiskTypeOK, Files, Folders, Torn
<1>2. CASE Latest = NoFile
  BY <1>1, <1>2 DEF Latest, NoFile, Torn, Folders
<1>3. CASE Latest # NoFile
  <2>1. Latest = tracker /\ Readable(tracker) /\ LoaderReadable(tracker) /\ tracker \in 1 .. TotalSteps
    BY <1>1, <1>3 DEF Latest, CannotLoad, NoFile, Folders
  <2>2. Whole(tracker)
    BY <2>1 DEF Readable, Whole, FilesInv, Roles, AllRoles
  <2>3. QED
    BY <1>1, <2>1, <2>2
<1>4. QED
  BY <1>2, <1>3

\* What a restart finds that can read its files.
Found ==
    /\ \/ Latest = 0 /\ (tracker = 0 \/ ~ FolderExists(tracker))
       \/ Latest = tracker /\ Whole(tracker)
    /\ tracker \in Folders

\* The same of the next state.
LEMMA NextLatestCheckpoint == Inv' /\ (~ CannotLoad)' => Found'
<1>1. Inv /\ (~ CannotLoad) => Found
  BY LatestCheckpoint DEF Found
<1>2. QED
  BY <1>1, PTL

\* A folder that stays is found by a restart.
LEMMA FolderFound ==
    ASSUME Inv, FolderStays, tracker \in 1 .. TotalSteps
    PROVE  FolderExists(tracker) /\ Latest = tracker
  BY CheckpointAssumption DEF Inv, FilesInv, FolderExists, Latest, NoFile, Torn

\* (Types) The state a restart loads.
LEMMA LoadType ==
    ASSUME Inv, Load PROVE CheckpointTypeOK'
<1> USE CheckpointAssumption DEF Inv, config
<1>1. ~ CannotLoad /\ Latest \in Folders
  BY LatestCheckpoint DEF Load
<1>2. weights' \in 0 .. TotalSteps
  <2>1. CASE Latest = 0
    BY <2>1 DEF Load, NoFile
  <2>2. CASE Latest # 0
    BY <1>1, <2>2, LatestCheckpoint DEF Load, Whole, Roles, AllRoles, NoFile, Folders
  <2>3. QED
    BY <2>1, <2>2
<1>3. \A r \in Ranks : position'[r] \in 0 .. TotalSteps
  <2>1. CASE Latest = 0
    BY <2>1 DEF Load, NoFile
  <2>2. CASE Latest # 0
    <3>1. Latest = tracker /\ LoaderReadable(tracker) /\ tracker \in Folders
      BY <1>1, <2>2, LatestCheckpoint
    <3>2. \A r \in Ranks : data[tracker][r] \in Files /\ (r \in Loaders => data[tracker][r] # Torn)
      BY <3>1 DEF LoaderReadable, CheckpointTypeOK, DiskTypeOK
    <3>3. QED
      BY <2>2, <3>1, <3>2 DEF Load, NoFile, Torn, Files
  <2>3. QED
    BY <2>1, <2>2
<1>4. position' \in [Ranks -> 0 .. TotalSteps]
  BY <1>3 DEF Load
<1>5. globalStep' \in 0 .. TotalSteps + 1
  BY <1>1 DEF Load, Folders
<1>6. QED
  BY <1>2, <1>4, <1>5 DEF Load, CheckpointTypeOK, DiskTypeOK, MemoryTypeOK, disk, saving

\* (Types) A step of training stays within the steps of the run.
LEMMA TrainType ==
    ASSUME Inv, Train PROVE CheckpointTypeOK'
<1> USE CheckpointAssumption DEF Inv, config
<1>1. weights' \in 0 .. TotalSteps
  BY DEF Train, WeightsInv
<1>2. \A r \in Ranks : position'[r] \in 0 .. TotalSteps
  BY DEF Train, WeightsInv, InProgress, CheckpointTypeOK, MemoryTypeOK
<1>3. position' \in [Ranks -> 0 .. TotalSteps]
  BY <1>2 DEF Train
<1>4. QED
  BY <1>1, <1>3 DEF Train, CheckpointTypeOK, DiskTypeOK, MemoryTypeOK, config, disk, saving

\* (Types) The step counter.
LEMMA NextStepType ==
    ASSUME Inv, NextStep PROVE CheckpointTypeOK'
<1> USE CheckpointAssumption DEF Inv, config
<1>1. globalStep' \in 0 .. TotalSteps + 1 /\ pc' \in {"done", "train"}
  BY DEF NextStep, WeightsInv, InProgress, CheckpointTypeOK, MemoryTypeOK
<1>4. QED
  BY <1>1 DEF NextStep, CheckpointTypeOK, DiskTypeOK, MemoryTypeOK, config, disk, saving

\* (Types) Making room.
LEMMA EnsureCapacityType ==
    ASSUME Inv, EnsureCapacity PROVE CheckpointTypeOK'
<1> USE CheckpointAssumption DEF Inv, config
<1>1. saved[role] \in Seq(Folders)
  BY DEF CheckpointTypeOK, MemoryTypeOK
<1>2. Surplus \in 0 .. Len(saved[role])
  <2>1. Keep \in Nat /\ Len(saved[role]) \in Nat
    BY <1>1, LimitType DEF Keep
  <2>2. CASE Keep > 1 /\ Len(saved[role]) >= Keep
    <3>1. Surplus = Len(saved[role]) - Keep + 1
      BY <2>2 DEF Surplus
    <3>2. QED
      BY <2>1, <2>2, <3>1
  <2>3. CASE ~ (Keep > 1 /\ Len(saved[role]) >= Keep)
    <3>1. Surplus = 0
      BY <2>3 DEF Surplus
    <3>2. QED
      BY <2>1, <3>1
  <2>4. QED
    BY <2>2, <2>3
<1>3. removing' \in Seq(Folders) /\ saved' \in [AllRoles -> Seq(Folders)]
  BY <1>1, <1>2, RemoveType DEF EnsureCapacity
<1>4. QED
  BY <1>3 DEF EnsureCapacity, CheckpointTypeOK, DiskTypeOK, MemoryTypeOK, disk

\* (Types) Registering.
LEMMA RegisterType ==
    ASSUME Inv, Register PROVE CheckpointTypeOK'
<1> USE CheckpointAssumption DEF Inv, config
<1> DEFINE paths == Append(saved[role], path)
<1>1. paths \in Seq(Folders) /\ Len(paths) \in Nat
  BY DEF CheckpointTypeOK, MemoryTypeOK
<1>2. Keep \in Nat
  BY LimitType DEF Keep
<1> HIDE DEF paths
<1>3. Excess(paths) \in 0 .. Len(paths)
  BY <1>1, <1>2 DEF Excess
<1>4. removing' \in Seq(Folders) /\ saved' \in [AllRoles -> Seq(Folders)]
  BY <1>1, <1>3, RemoveType DEF Register, paths
<1>5. QED
  BY <1>4 DEF Register, CheckpointTypeOK, DiskTypeOK, MemoryTypeOK, disk, Loaders

\* (Types) Removing one file.
LEMMA RemoveFileType ==
    ASSUME Inv, RemoveFile PROVE CheckpointTypeOK'
<1> USE CheckpointAssumption DEF Inv, config
<1> DEFINE f == Head(removing)
<1>1. f \in Folders /\ Tail(removing) \in Seq(Folders) /\ removing \in Seq(Folders)
  BY HeadTailProperties DEF RemoveFile, CheckpointTypeOK, MemoryTypeOK
<1>2. removing' \in Seq(Folders)
  BY <1>1 DEF RemoveFile
<1>3. NoFile \in Files
  BY DEF Files, NoFile, Torn
<1> HIDE DEF f
<1>4. \/ \E r \in Ranks : shard' = [shard EXCEPT ![role][f][r] = NoFile] /\ UNCHANGED data
      \/ \E r \in Ranks : data' = [data EXCEPT ![f][r] = NoFile] /\ UNCHANGED shard
      \/ UNCHANGED <<shard, data>>
  BY DEF RemoveFile, f
<1>5. shard' \in [AllRoles -> [Folders -> [Ranks -> Files]]]
  <2>1. ASSUME NEW r \in Ranks, shard' = [shard EXCEPT ![role][f][r] = NoFile]
        PROVE  shard' \in [AllRoles -> [Folders -> [Ranks -> Files]]]
    <3>1. [shard[role][f] EXCEPT ![r] = NoFile] \in [Ranks -> Files]
      BY <1>1, <1>3 DEF CheckpointTypeOK, DiskTypeOK, MemoryTypeOK
    <3>2. shard' = [shard EXCEPT ![role][f] = [shard[role][f] EXCEPT ![r] = NoFile]]
      BY <2>1
    <3>3. QED
      BY <1>1, <3>1, <3>2 DEF CheckpointTypeOK, DiskTypeOK
  <2>2. QED
    BY <1>4, <2>1 DEF CheckpointTypeOK, DiskTypeOK
<1>6. data' \in [Folders -> [Ranks -> Files]]
  <2>1. data \in [Folders -> [Ranks -> Files]]
    BY DEF CheckpointTypeOK, DiskTypeOK
  <2>2. QED
    BY <1>1, <1>3, <1>4, <2>1
<1>7. QED
  BY <1>2, <1>5, <1>6 DEF RemoveFile, CheckpointTypeOK, DiskTypeOK, MemoryTypeOK

\* (Types) Writing a shard.
LEMMA WriteShardType ==
    ASSUME Inv, NEW r \in Ranks, WriteShard(r) PROVE CheckpointTypeOK'
<1> USE CheckpointAssumption DEF Inv, config
<1>1. weights \in Files
  BY DEF CheckpointTypeOK, MemoryTypeOK, Files, Torn
<1>2. shard' \in [AllRoles -> [Folders -> [Ranks -> Files]]]
  BY <1>1 DEF WriteShard, CheckpointTypeOK, DiskTypeOK
<1>4. QED
  BY <1>2 DEF WriteShard, CheckpointTypeOK, DiskTypeOK, MemoryTypeOK

\* (Types) Writing the state of a data loader.
LEMMA SaveDataType ==
    ASSUME Inv, NEW r \in Ranks, SaveData(r) PROVE CheckpointTypeOK'
<1> USE CheckpointAssumption DEF Inv, config
<1>1. position[r] \in Files
  BY DEF CheckpointTypeOK, MemoryTypeOK, Files, Torn
<1>2. data' \in [Folders -> [Ranks -> Files]]
  BY <1>1 DEF SaveData, CheckpointTypeOK, DiskTypeOK
<1>4. QED
  BY <1>2 DEF SaveData, CheckpointTypeOK, DiskTypeOK, MemoryTypeOK

\* (Types) The three writes of the tracker.
LEMMA TrackerType ==
    ASSUME Inv, OpenTracker \/ WriteTracker \/ RenameTracker PROVE CheckpointTypeOK'
<1> USE CheckpointAssumption DEF Inv, config
<1>1. tracker' \in Files
  BY DEF OpenTracker, WriteTracker, RenameTracker, CheckpointTypeOK, MemoryTypeOK, Folders,
    Files, Torn
<1>2. DiskTypeOK'
  BY <1>1 DEF OpenTracker, WriteTracker, RenameTracker, CheckpointTypeOK, DiskTypeOK
<1>3. MemoryTypeOK'
  BY DEF OpenTracker, WriteTracker, RenameTracker, CheckpointTypeOK, MemoryTypeOK, saving
<1>4. QED
  BY <1>2, <1>3 DEF OpenTracker, WriteTracker, RenameTracker, CheckpointTypeOK

\* (Types) A crash leaves files torn, which is a file of the model.
LEMMA CrashType ==
    ASSUME Inv, Crash PROVE CheckpointTypeOK'
<1> USE CheckpointAssumption DEF Inv, config
<1>1. Torn \in Files /\ NoFile \in Files
  BY DEF Files, Torn, NoFile
<1>2. PICK torn \in SUBSET toWrite :
        /\ shard' = IF pc # "write" THEN shard
                    ELSE [shard EXCEPT ![role][path] =
                              [r \in Ranks |-> IF r \in torn THEN Torn ELSE @[r]]]
        /\ data' = IF ~ \E r \in torn : SavesData(r) THEN data
                   ELSE [data EXCEPT ![path] =
                            [r \in Ranks |-> IF r \in torn /\ SavesData(r) THEN Torn ELSE @[r]]]
  BY Zenon DEF Crash
<1>3. shard' \in [AllRoles -> [Folders -> [Ranks -> Files]]]
  <2>1. CASE pc # "write"
    BY <1>2, <2>1 DEF CheckpointTypeOK, DiskTypeOK
  <2>2. CASE pc = "write"
    <3> DEFINE new == [r \in Ranks |-> IF r \in torn THEN Torn ELSE shard[role][path][r]]
    <3>1. new \in [Ranks -> Files]
      BY <1>1 DEF CheckpointTypeOK, DiskTypeOK, MemoryTypeOK
    <3>2. shard' = [shard EXCEPT ![role][path] = new]
      BY <1>2, <2>2
    <3> HIDE DEF new
    <3>3. QED
      BY <3>1, <3>2 DEF CheckpointTypeOK, DiskTypeOK
  <2>3. QED
    BY <2>1, <2>2
<1>4. data' \in [Folders -> [Ranks -> Files]]
  <2>1. CASE ~ \E r \in torn : SavesData(r)
    BY <1>2, <2>1 DEF CheckpointTypeOK, DiskTypeOK
  <2>2. CASE \E r \in torn : SavesData(r)
    <3> DEFINE new == [r \in Ranks |-> IF r \in torn /\ SavesData(r) THEN Torn ELSE data[path][r]]
    <3>1. new \in [Ranks -> Files]
      BY <1>1 DEF CheckpointTypeOK, DiskTypeOK, MemoryTypeOK
    <3>2. data' = [data EXCEPT ![path] = new]
      BY <1>2, <2>2
    <3> HIDE DEF new
    <3>3. QED
      BY <3>1, <3>2 DEF CheckpointTypeOK, DiskTypeOK
  <2>3. QED
    BY <2>1, <2>2
<1>5. MemoryTypeOK'
  BY DEF Crash, CheckpointTypeOK, MemoryTypeOK, Blank, NoFile, Best, Folders, AllRoles
<1>6. QED
  BY <1>3, <1>4, <1>5 DEF Crash, CheckpointTypeOK, DiskTypeOK

\* A restart continues with the step after the one it loaded.
LEMMA LoadRest ==
    ASSUME Inv, Load PROVE WeightsInv' /\ TrackerInv' /\ LostInv'
<1> USE CheckpointAssumption DEF Inv, config
<1>1. /\ ~ CannotLoad /\ Latest \in 0 .. TotalSteps /\ tracker \in 0 .. TotalSteps
      /\ tracker' = tracker /\ globalStep' = Latest + 1 /\ UNCHANGED <<config, crashes, shard>>
      /\ pc = "load" /\ pc' = IF Latest < TotalSteps THEN "train" ELSE "done"
  BY LatestCheckpoint DEF Load, Folders, disk
<1>2. weights' = Latest /\ \A r \in Ranks : position'[r] <= Latest
  <2>1. CASE Latest = 0
    BY <2>1 DEF Load, NoFile
  <2>2. CASE Latest # 0
    BY <1>1, <2>2, LatestCheckpoint DEF Load, Whole, Roles, AllRoles, NoFile, FilesInv, Folders
  <2>3. QED
    BY <2>1, <2>2
<1>3. FolderStays => (Latest = tracker /\ position'[Rank0] = Latest)
  <2>1. CASE tracker = 0
    BY <1>1, <2>1, LatestCheckpoint DEF Load, NoFile
  <2>2. CASE tracker # 0 /\ FolderStays
    BY <1>1, <2>2, FolderFound DEF Load, FilesInv, Loaders, NoFile
  <2>3. QED
    BY <2>1, <2>2
<1>4. crashes = 0 => Latest = 0 /\ \A r \in Ranks : position'[r] = 0
  BY <1>1, LatestCheckpoint DEF TrackerInv, Load, NoFile
<1>5. Loaders' = Loaders /\ (FolderStays' <=> FolderStays) /\ Roles' = Roles
  BY <1>1 DEF Loaders, FolderStays, Roles
<1>6. WeightsInv'
  BY <1>1, <1>2, <1>3, <1>4, <1>5 DEF WeightsInv, InProgress, Saving
<1>7. TrackerInv'
  BY <1>1, <1>3, <1>5 DEF TrackerInv, InProgress, Saving, Torn
<1>8. LostInv'
  <2>1. CASE Latest = tracker
    BY <1>1, <1>2, <2>1 DEF LostInv, InProgress, Saving
  <2>2. CASE Latest = 0 /\ tracker # 0 /\ ~ FolderExists(tracker)
    BY <1>1, <1>2, <1>5, <2>2 DEF LostInv, FolderExists
  <2>3. QED
    BY <1>1, <2>1, <2>2, LatestCheckpoint
<1>9. QED
  BY <1>6, <1>7, <1>8

\* Weights and loaders advance together.
LEMMA TrainRest ==
    ASSUME Inv, Train PROVE WeightsInv' /\ LostInv'
<1> USE CheckpointAssumption DEF Inv, config
<1>1. /\ globalStep \in 1 .. TotalSteps /\ weights = globalStep - 1 /\ pc = "train"
      /\ FolderStays => position[Rank0] = weights
      /\ \A r \in Ranks : /\ position[r] <= weights /\ position[r] \in Nat
                          /\ (crashes = 0 /\ r \in Loaders) => position[r] = weights
      /\ Rank0 \in Loaders /\ tracker \in Int
  BY DEF Train, WeightsInv, InProgress, Loaders, CheckpointTypeOK, MemoryTypeOK, DiskTypeOK, Files,
    Torn
<1>2. /\ weights' = globalStep /\ pc' = "validate"
      /\ UNCHANGED <<trainer, limit, tracksBest, globalStep, crashes, tracker, shard>>
      /\ \A r \in Ranks : position'[r] = IF r \in Loaders THEN position[r] + 1 ELSE position[r]
  BY <1>1 DEF Train, disk
<1>3. Loaders' = Loaders /\ (FolderStays' <=> FolderStays) /\ Roles' = Roles
  BY <1>2 DEF Loaders, FolderStays, Roles
<1>4. /\ FolderStays => position'[Rank0] = weights'
      /\ \A r \in Ranks : /\ position'[r] <= weights'
                          /\ (crashes = 0 /\ r \in Loaders) => position'[r] = weights'
  BY <1>1, <1>2
<1>5. WeightsInv'
  BY <1>1, <1>2, <1>3, <1>4 DEF WeightsInv, InProgress, Saving
<1>6. LostInv'
  BY <1>1, <1>2, <1>3 DEF LostInv, InProgress, Saving
<1>7. QED
  BY <1>5, <1>6

\* In a guarded run every save is that of a step.
LEMMA GuardedSave ==
    ASSUME Inv, Guarded
    PROVE  /\ limit # 1 /\ limit \in Nat /\ ~ tracksBest /\ FolderStays /\ RotationInv
           /\ pc # "bestMeta"
           /\ pc \in Saving => path = globalStep /\ path # Best /\ role \in Roles
<1>1. limit # 1 /\ limit \in Nat /\ ~ tracksBest /\ FolderStays /\ RotationInv
  BY LimitType DEF Inv, Guarded, FolderStays
<1>2. QED
  BY <1>1, CheckpointAssumption DEF Inv, WeightsInv, InProgress, Best

\* Making room removes folders below the one the tracker names.
LEMMA EnsureRotation ==
    ASSUME Inv, Guarded, EnsureCapacity PROVE RotationInv'
<1> USE CheckpointAssumption DEF Inv, config
<1> DEFINE s == saved[role]
           n == Surplus
<1>1. s \in Seq(Folders) /\ Len(s) \in Nat
  BY DEF CheckpointTypeOK, MemoryTypeOK
<1>0. limit # 1 /\ limit \in Nat /\ RotationInv
  BY GuardedSave
<1>2. path # Best /\ role \in Roles /\ ~ Registered(role)
  BY GuardedSave DEF EnsureCapacity, Saving, Registered
<1>3. /\ n \in Nat /\ (Len(s) > 0 => n < Len(s)) /\ n <= Len(s)
      /\ limit > 0 => Len(s) - n < limit
  <2>1. Keep = limit /\ limit # 1 /\ limit \in Nat
    BY <1>0, <1>2 DEF Keep
  <2>2. CASE Keep > 1 /\ Len(s) >= Keep
    <3>1. n = Len(s) - Keep + 1
      BY <2>2 DEF Surplus
    <3>2. QED
      BY <1>1, <2>1, <2>2, <3>1
  <2>3. CASE ~ (Keep > 1 /\ Len(s) >= Keep)
    <3>1. n = 0
      BY <2>3 DEF Surplus
    <3>2. QED
      BY <1>1, <2>1, <2>3, <3>1
  <2>4. QED
    BY <2>2, <2>3
<1> HIDE DEF n
<1> DEFINE t == SubSeq(s, n + 1, Len(s))
<1>4. removing' = SubSeq(s, 1, n) /\ saved' = [saved EXCEPT ![role] = t]
  BY DEF EnsureCapacity, Remove, n
<1>6. Increasing(s) /\ (s # <<>> => s[Len(s)] = tracker)
  BY <1>0, <1>1, <1>2 DEF RotationInv
<1>5. /\ Len(removing') = n /\ \A i \in 1 .. n : removing'[i] = s[i] /\ s[i] < s[Len(s)]
      /\ Increasing(t) /\ Len(t) = Len(s) - n
      /\ t # <<>> => t[Len(t)] = tracker
  <2> HIDE DEF s
  <2>1. /\ Len(removing') = n /\ \A i \in 1 .. n : removing'[i] = s[i]
        /\ Increasing(t) /\ Len(t) = Len(s) - n
    BY <1>1, <1>3, <1>4, <1>6, Split
  <2>2. CASE s = <<>>
    <3>1. n = 0 /\ Len(t) = 0 /\ t \in Seq(Folders)
      BY <1>1, <1>3, <2>1, <2>2, SubSeqProperties
    <3>2. QED
      BY <2>1, <3>1
  <2>3. CASE s # <<>>
    <3>1. n < Len(s)
      BY <1>1, <1>3, <2>3
    <3>2. QED
      BY <1>1, <1>3, <1>6, <2>1, <2>3, <3>1, Split
  <2>4. QED
    BY <2>2, <2>3
<1>7. \A i \in 1 .. Len(removing') : removing'[i] # tracker
  <2> SUFFICES ASSUME NEW i \in 1 .. n PROVE s[i] # tracker
    BY <1>5 
  <2>1. s[i] < s[Len(s)] /\ s[Len(s)] = tracker
    BY <1>1, <1>3, <1>5, <1>6
  <2>2. s[i] \in Nat
    BY <1>1, <1>3 DEF Folders
  <2>3. QED
    BY <2>1, <2>2
<1> HIDE DEF t, s
<1>8. UNCHANGED <<path, tracker, role, trainer, limit>> /\ pc = "capacity" /\ pc' = "makeRoom"
  BY DEF EnsureCapacity, disk
<1>9. Roles' = Roles /\ \A o \in Roles : Registered(o)' <=> Registered(o)
  BY <1>8 DEF Registered, Saving, Roles
<1>10. \A o \in Roles : saved'[o] = IF o = role THEN t ELSE saved[o]
  BY <1>4 DEF CheckpointTypeOK, MemoryTypeOK, Roles, AllRoles
<1>11. ASSUME NEW o \in Roles
       PROVE  /\ Increasing(saved'[o])
              /\ saved'[o] # <<>> => saved'[o][Len(saved'[o])] = IF Registered(o) THEN path ELSE tracker
  <2>1. CASE o = role
    BY <1>2, <1>5, <1>10, <2>1
  <2>2. CASE o # role
    BY <1>0, <1>10, <2>2 DEF RotationInv
  <2>3. QED
    BY <2>1, <2>2
<1>12. limit > 0 => Len(saved'[role]) < limit
  BY <1>2, <1>3, <1>5, <1>10
<1>13. QED
  BY <1>7, <1>8, <1>9, <1>11, <1>12 DEF RotationInv

\* Registering removes nothing, since room was made before.
LEMMA RegisterRotation ==
    ASSUME Inv, Guarded, Register PROVE RotationInv'
<1> USE CheckpointAssumption DEF Inv, config
<1> DEFINE s == saved[role]
           t == Append(s, path)
<1>1. s \in Seq(Folders) /\ Len(s) \in Nat /\ path \in Folders
  BY DEF CheckpointTypeOK, MemoryTypeOK
<1>0. limit # 1 /\ limit \in Nat /\ RotationInv
  BY GuardedSave
<1>2. /\ path # Best /\ role \in Roles /\ ~ Registered(role) /\ path = globalStep
      /\ globalStep \in Nat /\ tracker \in 0 .. globalStep - 1
  BY GuardedSave DEF Register, WeightsInv, TrackerInv, Saving, InProgress, Registered
<1>3. Increasing(s) /\ (s # <<>> => s[Len(s)] = tracker)
  BY <1>0, <1>1, <1>2 DEF RotationInv
<1>4. /\ t \in Seq(Folders) /\ Len(t) = Len(s) + 1 /\ t[Len(t)] = path
      /\ \A i \in 1 .. Len(s) : t[i] = s[i]
  BY <1>1
<1>5. Excess(t) = 0
  <2>1. limit > 0 => Len(s) < limit
    BY <1>0 DEF Register, RotationInv
  <2> HIDE DEF s, t
  <2>2. Keep = limit /\ limit \in Nat
    BY <1>0, <1>2 DEF Keep
  <2>3. ~ (Keep > 0 /\ Len(t) > Keep)
    BY <1>1, <1>4, <2>1, <2>2
  <2>4. QED
    BY <2>3 DEF Excess
<1>6. removing' = SubSeq(t, 1, 0) /\ saved' = [saved EXCEPT ![role] = SubSeq(t, 1, Len(t))]
  BY <1>5 DEF Register, Remove
<1>7. removing' = <<>> /\ SubSeq(t, 1, Len(t)) = t
  BY <1>4, <1>6
<1>8. Increasing(t)
  <2> SUFFICES ASSUME NEW i \in 1 .. Len(t), NEW j \in 1 .. Len(t), i < j PROVE t[i] < t[j]
    BY DEF Increasing
  <2> HIDE DEF s, t
  <2>1. \A k \in 1 .. Len(s) : s[k] \in Nat
    BY <1>1 DEF Folders
  <2>2. i \in 1 .. Len(s)
    BY <1>1, <1>4
  <2>3. CASE j = Len(t)
    <3>1. s # <<>> /\ Len(s) \in 1 .. Len(s)
      BY <1>1, <2>2
    <3>2. s[i] <= s[Len(s)]
      BY <1>1, <1>3, <2>1, <2>2, <3>1 DEF Increasing
    <3>3. QED
      BY <1>2, <1>3, <1>4, <2>1, <2>2, <2>3, <3>1, <3>2
  <2>4. CASE j # Len(t)
    BY <1>1, <1>3, <1>4, <2>2, <2>4 DEF Increasing
  <2>5. QED
    BY <2>3, <2>4
<1> HIDE DEF s
<1>9. UNCHANGED <<path, tracker, role, trainer, limit>> /\ pc = "write" /\ pc' = "rotate"
  BY DEF Register, disk
<1>10. Roles' = Roles /\ \A o \in Roles : o # role => (Registered(o)' <=> Registered(o))
  BY <1>2, <1>9 DEF Registered, Saving, Roles
<1>11. \A o : o = role => Registered(o)'
  BY <1>9 DEF Registered
<1>12. \A o \in Roles : saved'[o] = IF o = role THEN t ELSE saved[o]
  BY <1>6, <1>7 DEF CheckpointTypeOK, MemoryTypeOK, Roles, AllRoles
<1> HIDE DEF t
<1>13. ASSUME NEW o \in Roles
       PROVE  /\ Increasing(saved'[o])
              /\ saved'[o] # <<>> => saved'[o][Len(saved'[o])] = IF Registered(o)' THEN path ELSE tracker
  <2>1. CASE o = role
    BY <1>4, <1>8, <1>11, <1>12, <2>1
  <2>2. CASE o # role
    BY <1>0, <1>10, <1>12, <2>2 DEF RotationInv
  <2>3. QED
    BY <2>1, <2>2
<1>14. QED
  BY <1>7, <1>9, <1>10, <1>13 DEF RotationInv

\* What removing a file leaves as it is.
LEMMA RemoveFileFrame ==
    ASSUME Inv, RemoveFile
    PROVE  /\ removing \in Seq(Folders) /\ removing # <<>> /\ pc \in {"makeRoom", "rotate"}
           /\ Head(removing) = removing[1] /\ Head(removing) \in Folders
           /\ Head(removing) < globalStep
           /\ removing' \in {removing, Tail(removing)}
           /\ UNCHANGED <<pc, saved, role, path, tracker, toWrite, globalStep, weights, crashes,
                          config>>
           /\ \A o \in AllRoles, n \in Folders, r \in Ranks :
                 /\ shard'[o][n][r] \in {shard[o][n][r], NoFile}
                 /\ (o # role \/ n # Head(removing)) => shard'[o][n][r] = shard[o][n][r]
           /\ \A n \in Folders, r \in Ranks :
                 /\ data'[n][r] \in {data[n][r], NoFile}
                 /\ (trainer # "sft" \/ n # Head(removing)) => data'[n][r] = data[n][r]
<1> USE CheckpointAssumption DEF Inv
<1> DEFINE f == Head(removing)
<1>1. /\ removing \in Seq(Folders) /\ removing # <<>> /\ pc \in {"makeRoom", "rotate"}
      /\ UNCHANGED <<pc, saved, role, path, tracker, toWrite, globalStep, weights, crashes, config>>
  BY DEF RemoveFile, CheckpointTypeOK, MemoryTypeOK, ListInv, config
<1>2. f = removing[1] /\ 1 \in 1 .. Len(removing) /\ f \in Folders
  BY <1>1
<1>3. f < globalStep
  BY <1>2 DEF ListInv
<1>4. removing' \in {removing, Tail(removing)}
  BY DEF RemoveFile
<1> HIDE DEF f
<1>5. \/ \E r \in Ranks : shard' = [shard EXCEPT ![role][f][r] = NoFile] /\ UNCHANGED data
      \/ trainer = "sft" /\ \E r \in Ranks : data' = [data EXCEPT ![f][r] = NoFile] /\ UNCHANGED shard
      \/ UNCHANGED <<shard, data>>
  BY DEF RemoveFile, f
<1>6. /\ shard \in [AllRoles -> [Folders -> [Ranks -> Files]]] /\ role \in AllRoles
      /\ data \in [Folders -> [Ranks -> Files]]
  BY DEF CheckpointTypeOK, DiskTypeOK, MemoryTypeOK
<1>7. ASSUME NEW o \in AllRoles, NEW n \in Folders, NEW r \in Ranks
      PROVE  /\ shard'[o][n][r] \in {shard[o][n][r], NoFile}
             /\ (o # role \/ n # f) => shard'[o][n][r] = shard[o][n][r]
  <2>1. CASE UNCHANGED shard
    BY <2>1
  <2>2. CASE \E q \in Ranks : shard' = [shard EXCEPT ![role][f][q] = NoFile]
    BY <1>2, <1>6, <2>2
  <2>3. QED
    BY <1>5, <2>1, <2>2
<1>8. ASSUME NEW n \in Folders, NEW r \in Ranks
      PROVE  /\ data'[n][r] \in {data[n][r], NoFile}
             /\ (trainer # "sft" \/ n # f) => data'[n][r] = data[n][r]
  <2>1. CASE UNCHANGED data
    BY <2>1
  <2>2. CASE trainer = "sft" /\ \E q \in Ranks : data' = [data EXCEPT ![f][q] = NoFile]
    BY <1>2, <1>6, <2>2
  <2>3. QED
    BY <1>5, <2>1, <2>2
<1>9. QED
  BY <1>1, <1>2, <1>3, <1>4, <1>7, <1>8 DEF f

\* In a guarded run the tracker's folder is not among those that are removed.
LEMMA RemoveFileRotation ==
    ASSUME Inv, Guarded, RemoveFile PROVE RotationInv' /\ Head(removing) # tracker
<1> USE CheckpointAssumption
<1>1. /\ removing \in Seq(Folders) /\ removing # <<>> /\ Head(removing) = removing[1]
      /\ removing' \in {removing, Tail(removing)}
      /\ UNCHANGED <<pc, saved, role, path, tracker, config>>
  BY RemoveFileFrame
<1>2. RotationInv
  BY GuardedSave
<1>3. /\ Roles' = Roles /\ limit' = limit /\ \A o : Registered(o)' <=> Registered(o)
  BY <1>1 DEF Roles, Registered, config
<1>4. \A i \in 1 .. Len(removing') : removing'[i] # tracker
  <2>1. CASE removing' = removing
    BY <1>2, <2>1 DEF RotationInv
  <2>2. CASE removing' = Tail(removing)
    <3>1. /\ Len(removing') = Len(removing) - 1
          /\ \A i \in 1 .. Len(removing') : removing'[i] = removing[i + 1]
      BY <1>1, <2>2
    <3>2. QED
      BY <1>1, <1>2, <3>1 DEF RotationInv
  <2>3. QED
    BY <1>1, <2>1, <2>2
<1>5. pc = "makeRoom"
  BY <1>1, <1>2 DEF RotationInv
<1>6. RotationInv'
  BY <1>1, <1>2, <1>3, <1>4, <1>5 DEF RotationInv
<1>7. 1 \in 1 .. Len(removing)
  BY <1>1
<1>8. QED
  BY <1>1, <1>2, <1>6, <1>7 DEF RotationInv

\* Removing a file takes nothing from what the save in progress has written
\* nor, while something stays in the tracker's folder, from what must stay.
LEMMA RemoveFileRest ==
    ASSUME Inv, RemoveFile PROVE FilesInv' /\ ListInv' /\ LostInv'
<1> USE CheckpointAssumption DEF Inv
<1> DEFINE f == Head(removing)
<1>1. /\ removing \in Seq(Folders) /\ removing # <<>> /\ pc \in {"makeRoom", "rotate"}
      /\ f \in Folders /\ f < globalStep /\ removing' \in {removing, Tail(removing)}
      /\ UNCHANGED <<pc, saved, role, path, tracker, toWrite, globalStep, weights, crashes, config>>
  BY RemoveFileFrame
<1>2. \A o \in AllRoles, n \in Folders, r \in Ranks :
         /\ shard'[o][n][r] \in {shard[o][n][r], NoFile}
         /\ (o # role \/ n # f) => shard'[o][n][r] = shard[o][n][r]
  BY RemoveFileFrame
<1>3. \A n \in Folders, r \in Ranks :
         /\ data'[n][r] \in {data[n][r], NoFile}
         /\ (trainer # "sft" \/ n # f) => data'[n][r] = data[n][r]
  BY RemoveFileFrame
<1>4. Guarded => f # tracker
  BY RemoveFileRotation
<1> HIDE DEF f
<1>5. /\ UNCHANGED <<trainer, limit, tracksBest>>
      /\ Roles' = Roles /\ Roles \subseteq AllRoles /\ (Guarded' <=> Guarded)
      /\ (FolderStays' <=> FolderStays)
      /\ \A o : (Registered(o)' <=> Registered(o)) /\ Newest(o)' = Newest(o)
  BY <1>1 DEF Roles, AllRoles, Registered, Guarded, FolderStays, Newest, config
<1>6. \A o \in AllRoles, n \in 1 .. TotalSteps, r \in Ranks : shard'[o][n][r] \in {n, NoFile, Torn}
  <2> SUFFICES ASSUME NEW o \in AllRoles, NEW n \in 1 .. TotalSteps, NEW r \in Ranks
               PROVE  shard'[o][n][r] \in {n, NoFile, Torn}
    OBVIOUS
  <2>1. shard[o][n][r] \in {n, NoFile, Torn}
    BY DEF FilesInv
  <2>2. shard'[o][n][r] \in {shard[o][n][r], NoFile}
    BY <1>2 DEF Folders
  <2>3. QED
    BY <2>1, <2>2
<1>7. \A n \in Folders, r \in Ranks : data'[n][r] <= n
  BY <1>3 DEF FilesInv, NoFile, Folders
<1>8. (FolderStays /\ tracker \in 1 .. TotalSteps) => data'[tracker][Rank0] = tracker
  <2>1. FolderStays => (trainer # "sft" \/ Guarded)
    BY DEF FolderStays, Guarded, CheckpointTypeOK
  <2>2. QED
    BY <1>3, <1>4, <2>1 DEF FilesInv, Folders
<1>9. (Guarded /\ tracker \in 1 .. TotalSteps) => Whole(tracker)'
  <2> SUFFICES ASSUME Guarded, tracker \in 1 .. TotalSteps, NEW o \in Roles, NEW r \in Ranks
               PROVE  shard'[o][tracker][r] = tracker
    BY <1>1, <1>5 DEF Whole
  <2>1. shard[o][tracker][r] = tracker
    BY DEF FilesInv, Whole
  <2>2. QED
    BY <1>2, <1>4, <1>5, <2>1 DEF Folders
<1>10. path # Best => \A o \in Roles : Registered(o) => \A r \in Ranks : shard'[o][path][r] = path
  <2>1. path # Best => path = globalStep /\ path \in Folders
    BY <1>1 DEF WeightsInv, Saving, InProgress, Best, Folders
  <2>2. globalStep \in Int /\ f \in Int
    BY <1>1 DEF Folders, CheckpointTypeOK, MemoryTypeOK
  <2>3. path # Best => path # f
    BY <1>1, <2>1, <2>2
  <2>4. QED
    BY <1>2, <1>5, <2>1, <2>3 DEF FilesInv
<1>11. FilesInv'
  BY <1>1, <1>5, <1>6, <1>7, <1>8, <1>9, <1>10 DEF FilesInv
<1>12. \A i \in 1 .. Len(removing') : removing'[i] < globalStep
  <2>1. CASE removing' = removing
    BY <2>1 DEF ListInv
  <2>2. CASE removing' = Tail(removing)
    <3>1. /\ Len(removing') = Len(removing) - 1
          /\ \A i \in 1 .. Len(removing') : removing'[i] = removing[i + 1]
      BY <1>1, <2>2
    <3>2. QED
      BY <1>1, <3>1 DEF ListInv
  <2>3. QED
    BY <1>1, <2>1, <2>2
<1>13. ListInv'
  BY <1>1, <1>5, <1>12 DEF ListInv
<1>14. LostInv'
  <2>1. tracker \in Files /\ weights \in Nat
    BY DEF CheckpointTypeOK, DiskTypeOK, MemoryTypeOK
  <2>2. tracker > weights => tracker \in Folders
    BY <2>1 DEF Files, Folders, Torn
  <2>3. (tracker = weights /\ tracker # 0) => tracker \in Folders
    BY <2>1 DEF Files, Folders, Torn
  <2>4. QED
    BY <1>1, <1>2, <1>5, <2>2, <2>3 DEF LostInv
<1>15. QED
  BY <1>11, <1>13, <1>14

\* The save goes on with the next role.
LEMMA SaveReturnsRotation ==
    ASSUME Inv, Guarded, SaveReturns PROVE RotationInv'
<1> USE CheckpointAssumption
<1>1. /\ pc = "rotate" /\ removing' = <<>> /\ path # Best /\ role \in Roles /\ RotationInv
      /\ UNCHANGED <<saved, path, tracker, trainer, limit>>
      /\ \/ role = "actor" /\ pc' = "capacity" /\ role' = "critic"
         \/ ~ (role = "actor" /\ "critic" \in Roles) /\ pc' = "data" /\ role' = role
  BY GuardedSave DEF SaveReturns, Saving, disk, config
<1>2. Roles' = Roles /\ Roles \subseteq {"actor", "critic"}
  BY <1>1 DEF Roles, AllRoles
<1>3. \A o \in Roles : Registered(o)' <=> Registered(o)
  BY <1>1, <1>2 DEF Registered, Saving
<1>4. QED
  BY <1>1, <1>2, <1>3 DEF RotationInv

\* After the barrier the tracker names the newest checkpoint of the list.
LEMMA BarrierRotation ==
    ASSUME Inv, Guarded, Barrier PROVE RotationInv'
<1> USE CheckpointAssumption
<1>1. /\ pc = "barrier" /\ pc' = "next" /\ tracker = path /\ RotationInv
      /\ UNCHANGED <<saved, path, tracker, trainer, limit, removing, role>>
  BY GuardedSave DEF Barrier, Inv, TrackerInv, disk, saving, config
<1>2. Roles' = Roles
  BY <1>1 DEF Roles
<1>3. QED
  BY <1>1, <1>2 DEF RotationInv, Registered, Saving

\* A shard is written into a folder the tracker does not name yet, or which
\* the run has found gone.
LEMMA WriteShardFiles ==
    ASSUME Inv, NEW r \in Ranks, WriteShard(r) PROVE FilesInv' /\ LostInv'
<1> USE CheckpointAssumption DEF Inv
<1>1. /\ path \in Folders /\ role \in Roles /\ role \in AllRoles /\ pc = "write"
      /\ ~ Registered(role) /\ weights \in Nat \ {0}
      /\ path = weights \/ (path = Best /\ ~ Guarded)
      /\ FolderStays => tracker < weights
      /\ tracker \in Files
  BY DEF WriteShard, WeightsInv, TrackerInv, Saving, InProgress, CheckpointTypeOK, MemoryTypeOK,
    DiskTypeOK, Registered, Guarded
<1>2. /\ UNCHANGED <<pc, data, tracker, role, path, trainer, limit, tracksBest, weights>>
      /\ toWrite' = toWrite \ {r}
  BY DEF WriteShard, config
<1>3. /\ Roles' = Roles /\ Roles \subseteq AllRoles /\ (Guarded' <=> Guarded)
      /\ (FolderStays' <=> FolderStays) /\ (Guarded => FolderStays)
      /\ \A o : Registered(o)' <=> Registered(o)
  BY <1>2 DEF Roles, AllRoles, Registered, Guarded, FolderStays
<1>4. \A o \in AllRoles, n \in Folders, q \in Ranks :
          shard'[o][n][q] = IF o = role /\ n = path /\ q = r THEN weights ELSE shard[o][n][q]
  BY <1>1 DEF WriteShard, CheckpointTypeOK, DiskTypeOK, MemoryTypeOK
<1>5. \A o \in AllRoles, n \in 1 .. TotalSteps, q \in Ranks : shard'[o][n][q] \in {n, NoFile, Torn}
  <2> SUFFICES ASSUME NEW o \in AllRoles, NEW n \in 1 .. TotalSteps, NEW q \in Ranks
               PROVE  shard'[o][n][q] \in {n, NoFile, Torn}
    OBVIOUS
  <2>1. shard[o][n][q] \in {n, NoFile, Torn}
    BY DEF FilesInv
  <2>2. n \in Folders /\ n # Best
    BY DEF Folders, Best
  <2>3. QED
    BY <1>1, <1>4, <2>1, <2>2
<1>6. (Guarded /\ tracker \in 1 .. TotalSteps) => Whole(tracker)'
  <2> SUFFICES ASSUME Guarded, tracker \in 1 .. TotalSteps, NEW o \in Roles, NEW q \in Ranks
               PROVE  shard'[o][tracker][q] = tracker
    BY <1>2, <1>3 DEF Whole
  <2>1. shard[o][tracker][q] = tracker
    BY DEF FilesInv, Whole
  <2>2. tracker # path /\ tracker \in Folders
    BY <1>1, <1>3 DEF Folders
  <2>3. QED
    BY <1>3, <1>4, <2>1, <2>2
<1>7. \A q \in Ranks \ toWrite' : shard'[role][path][q] = weights
  BY <1>1, <1>2, <1>4 DEF FilesInv
<1>8. path # Best => \A o \in Roles : Registered(o) => \A q \in Ranks : shard'[o][path][q] = path
  BY <1>1, <1>3, <1>4 DEF FilesInv
<1>9. FilesInv'
  BY <1>1, <1>2, <1>3, <1>5, <1>6, <1>7, <1>8 DEF FilesInv
<1>10. (path = tracker /\ path # Best) => \A q \in toWrite' : shard'[role][path][q] = NoFile
  BY <1>1, <1>2, <1>4 DEF LostInv, CheckpointTypeOK, MemoryTypeOK
<1>11. tracker > weights => \A o \in Roles, q \in Ranks : shard'[o][tracker][q] = NoFile
  <2> SUFFICES ASSUME tracker > weights, NEW o \in Roles, NEW q \in Ranks
               PROVE  shard'[o][tracker][q] = NoFile
    OBVIOUS
  <2>1. tracker \in Folders /\ tracker # path
    BY <1>1 DEF Files, Folders, Torn, Best
  <2>2. shard[o][tracker][q] = NoFile
    BY <1>1 DEF LostInv, InProgress, Saving
  <2>3. QED
    BY <1>3, <1>4, <2>1, <2>2
<1>12. LostInv'
  BY <1>1, <1>2, <1>3, <1>10, <1>11 DEF LostInv
<1>13. QED
  BY <1>9, <1>12

\* So is the loader of rank 0; those of other ranks may come later.
LEMMA SaveDataFiles ==
    ASSUME Inv, NEW r \in Ranks, SaveData(r) PROVE FilesInv'
<1> USE CheckpointAssumption DEF Inv
<1>1. /\ path \in Folders /\ path = weights /\ position[r] <= path
      /\ (r = Rank0 /\ FolderStays) => (position[r] = path /\ tracker # path)
      /\ pc \in {"rotate", "data", "barrier"} /\ (pc # "data" => r # Rank0)
  <2>1. /\ pc \in {"rotate", "data", "barrier"} /\ (pc # "data" => r # Rank0)
        /\ pc # "data" => trainer = "sft"
    BY DEF SaveData, SavesData, FilesInv
  <2>2. path = globalStep /\ weights = globalStep /\ position[r] <= weights /\ path \in Folders
    BY <2>1 DEF WeightsInv, Saving, InProgress, CheckpointTypeOK, MemoryTypeOK
  <2>3. (r = Rank0 /\ FolderStays) => (position[r] = path /\ tracker < globalStep)
    BY <2>1, <2>2 DEF WeightsInv, TrackerInv, Saving, InProgress
  <2>4. QED
    BY <2>1, <2>2, <2>3 DEF CheckpointTypeOK, MemoryTypeOK
<1>2. /\ UNCHANGED <<pc, shard, tracker, role, path, trainer, limit, tracksBest, weights>>
      /\ toWrite' = toWrite \ {r}
  BY DEF SaveData, config
<1>3. /\ Roles' = Roles /\ (Guarded' <=> Guarded) /\ (FolderStays' <=> FolderStays)
      /\ \A o : Registered(o)' <=> Registered(o)
  BY <1>2 DEF Roles, Registered, Guarded, FolderStays
<1>4. \A n \in Folders, q \in Ranks :
          data'[n][q] = IF n = path /\ q = r THEN position[r] ELSE data[n][q]
  BY <1>1 DEF SaveData, CheckpointTypeOK, DiskTypeOK, MemoryTypeOK
<1>5. \A n \in Folders, q \in Ranks : data'[n][q] <= n
  BY <1>1, <1>4 DEF FilesInv
<1>6. (FolderStays /\ tracker \in 1 .. TotalSteps) => data'[tracker][Rank0] = tracker
  BY <1>1, <1>4 DEF FilesInv, Folders
<1>7. (pc \in {"data", "tracker"} /\ Rank0 \notin toWrite' /\ FolderStays) => data'[path][Rank0] = path
  BY <1>1, <1>2, <1>4 DEF FilesInv
<1>8. \A n : Whole(n)' <=> Whole(n)
  BY <1>2, <1>3 DEF Whole
<1>9. QED
  BY <1>1, <1>2, <1>3, <1>5, <1>6, <1>7, <1>8 DEF FilesInv

\* What a crash leaves on disk.
LEMMA CrashFrame ==
    ASSUME Inv, Crash
    PROVE  /\ pc' = "load" /\ path' = Best /\ removing' = <<>>
           /\ UNCHANGED <<trainer, limit, tracksBest, tracker>>
           /\ \A o \in AllRoles : saved'[o] = <<>>
           /\ Roles' = Roles /\ Roles \subseteq AllRoles /\ (Guarded' <=> Guarded)
           /\ (FolderStays' <=> FolderStays)
           /\ \A o \in AllRoles, n \in Folders, r \in Ranks :
                 \/ shard'[o][n][r] = shard[o][n][r]
                 \/ shard'[o][n][r] = Torn /\ pc = "write" /\ n = path /\ o = role /\ r \in toWrite
           /\ \A n \in Folders, r \in Ranks :
                 \/ data'[n][r] = data[n][r]
                 \/ data'[n][r] = Torn /\ n = path /\ r \in toWrite /\ SavesData(r)
<1> USE CheckpointAssumption DEF Inv
<1>1. /\ pc' = "load" /\ path' = Best /\ removing' = <<>>
      /\ UNCHANGED <<trainer, limit, tracksBest, tracker>>
      /\ \A o \in AllRoles : saved'[o] = <<>>
  BY DEF Crash, config
<1>2. Roles' = Roles /\ Roles \subseteq AllRoles /\ (Guarded' <=> Guarded) /\ (FolderStays' <=> FolderStays)
  BY <1>1 DEF Roles, AllRoles, Guarded, FolderStays
<1>3. PICK torn \in SUBSET toWrite :
        /\ shard' = IF pc # "write" THEN shard
                    ELSE [shard EXCEPT ![role][path] =
                              [r \in Ranks |-> IF r \in torn THEN Torn ELSE @[r]]]
        /\ data' = IF ~ \E r \in torn : SavesData(r) THEN data
                   ELSE [data EXCEPT ![path] =
                            [r \in Ranks |-> IF r \in torn /\ SavesData(r) THEN Torn ELSE @[r]]]
  BY Zenon DEF Crash
<1>4. /\ path \in Folders /\ role \in AllRoles /\ toWrite \subseteq Ranks
      /\ shard \in [AllRoles -> [Folders -> [Ranks -> Files]]]
      /\ data \in [Folders -> [Ranks -> Files]]
  BY DEF CheckpointTypeOK, DiskTypeOK, MemoryTypeOK
<1>5. ASSUME NEW o \in AllRoles, NEW n \in Folders, NEW r \in Ranks
      PROVE  \/ shard'[o][n][r] = shard[o][n][r]
             \/ shard'[o][n][r] = Torn /\ pc = "write" /\ n = path /\ o = role /\ r \in toWrite
  BY <1>3, <1>4
<1>6. ASSUME NEW n \in Folders, NEW r \in Ranks
      PROVE  \/ data'[n][r] = data[n][r]
             \/ data'[n][r] = Torn /\ n = path /\ r \in toWrite /\ SavesData(r)
  BY <1>3, <1>4
<1>7. QED
  BY <1>1, <1>2, <1>5, <1>6

\* A crash tears only files that the tracker does not vouch for.
LEMMA CrashRest ==
    ASSUME Inv, Crash
    PROVE  /\ FilesInv' /\ ListInv' /\ LostInv' /\ TrackerInv' /\ WeightsInv'
           /\ Guarded => RotationInv'
<1> USE CheckpointAssumption DEF Inv
<1>1. /\ pc' = "load" /\ path' = Best /\ removing' = <<>>
      /\ UNCHANGED <<trainer, limit, tracksBest, tracker>>
      /\ \A o \in AllRoles : saved'[o] = <<>>
      /\ Roles' = Roles /\ Roles \subseteq AllRoles /\ (Guarded' <=> Guarded)
      /\ (FolderStays' <=> FolderStays)
  BY CrashFrame
<1>2. \A o \in AllRoles, n \in Folders, r \in Ranks :
         \/ shard'[o][n][r] = shard[o][n][r]
         \/ shard'[o][n][r] = Torn /\ pc = "write" /\ n = path /\ o = role /\ r \in toWrite
  BY CrashFrame
<1>3. \A n \in Folders, r \in Ranks :
         \/ data'[n][r] = data[n][r]
         \/ data'[n][r] = Torn /\ n = path /\ r \in toWrite /\ SavesData(r)
  BY CrashFrame
<1>4. \A o : ~ Registered(o)'
  BY <1>1 DEF Registered, Saving
<1>5. Guarded => RotationInv'
  BY <1>1, <1>4 DEF RotationInv, Increasing
<1>6. \A o \in AllRoles, n \in 1 .. TotalSteps, r \in Ranks : shard'[o][n][r] \in {n, NoFile, Torn}
  <2> SUFFICES ASSUME NEW o \in AllRoles, NEW n \in 1 .. TotalSteps, NEW r \in Ranks
               PROVE  shard'[o][n][r] \in {n, NoFile, Torn}
    OBVIOUS
  <2>1. shard[o][n][r] \in {n, NoFile, Torn}
    BY DEF FilesInv
  <2>2. QED
    BY <1>2, <2>1 DEF Folders
<1>7. \A n \in Folders, r \in Ranks : data'[n][r] <= n
  BY <1>3 DEF FilesInv, Folders, Torn
<1>8. (FolderStays /\ pc \in {"write", "rotate", "data"} /\ path # Best) => tracker # path
  BY DEF WeightsInv, TrackerInv, InProgress, Saving, CheckpointTypeOK, MemoryTypeOK
<1>9. (FolderStays /\ tracker \in 1 .. TotalSteps) => data'[tracker][Rank0] = tracker
  BY <1>3, <1>8 DEF SavesData, FilesInv, Folders, Best
<1>10. (Guarded /\ tracker \in 1 .. TotalSteps) => Whole(tracker)'
  <2> SUFFICES ASSUME Guarded, tracker \in 1 .. TotalSteps, NEW o \in Roles, NEW r \in Ranks
               PROVE  shard'[o][tracker][r] = tracker
    BY <1>1 DEF Whole
  <2>1. shard[o][tracker][r] = tracker
    BY DEF FilesInv, Whole
  <2>2. QED
    BY <1>1, <1>2, <1>8, <2>1, GuardedSave DEF Folders, Best
<1>11. FilesInv'
  BY <1>1, <1>4, <1>6, <1>7, <1>9, <1>10 DEF FilesInv
<1>12. ListInv' /\ LostInv'
  BY <1>1 DEF ListInv, LostInv, InProgress, Saving
<1>13. TrackerInv' /\ WeightsInv'
  <2>1. crashes' # 0 /\ pc' = "load"
    BY DEF Crash, CheckpointTypeOK
  <2>2. QED
    BY <1>1, <2>1 DEF TrackerInv, WeightsInv, InProgress, Saving
<1>14. QED
  BY <1>5, <1>11, <1>12, <1>13

\* The configuration of a run is fixed.
LEMMA ConfigFixed ==
    ASSUME [Next]_vars
    PROVE  /\ UNCHANGED config /\ Roles' = Roles /\ Loaders' = Loaders
           /\ (Guarded' <=> Guarded) /\ (FolderStays' <=> FolderStays)
<1>1. UNCHANGED config
  BY DEF Next, Progress, Load, LoadFails, Train, NewBest, NoNewBest, Save, NoSave, NextStep,
    EnsureCapacity, RemoveFile, MakeFolder, Register, SaveReturns, WriteShard, SaveData,
    WriteBestMeta, OpenTracker, WriteTracker, RenameTracker, Barrier, Crash, Terminated, vars
<1>2. QED
  BY <1>1 DEF config, Roles, Loaders, Guarded, FolderStays

\* The invariant holds initially.
LEMMA InitInv == Init => Inv
  BY CheckpointAssumption DEF Init, Inv, CheckpointTypeOK, DiskTypeOK, MemoryTypeOK, WeightsInv,
    TrackerInv, ListInv, LostInv, RotationInv, FilesInv, Whole, Increasing, InProgress, Saving,
    Registered, Blank, AllRoles, Folders, Files, Roles, NoFile, Torn, Best

\* The lists are as good as they were when the newest that they may hold is.
LEMMA ListsKept ==
    ASSUME Inv, UNCHANGED <<saved, removing, globalStep>>, removing = <<>>, pc \in InProgress,
           pc' # "load", \A o \in AllRoles : Newest(o) <= Newest(o)'
    PROVE  ListInv'
<1>1. globalStep \in Int /\ \A o \in AllRoles : Newest(o) \in Int /\ Newest(o)' \in Int
  BY DEF Inv, CheckpointTypeOK, MemoryTypeOK, Newest
<1>2. \A o \in AllRoles : \A i \in 1 .. Len(saved[o]) : saved[o][i] <= Newest(o)'
  <2> SUFFICES ASSUME NEW o \in AllRoles, NEW i \in 1 .. Len(saved[o])
               PROVE  saved[o][i] <= Newest(o)'
    OBVIOUS
  <2>1. saved[o] \in Seq(Folders)
    BY DEF Inv, CheckpointTypeOK, MemoryTypeOK
  <2>2. saved[o][i] \in Int
    BY <2>1, CheckpointAssumption DEF Folders
  <2>3. saved[o][i] <= Newest(o)
    BY DEF Inv, ListInv
  <2>4. QED
    BY <1>1, <2>2, <2>3
<1>3. QED
  BY <1>2 DEF ListInv

\* Removing the first n of a list: the others of its role, and all of the other
\* roles, stay in their lists.
LEMMA RemoveLists ==
    ASSUME Inv, NEW paths \in Seq(Folders), NEW n \in 0 .. Len(paths), Remove(paths, n),
           NEW m \in Int, \A i \in 1 .. Len(paths) : paths[i] <= m
    PROVE  /\ Len(removing') = n /\ \A i \in 1 .. n : removing'[i] = paths[i]
           /\ \A o \in AllRoles : o # role => saved'[o] = saved[o]
           /\ \A i \in 1 .. Len(saved'[role]) : saved'[role][i] <= m
<1> USE DEF Inv
<1> DEFINE q == SubSeq(paths, n + 1, Len(paths))
<1>1. Len(paths) \in Nat /\ n \in Nat /\ n <= Len(paths)
  OBVIOUS
<1>2. /\ removing' = SubSeq(paths, 1, n) /\ saved' = [saved EXCEPT ![role] = q]
      /\ role \in AllRoles /\ saved \in [AllRoles -> Seq(Folders)]
  BY DEF Remove, CheckpointTypeOK, MemoryTypeOK
<1>3. Len(removing') = n /\ \A i \in 1 .. n : removing'[i] = paths[i]
  BY <1>1, <1>2, SubSeqProperties
<1>4. Len(q) = Len(paths) - n /\ \A i \in 1 .. Len(q) : q[i] = paths[n + i]
  BY <1>1, SubSeqProperties
<1> HIDE DEF q
<1>5. \A i \in 1 .. Len(q) : q[i] <= m
  <2> SUFFICES ASSUME NEW i \in 1 .. Len(q) PROVE q[i] <= m
    OBVIOUS
  <2>1. n + i \in 1 .. Len(paths)
    BY <1>1, <1>4
  <2>2. QED
    BY <1>4, <2>1
<1>6. saved'[role] = q /\ \A o \in AllRoles : o # role => saved'[o] = saved[o]
  BY <1>2
<1>7. QED
  BY <1>3, <1>5, <1>6

\* Making room removes older folders.
LEMMA EnsureLists ==
    ASSUME Inv, EnsureCapacity PROVE ListInv'
<1> USE CheckpointAssumption DEF Inv
<1> DEFINE s == saved[role]
           n == Surplus
<1>1. s \in Seq(Folders) /\ Len(s) \in Nat /\ role \in AllRoles
  BY DEF CheckpointTypeOK, MemoryTypeOK
<1>2. Keep \in Nat
  BY LimitType DEF Keep
<1>3. n \in 0 .. Len(s)
  BY <1>1, <1>2 DEF Surplus
<1>4. /\ pc = "capacity" /\ pc' = "makeRoom" /\ UNCHANGED <<globalStep, path, role>>
      /\ Remove(s, n) /\ globalStep \in Nat
  BY DEF EnsureCapacity, CheckpointTypeOK, MemoryTypeOK
<1>5. globalStep - 1 \in Int /\ \A i \in 1 .. Len(s) : s[i] <= globalStep - 1
  BY <1>1, <1>4 DEF ListInv, Newest, Registered, InProgress, Saving
<1> HIDE DEF s, n
<1>6. /\ Len(removing') = n /\ \A i \in 1 .. n : removing'[i] = s[i]
      /\ \A o \in AllRoles : o # role => saved'[o] = saved[o]
      /\ \A i \in 1 .. Len(saved'[role]) : saved'[role][i] <= globalStep - 1
  BY <1>1, <1>3, <1>4, <1>5, RemoveLists
<1>7. \A i \in 1 .. Len(removing') : removing'[i] < globalStep
  <2> SUFFICES ASSUME NEW i \in 1 .. n PROVE removing'[i] < globalStep
    BY <1>6
  <2>1. i \in 1 .. Len(s) /\ removing'[i] = s[i] /\ s[i] \in Int
    BY <1>1, <1>3, <1>6 DEF Folders
  <2>2. QED
    BY <1>4, <1>5, <2>1
<1>8. \A o \in AllRoles : Newest(o)' = Newest(o) /\ (o = role => Newest(o) = globalStep - 1)
  BY <1>4 DEF Newest, Registered, Saving
<1>9. \A o \in AllRoles : \A i \in 1 .. Len(saved'[o]) : saved'[o][i] <= Newest(o)'
  <2> SUFFICES ASSUME NEW o \in AllRoles, NEW i \in 1 .. Len(saved'[o])
               PROVE  saved'[o][i] <= Newest(o)'
    OBVIOUS
  <2>1. CASE o = role
    BY <1>6, <1>8, <2>1
  <2>2. CASE o # role
    BY <1>4, <1>6, <1>8, <2>2 DEF ListInv, InProgress, Saving
  <2>3. QED
    BY <2>1, <2>2
<1>10. QED
  BY <1>4, <1>7, <1>9 DEF ListInv

\* Registering removes older folders, never the one that is registered.
LEMMA RegisterLists ==
    ASSUME Inv, Register PROVE ListInv'
<1> USE CheckpointAssumption DEF Inv
<1> DEFINE s == saved[role]
           t == Append(s, path)
           n == Excess(t)
<1>1. s \in Seq(Folders) /\ Len(s) \in Nat /\ role \in AllRoles /\ path \in Folders
  BY DEF CheckpointTypeOK, MemoryTypeOK
<1>2. /\ t \in Seq(Folders) /\ Len(t) = Len(s) + 1 /\ t[Len(t)] = path
      /\ \A i \in 1 .. Len(s) : t[i] = s[i]
  BY <1>1
<1>3. Keep \in Nat
  BY LimitType DEF Keep
<1>4. /\ pc = "write" /\ pc' = "rotate" /\ UNCHANGED <<globalStep, path, role>>
      /\ Remove(t, n) /\ globalStep \in Nat \ {0} /\ (path = globalStep \/ path = Best)
  BY DEF Register, CheckpointTypeOK, MemoryTypeOK, WeightsInv, InProgress, Saving
<1>5. \A i \in 1 .. Len(s) : s[i] <= globalStep - 1
  BY <1>1, <1>4 DEF ListInv, Newest, Registered, InProgress, Saving
<1> HIDE DEF s, t
<1>6. n \in 0 .. Len(t) /\ n <= Len(s)
  BY <1>1, <1>2, <1>3 DEF Excess
<1> HIDE DEF n
<1> DEFINE m == IF path = Best THEN globalStep - 1 ELSE globalStep
<1>7. m \in Int /\ \A i \in 1 .. Len(t) : t[i] <= m
  <2> SUFFICES ASSUME NEW i \in 1 .. Len(t) PROVE m \in Int /\ t[i] <= m
    BY <1>4
  <2>1. m \in Int /\ globalStep - 1 <= m
    BY <1>4
  <2>2. CASE i = Len(t)
    BY <1>2, <1>4, <2>2 DEF Best
  <2>3. CASE i # Len(t)
    <3>1. i \in 1 .. Len(s) /\ t[i] = s[i] /\ s[i] \in Int
      BY <1>1, <1>2, <2>3 DEF Folders
    <3>2. s[i] <= globalStep - 1
      BY <1>5, <3>1
    <3> HIDE DEF m
    <3>3. QED
      BY <1>4, <2>1, <3>1, <3>2
  <2>4. QED
    BY <2>2, <2>3
<1> HIDE DEF m
<1>8. /\ Len(removing') = n /\ \A i \in 1 .. n : removing'[i] = t[i]
      /\ \A o \in AllRoles : o # role => saved'[o] = saved[o]
      /\ \A i \in 1 .. Len(saved'[role]) : saved'[role][i] <= m
  BY <1>2, <1>4, <1>6, <1>7, RemoveLists
<1>9. \A i \in 1 .. Len(removing') : removing'[i] < globalStep
  <2> SUFFICES ASSUME NEW i \in 1 .. n PROVE removing'[i] < globalStep
    BY <1>8
  <2>1. i \in 1 .. Len(s)
    BY <1>1, <1>6
  <2>2. removing'[i] = s[i] /\ s[i] \in Int
    BY <1>1, <1>2, <1>8, <2>1 DEF Folders
  <2>3. QED
    BY <1>4, <1>5, <2>1, <2>2
<1>10. \A o \in AllRoles : /\ o # role => Newest(o)' = Newest(o)
                           /\ o = role => Newest(o)' = m
  BY <1>4 DEF Newest, Registered, Saving, m
<1>11. \A o \in AllRoles : \A i \in 1 .. Len(saved'[o]) : saved'[o][i] <= Newest(o)'
  <2> SUFFICES ASSUME NEW o \in AllRoles, NEW i \in 1 .. Len(saved'[o])
               PROVE  saved'[o][i] <= Newest(o)'
    OBVIOUS
  <2>1. CASE o = role
    BY <1>8, <1>10, <2>1
  <2>2. CASE o # role
    BY <1>4, <1>8, <1>10, <2>2 DEF ListInv, InProgress, Saving
  <2>3. QED
    BY <2>1, <2>2
<1>12. QED
  BY <1>4, <1>9, <1>11 DEF ListInv

\* Every step keeps the types.
LEMMA TypeStep ==
    ASSUME Inv, Next
    PROVE  CheckpointTypeOK'
<1> USE CheckpointAssumption DEF Inv
<1>0. /\ UNCHANGED config /\ Roles' = Roles /\ Loaders' = Loaders
      /\ (Guarded' <=> Guarded) /\ (FolderStays' <=> FolderStays)
  BY ConfigFixed
<1>1. CASE Load
  BY <1>1, LoadType
<1>2. CASE LoadFails
  BY <1>0, <1>2 DEF LoadFails, CheckpointTypeOK, DiskTypeOK, MemoryTypeOK, config, disk,
    saving
<1>3. CASE Train
  BY <1>3, TrainType
<1>4. CASE NewBest
  BY <1>0, <1>4 DEF NewBest, BeginSave, AllRoles, Folders, Best, CheckpointTypeOK,
    DiskTypeOK, MemoryTypeOK, config, disk, saving
<1>5. CASE NoNewBest
  BY <1>0, <1>5 DEF NoNewBest, CheckpointTypeOK, DiskTypeOK, MemoryTypeOK, config, disk,
    saving
<1>6. CASE Save
  BY <1>0, <1>6 DEF Save, BeginSave, AllRoles, Folders, WeightsInv, InProgress,
    CheckpointTypeOK, DiskTypeOK, MemoryTypeOK, config, disk, saving
<1>7. CASE NoSave
  BY <1>0, <1>7 DEF NoSave, CheckpointTypeOK, DiskTypeOK, MemoryTypeOK, config, disk, saving
<1>8. CASE NextStep
  BY <1>8, NextStepType
<1>9. CASE EnsureCapacity
  BY <1>9, EnsureCapacityType
<1>10. CASE RemoveFile
  BY <1>10, RemoveFileType
<1>11. CASE MakeFolder
  BY <1>0, <1>11 DEF MakeFolder, CheckpointTypeOK, DiskTypeOK, MemoryTypeOK, config, disk,
    saving
<1>12. CASE Register
  BY <1>12, RegisterType
<1>13. CASE SaveReturns
  BY <1>0, <1>13 DEF SaveReturns, AllRoles, CheckpointTypeOK, DiskTypeOK, MemoryTypeOK,
    config, disk, saving
<1>14. ASSUME NEW r \in Ranks, WriteShard(r) PROVE CheckpointTypeOK'
  BY <1>14, WriteShardType
<1>15. ASSUME NEW r \in Ranks, SaveData(r) PROVE CheckpointTypeOK'
  BY <1>15, SaveDataType
<1>16. CASE WriteBestMeta
  BY <1>0, <1>16 DEF WriteBestMeta, WeightsInv, InProgress, Folders, CheckpointTypeOK,
    DiskTypeOK, MemoryTypeOK, config, disk, saving
<1>17. CASE OpenTracker
  BY <1>17, TrackerType
<1>18. CASE WriteTracker
  BY <1>18, TrackerType
<1>19. CASE RenameTracker
  BY <1>19, TrackerType
<1>20. CASE Barrier
  BY <1>0, <1>20 DEF Barrier, CheckpointTypeOK, DiskTypeOK, MemoryTypeOK, config, disk,
    saving
<1>21. CASE Crash
  BY <1>21, CrashType
<1>22. CASE Terminated
  BY <1>0, <1>22 DEF Terminated, vars, CheckpointTypeOK, DiskTypeOK, MemoryTypeOK, config,
    disk, saving
<1>23. QED
  BY <1>1, <1>2, <1>3, <1>4, <1>5, <1>6, <1>7, <1>8, <1>9, <1>10, <1>11, <1>12, <1>13,
    <1>14, <1>15, <1>16, <1>17, <1>18, <1>19, <1>20, <1>21, <1>22 DEF Next, Progress

\* Every step keeps weights, loaders and step counter together.
LEMMA WeightsStep ==
    ASSUME Inv, Next
    PROVE  WeightsInv'
<1> USE CheckpointAssumption DEF Inv
<1>0. /\ UNCHANGED config /\ Roles' = Roles /\ Loaders' = Loaders
      /\ (Guarded' <=> Guarded) /\ (FolderStays' <=> FolderStays)
  BY ConfigFixed
<1>1. CASE Load
  BY <1>1, LoadRest
<1>2. CASE LoadFails
  BY <1>0, <1>2 DEF LoadFails, WeightsInv, InProgress, Saving, Roles, config, disk, saving
<1>3. CASE Train
  BY <1>3, TrainRest
<1>4. CASE NewBest
  BY <1>0, <1>4 DEF NewBest, BeginSave, AllRoles, CheckpointTypeOK, WeightsInv, InProgress,
    Saving, Roles, config, disk, saving
<1>5. CASE NoNewBest
  BY <1>0, <1>5 DEF NoNewBest, WeightsInv, InProgress, Saving, Roles, config, disk, saving
<1>6. CASE Save
  BY <1>0, <1>6 DEF Save, BeginSave, AllRoles, WeightsInv, InProgress, Saving, Roles,
    config, disk, saving
<1>7. CASE NoSave
  BY <1>0, <1>7 DEF NoSave, WeightsInv, InProgress, Saving, Roles, config, disk, saving
<1>8. CASE NextStep
  BY <1>0, <1>8 DEF NextStep, IsLastStep, CheckpointTypeOK, MemoryTypeOK, WeightsInv,
    InProgress, Saving, Roles, config, disk, saving
<1>9. CASE EnsureCapacity
  BY <1>0, <1>9 DEF EnsureCapacity, Remove, WeightsInv, InProgress, Saving, Roles, config,
    disk, saving
<1>10. CASE RemoveFile
  BY <1>0, <1>10 DEF RemoveFile, WeightsInv, InProgress, Saving, Roles, config, disk, saving
<1>11. CASE MakeFolder
  BY <1>0, <1>11 DEF MakeFolder, WeightsInv, InProgress, Saving, Roles, config, disk, saving
<1>12. CASE Register
  BY <1>0, <1>12 DEF Register, Remove, WeightsInv, InProgress, Saving, Roles, config, disk,
    saving
<1>13. CASE SaveReturns
  BY <1>0, <1>13 DEF SaveReturns, Best, AllRoles, WeightsInv, InProgress, Saving, Roles,
    config, disk, saving
<1>14. ASSUME NEW r \in Ranks, WriteShard(r) PROVE WeightsInv'
  BY <1>0, <1>14 DEF WriteShard, WeightsInv, InProgress, Saving, Roles, config, disk, saving
<1>15. ASSUME NEW r \in Ranks, SaveData(r) PROVE WeightsInv'
  BY <1>0, <1>15 DEF SaveData, WeightsInv, InProgress, Saving, Roles, config, disk, saving
<1>16. CASE WriteBestMeta
  BY <1>0, <1>16 DEF WriteBestMeta, WeightsInv, InProgress, Saving, Roles, config, disk,
    saving
<1>17. CASE OpenTracker
  BY <1>0, <1>17 DEF OpenTracker, WeightsInv, InProgress, Saving, Roles, config, disk,
    saving
<1>18. CASE WriteTracker
  BY <1>0, <1>18 DEF WriteTracker, WeightsInv, InProgress, Saving, Roles, config, disk,
    saving
<1>19. CASE RenameTracker
  BY <1>0, <1>19 DEF RenameTracker, WeightsInv, InProgress, Saving, Roles, config, disk,
    saving
<1>20. CASE Barrier
  BY <1>0, <1>20 DEF Barrier, WeightsInv, InProgress, Saving, Roles, config, disk, saving
<1>21. CASE Crash
  BY <1>21, CrashRest
<1>22. CASE Terminated
  BY <1>0, <1>22 DEF Terminated, vars, WeightsInv, InProgress, Saving, Roles, config, disk,
    saving
<1>23. QED
  BY <1>1, <1>2, <1>3, <1>4, <1>5, <1>6, <1>7, <1>8, <1>9, <1>10, <1>11, <1>12, <1>13,
    <1>14, <1>15, <1>16, <1>17, <1>18, <1>19, <1>20, <1>21, <1>22 DEF Next, Progress

\* Every step keeps the tracker behind the save in progress.
LEMMA TrackerStep ==
    ASSUME Inv, Next
    PROVE  TrackerInv'
<1> USE CheckpointAssumption DEF Inv
<1>0. /\ UNCHANGED config /\ Roles' = Roles /\ Loaders' = Loaders
      /\ (Guarded' <=> Guarded) /\ (FolderStays' <=> FolderStays)
  BY ConfigFixed
<1>1. CASE Load
  BY <1>1, LoadRest
<1>2. CASE LoadFails
  BY <1>0, <1>2 DEF LoadFails, TrackerInv, WeightsInv, InProgress, Saving, config, disk,
    saving
<1>3. CASE Train
  BY <1>0, <1>3 DEF Train, CheckpointTypeOK, DiskTypeOK, TrackerInv, WeightsInv, InProgress,
    Saving, config, disk, saving
<1>4. CASE NewBest
  BY <1>0, <1>4 DEF NewBest, BeginSave, TrackerInv, WeightsInv, InProgress, Saving, config,
    disk, saving
<1>5. CASE NoNewBest
  BY <1>0, <1>5 DEF NoNewBest, TrackerInv, WeightsInv, InProgress, Saving, config, disk,
    saving
<1>6. CASE Save
  BY <1>0, <1>6 DEF Save, BeginSave, TrackerInv, WeightsInv, InProgress, Saving, config,
    disk, saving
<1>7. CASE NoSave
  BY <1>0, <1>7 DEF NoSave, TrackerInv, WeightsInv, InProgress, Saving, config, disk, saving
<1>8. CASE NextStep
  BY <1>0, <1>8 DEF NextStep, IsLastStep, CheckpointTypeOK, MemoryTypeOK, TrackerInv,
    WeightsInv, InProgress, Saving, config, disk, saving
<1>9. CASE EnsureCapacity
  BY <1>0, <1>9 DEF EnsureCapacity, Remove, TrackerInv, WeightsInv, InProgress, Saving,
    config, disk, saving
<1>10. CASE RemoveFile
  BY <1>0, <1>10 DEF RemoveFile, TrackerInv, WeightsInv, InProgress, Saving, config, disk,
    saving
<1>11. CASE MakeFolder
  BY <1>0, <1>11 DEF MakeFolder, TrackerInv, WeightsInv, InProgress, Saving, config, disk,
    saving
<1>12. CASE Register
  BY <1>0, <1>12 DEF Register, Remove, TrackerInv, WeightsInv, InProgress, Saving, config,
    disk, saving
<1>13. CASE SaveReturns
  BY <1>0, <1>13 DEF SaveReturns, Best, TrackerInv, WeightsInv, InProgress, Saving, config,
    disk, saving
<1>14. ASSUME NEW r \in Ranks, WriteShard(r) PROVE TrackerInv'
  BY <1>0, <1>14 DEF WriteShard, TrackerInv, WeightsInv, InProgress, Saving, config, disk,
    saving
<1>15. ASSUME NEW r \in Ranks, SaveData(r) PROVE TrackerInv'
  BY <1>0, <1>15 DEF SaveData, TrackerInv, WeightsInv, InProgress, Saving, config, disk,
    saving
<1>16. CASE WriteBestMeta
  BY <1>0, <1>16 DEF WriteBestMeta, TrackerInv, WeightsInv, InProgress, Saving, config,
    disk, saving
<1>17. CASE OpenTracker
  BY <1>0, <1>17 DEF OpenTracker, Torn, TrackerInv, WeightsInv, InProgress, Saving, config,
    disk, saving
<1>18. CASE WriteTracker
  BY <1>0, <1>18 DEF WriteTracker, CheckpointTypeOK, MemoryTypeOK, Torn, Folders,
    TrackerInv, WeightsInv, InProgress, Saving, config, disk, saving
<1>19. CASE RenameTracker
  BY <1>0, <1>19 DEF RenameTracker, CheckpointTypeOK, MemoryTypeOK, Torn, Folders,
    TrackerInv, WeightsInv, InProgress, Saving, config, disk, saving
<1>20. CASE Barrier
  BY <1>0, <1>20 DEF Barrier, TrackerInv, WeightsInv, InProgress, Saving, config, disk,
    saving
<1>21. CASE Crash
  BY <1>21, CrashRest
<1>22. CASE Terminated
  BY <1>0, <1>22 DEF Terminated, vars, TrackerInv, WeightsInv, InProgress, Saving, config,
    disk, saving
<1>23. QED
  BY <1>1, <1>2, <1>3, <1>4, <1>5, <1>6, <1>7, <1>8, <1>9, <1>10, <1>11, <1>12, <1>13,
    <1>14, <1>15, <1>16, <1>17, <1>18, <1>19, <1>20, <1>21, <1>22 DEF Next, Progress

\* Every step keeps the lists older than the save in progress.
LEMMA ListStep ==
    ASSUME Inv, Next
    PROVE  ListInv'
<1> USE CheckpointAssumption DEF Inv
<1>0. /\ UNCHANGED config /\ Roles' = Roles /\ Loaders' = Loaders
      /\ (Guarded' <=> Guarded) /\ (FolderStays' <=> FolderStays)
  BY ConfigFixed
<1>1. CASE Load
  BY <1>0, <1>1 DEF Load, CheckpointTypeOK, MemoryTypeOK, ListInv, Newest, Registered,
    InProgress, Saving, config, disk, saving
<1>2. CASE LoadFails
  BY <1>0, <1>2 DEF LoadFails, ListInv, Newest, Registered, InProgress, Saving, config,
    disk, saving
<1>3. CASE Train
  BY <1>0, <1>3 DEF Train, ListInv, Newest, Registered, InProgress, Saving, config, disk,
    saving
<1>4. CASE NewBest
  BY <1>0, <1>4 DEF NewBest, BeginSave, Best, ListInv, Newest, Registered, InProgress,
    Saving, config, disk, saving
<1>5. CASE NoNewBest
  BY <1>0, <1>5 DEF NoNewBest, ListInv, Newest, Registered, InProgress, Saving, config,
    disk, saving
<1>6. CASE Save
  BY <1>0, <1>6 DEF Save, BeginSave, AllRoles, WeightsInv, ListInv, Newest, Registered,
    InProgress, Saving, config, disk, saving
<1>7. CASE NoSave
  <2>1. /\ UNCHANGED <<saved, removing, globalStep>> /\ removing = <<>> /\ pc \in InProgress
        /\ pc' # "load"
    BY <1>0, <1>7 DEF NoSave, ListInv, InProgress, Saving, disk, saving
  <2>2. \A o \in AllRoles : Newest(o) <= Newest(o)'
    BY <1>0, <1>7 DEF NoSave, Newest, Registered, Saving, CheckpointTypeOK, MemoryTypeOK,
      disk, saving
  <2>3. QED
    BY <2>1, <2>2, ListsKept
<1>8. CASE NextStep
  BY <1>0, <1>8 DEF NextStep, IsLastStep, CheckpointTypeOK, MemoryTypeOK, ListInv, Newest,
    Registered, InProgress, Saving, config, disk, saving
<1>9. CASE EnsureCapacity
  BY <1>9, EnsureLists
<1>10. CASE RemoveFile
  BY <1>10, RemoveFileRest
<1>11. CASE MakeFolder
  BY <1>0, <1>11 DEF MakeFolder, ListInv, Newest, Registered, InProgress, Saving, config,
    disk, saving
<1>12. CASE Register
  BY <1>12, RegisterLists
<1>13. CASE SaveReturns
  <2>1. /\ UNCHANGED <<saved, removing, globalStep>> /\ removing = <<>> /\ pc \in InProgress
        /\ pc' # "load"
    BY <1>0, <1>13 DEF SaveReturns, ListInv, InProgress, Saving, disk, saving
  <2>2. \A o \in AllRoles : Newest(o) <= Newest(o)'
    BY <1>0, <1>13 DEF SaveReturns, WeightsInv, Roles, Newest, Registered, Saving,
      CheckpointTypeOK, MemoryTypeOK, disk, saving
  <2>3. QED
    BY <2>1, <2>2, ListsKept
<1>14. ASSUME NEW r \in Ranks, WriteShard(r) PROVE ListInv'
  BY <1>0, <1>14 DEF WriteShard, ListInv, Newest, Registered, InProgress, Saving, config,
    disk, saving
<1>15. ASSUME NEW r \in Ranks, SaveData(r) PROVE ListInv'
  BY <1>0, <1>15 DEF SaveData, ListInv, Newest, Registered, InProgress, Saving, config,
    disk, saving
<1>16. CASE WriteBestMeta
  BY <1>0, <1>16 DEF WriteBestMeta, ListInv, Newest, Registered, InProgress, Saving, config,
    disk, saving
<1>17. CASE OpenTracker
  BY <1>0, <1>17 DEF OpenTracker, ListInv, Newest, Registered, InProgress, Saving, config,
    disk, saving
<1>18. CASE WriteTracker
  <2>1. /\ UNCHANGED <<saved, removing, globalStep>> /\ removing = <<>> /\ pc \in InProgress
        /\ pc' # "load"
    BY <1>0, <1>18 DEF WriteTracker, ListInv, InProgress, Saving, disk, saving
  <2>2. \A o \in AllRoles : Newest(o) <= Newest(o)'
    BY <1>0, <1>18 DEF WriteTracker, WeightsInv, Newest, Registered, Saving,
      CheckpointTypeOK, MemoryTypeOK, disk, saving
  <2>3. QED
    BY <2>1, <2>2, ListsKept
<1>19. CASE RenameTracker
  BY <1>0, <1>19 DEF RenameTracker, WeightsInv, ListInv, Newest, Registered, InProgress,
    Saving, config, disk, saving
<1>20. CASE Barrier
  <2>1. /\ UNCHANGED <<saved, removing, globalStep>> /\ removing = <<>> /\ pc \in InProgress
        /\ pc' # "load"
    BY <1>0, <1>20 DEF Barrier, ListInv, InProgress, Saving, disk, saving
  <2>2. \A o \in AllRoles : Newest(o) <= Newest(o)'
    BY <1>0, <1>20 DEF Barrier, Newest, Registered, Saving, CheckpointTypeOK, MemoryTypeOK,
      disk, saving
  <2>3. QED
    BY <2>1, <2>2, ListsKept
<1>21. CASE Crash
  BY <1>21, CrashRest
<1>22. CASE Terminated
  BY <1>0, <1>22 DEF Terminated, vars, ListInv, Newest, Registered, InProgress, Saving,
    config, disk, saving
<1>23. QED
  BY <1>1, <1>2, <1>3, <1>4, <1>5, <1>6, <1>7, <1>8, <1>9, <1>10, <1>11, <1>12, <1>13,
    <1>14, <1>15, <1>16, <1>17, <1>18, <1>19, <1>20, <1>21, <1>22 DEF Next, Progress

\* Every step keeps a lost checkpoint lost until it is saved again.
LEMMA LostStep ==
    ASSUME Inv, Next
    PROVE  LostInv'
<1> USE CheckpointAssumption DEF Inv
<1>0. /\ UNCHANGED config /\ Roles' = Roles /\ Loaders' = Loaders
      /\ (Guarded' <=> Guarded) /\ (FolderStays' <=> FolderStays)
  BY ConfigFixed
<1>1. CASE Load
  BY <1>1, LoadRest
<1>2. CASE LoadFails
  BY <1>0, <1>2 DEF LoadFails, LostInv, InProgress, Saving, config, disk, saving
<1>3. CASE Train
  BY <1>3, TrainRest
<1>4. CASE NewBest
  BY <1>0, <1>4 DEF NewBest, BeginSave, LostInv, InProgress, Saving, config, disk, saving
<1>5. CASE NoNewBest
  BY <1>0, <1>5 DEF NoNewBest, LostInv, InProgress, Saving, config, disk, saving
<1>6. CASE Save
  BY <1>0, <1>6 DEF Save, BeginSave, LostInv, InProgress, Saving, config, disk, saving
<1>7. CASE NoSave
  BY <1>0, <1>7 DEF NoSave, LostInv, InProgress, Saving, config, disk, saving
<1>8. CASE NextStep
  BY <1>0, <1>8 DEF NextStep, IsLastStep, WeightsInv, CheckpointTypeOK, MemoryTypeOK,
    DiskTypeOK, LostInv, InProgress, Saving, config, disk, saving
<1>9. CASE EnsureCapacity
  BY <1>0, <1>9 DEF EnsureCapacity, Remove, LostInv, InProgress, Saving, config, disk,
    saving
<1>10. CASE RemoveFile
  BY <1>10, RemoveFileRest
<1>11. CASE MakeFolder
  BY <1>0, <1>11 DEF MakeFolder, WeightsInv, Best, LostInv, InProgress, Saving, config,
    disk, saving
<1>12. CASE Register
  BY <1>0, <1>12 DEF Register, Remove, LostInv, InProgress, Saving, config, disk, saving
<1>13. CASE SaveReturns
  BY <1>0, <1>13 DEF SaveReturns, WeightsInv, TrackerInv, FolderStays, Roles, LostInv,
    InProgress, Saving, config, disk, saving
<1>14. ASSUME NEW r \in Ranks, WriteShard(r) PROVE LostInv'
  BY <1>14, WriteShardFiles
<1>15. ASSUME NEW r \in Ranks, SaveData(r) PROVE LostInv'
  BY <1>0, <1>15 DEF SaveData, LostInv, InProgress, Saving, config, disk, saving
<1>16. CASE WriteBestMeta
  BY <1>0, <1>16 DEF WriteBestMeta, WeightsInv, TrackerInv, FolderStays, CheckpointTypeOK,
    LostInv, InProgress, Saving, config, disk, saving
<1>17. CASE OpenTracker
  BY <1>0, <1>17 DEF OpenTracker, WeightsInv, Torn, LostInv, InProgress, Saving, config,
    disk, saving
<1>18. CASE WriteTracker
  BY <1>0, <1>18 DEF WriteTracker, WeightsInv, CheckpointTypeOK, MemoryTypeOK, Folders,
    LostInv, InProgress, Saving, config, disk, saving
<1>19. CASE RenameTracker
  BY <1>0, <1>19 DEF RenameTracker, WeightsInv, CheckpointTypeOK, MemoryTypeOK, Folders,
    LostInv, InProgress, Saving, config, disk, saving
<1>20. CASE Barrier
  BY <1>0, <1>20 DEF Barrier, LostInv, InProgress, Saving, config, disk, saving
<1>21. CASE Crash
  BY <1>21, CrashRest
<1>22. CASE Terminated
  BY <1>0, <1>22 DEF Terminated, vars, LostInv, InProgress, Saving, config, disk, saving
<1>23. QED
  BY <1>1, <1>2, <1>3, <1>4, <1>5, <1>6, <1>7, <1>8, <1>9, <1>10, <1>11, <1>12, <1>13,
    <1>14, <1>15, <1>16, <1>17, <1>18, <1>19, <1>20, <1>21, <1>22 DEF Next, Progress

\* Every step keeps the files that were vouched for.
LEMMA FilesStep ==
    ASSUME Inv, Next
    PROVE  FilesInv'
<1> USE CheckpointAssumption DEF Inv
<1>0. /\ UNCHANGED config /\ Roles' = Roles /\ Loaders' = Loaders
      /\ (Guarded' <=> Guarded) /\ (FolderStays' <=> FolderStays)
  BY ConfigFixed
<1>1. CASE Load
  BY <1>0, <1>1 DEF Load, FilesInv, Whole, Registered, Saving, config, disk, saving
<1>2. CASE LoadFails
  BY <1>0, <1>2 DEF LoadFails, FilesInv, Whole, Registered, Saving, config, disk, saving
<1>3. CASE Train
  BY <1>0, <1>3 DEF Train, FilesInv, Whole, Registered, Saving, config, disk, saving
<1>4. CASE NewBest
  BY <1>0, <1>4 DEF NewBest, BeginSave, Best, FilesInv, Whole, Registered, Saving, config,
    disk, saving
<1>5. CASE NoNewBest
  BY <1>0, <1>5 DEF NoNewBest, FilesInv, Whole, Registered, Saving, config, disk, saving
<1>6. CASE Save
  BY <1>0, <1>6 DEF Save, BeginSave, AllRoles, Roles, FilesInv, Whole, Registered, Saving,
    config, disk, saving
<1>7. CASE NoSave
  BY <1>0, <1>7 DEF NoSave, FilesInv, Whole, Registered, Saving, config, disk, saving
<1>8. CASE NextStep
  BY <1>0, <1>8 DEF NextStep, IsLastStep, FilesInv, Whole, Registered, Saving, config, disk,
    saving
<1>9. CASE EnsureCapacity
  BY <1>0, <1>9 DEF EnsureCapacity, Remove, FilesInv, Whole, Registered, Saving, config,
    disk, saving
<1>10. CASE RemoveFile
  BY <1>10, RemoveFileRest
<1>11. CASE MakeFolder
  BY <1>0, <1>11 DEF MakeFolder, FilesInv, Whole, Registered, Saving, config, disk, saving
<1>12. CASE Register
  BY <1>0, <1>12 DEF Register, Remove, Loaders, CheckpointTypeOK, MemoryTypeOK, WeightsInv,
    InProgress, FilesInv, Whole, Registered, Saving, config, disk, saving
<1>13. CASE SaveReturns
  BY <1>0, <1>13 DEF SaveReturns, WeightsInv, InProgress, Best, AllRoles, Roles, FilesInv,
    Whole, Registered, Saving, config, disk, saving
<1>14. ASSUME NEW r \in Ranks, WriteShard(r) PROVE FilesInv'
  BY <1>14, WriteShardFiles
<1>15. ASSUME NEW r \in Ranks, SaveData(r) PROVE FilesInv'
  BY <1>15, SaveDataFiles
<1>16. CASE WriteBestMeta
  BY <1>0, <1>16 DEF WriteBestMeta, WeightsInv, InProgress, Best, FilesInv, Whole,
    Registered, Saving, config, disk, saving
<1>17. CASE OpenTracker
  BY <1>0, <1>17 DEF OpenTracker, Torn, FilesInv, Whole, Registered, Saving, config, disk,
    saving
<1>18. CASE WriteTracker
  BY <1>0, <1>18 DEF WriteTracker, WeightsInv, InProgress, Best, FilesInv, Whole,
    Registered, Saving, config, disk, saving
<1>19. CASE RenameTracker
  BY <1>0, <1>19 DEF RenameTracker, WeightsInv, InProgress, Best, FilesInv, Whole,
    Registered, Saving, config, disk, saving
<1>20. CASE Barrier
  BY <1>0, <1>20 DEF Barrier, FilesInv, Whole, Registered, Saving, config, disk, saving
<1>21. CASE Crash
  BY <1>21, CrashRest
<1>22. CASE Terminated
  BY <1>0, <1>22 DEF Terminated, vars, FilesInv, Whole, Registered, Saving, config, disk,
    saving
<1>23. QED
  BY <1>1, <1>2, <1>3, <1>4, <1>5, <1>6, <1>7, <1>8, <1>9, <1>10, <1>11, <1>12, <1>13,
    <1>14, <1>15, <1>16, <1>17, <1>18, <1>19, <1>20, <1>21, <1>22 DEF Next, Progress

\* Every step of a guarded run keeps the newest checkpoint of each list on record.
LEMMA RotationStep ==
    ASSUME Inv, Guarded, Next
    PROVE  RotationInv'
<1> USE CheckpointAssumption DEF Inv
<1>0. /\ UNCHANGED config /\ Roles' = Roles /\ Loaders' = Loaders
      /\ (Guarded' <=> Guarded) /\ (FolderStays' <=> FolderStays)
  BY ConfigFixed
<1>1. CASE Load
  BY <1>0, <1>1 DEF Load, RotationInv, Registered, Saving, config, disk, saving
<1>2. CASE LoadFails
  BY <1>0, <1>2 DEF LoadFails, RotationInv, Registered, Saving, config, disk, saving
<1>3. CASE Train
  BY <1>0, <1>3 DEF Train, RotationInv, Registered, Saving, config, disk, saving
<1>4. CASE NewBest
  BY <1>0, <1>4 DEF NewBest, BeginSave, Guarded, RotationInv, Registered, Saving, config,
    disk, saving
<1>5. CASE NoNewBest
  BY <1>0, <1>5 DEF NoNewBest, RotationInv, Registered, Saving, config, disk, saving
<1>6. CASE Save
  BY <1>0, <1>6 DEF Save, BeginSave, WeightsInv, InProgress, AllRoles, RotationInv,
    Registered, Saving, config, disk, saving
<1>7. CASE NoSave
  BY <1>0, <1>7 DEF NoSave, RotationInv, Registered, Saving, config, disk, saving
<1>8. CASE NextStep
  BY <1>0, <1>8 DEF NextStep, IsLastStep, RotationInv, Registered, Saving, config, disk,
    saving
<1>9. CASE EnsureCapacity
  BY <1>9, EnsureRotation
<1>10. CASE RemoveFile
  BY <1>10, RemoveFileRotation
<1>11. CASE MakeFolder
  BY <1>0, <1>11 DEF MakeFolder, RotationInv, Registered, Saving, config, disk, saving
<1>12. CASE Register
  BY <1>12, RegisterRotation
<1>13. CASE SaveReturns
  BY <1>13, SaveReturnsRotation
<1>14. ASSUME NEW r \in Ranks, WriteShard(r) PROVE RotationInv'
  BY <1>0, <1>14 DEF WriteShard, RotationInv, Registered, Saving, config, disk, saving
<1>15. ASSUME NEW r \in Ranks, SaveData(r) PROVE RotationInv'
  BY <1>0, <1>15 DEF SaveData, RotationInv, Registered, Saving, config, disk, saving
<1>16. CASE WriteBestMeta
  BY <1>0, <1>16 DEF WriteBestMeta, Guarded, WeightsInv, RotationInv, Registered, Saving,
    config, disk, saving
<1>17. CASE OpenTracker
  BY <1>0, <1>17 DEF OpenTracker, RotationInv, Registered, Saving, config, disk, saving
<1>18. CASE WriteTracker
  BY <1>0, <1>18 DEF WriteTracker, WeightsInv, InProgress, Roles, RotationInv, Registered,
    Saving, config, disk, saving
<1>19. CASE RenameTracker
  BY <1>0, <1>19 DEF RenameTracker, RotationInv, Registered, Saving, config, disk, saving
<1>20. CASE Barrier
  BY <1>20, BarrierRotation
<1>21. CASE Crash
  BY <1>21, CrashRest
<1>22. CASE Terminated
  BY <1>0, <1>22 DEF Terminated, vars, RotationInv, Registered, Saving, config, disk, saving
<1>23. QED
  BY <1>1, <1>2, <1>3, <1>4, <1>5, <1>6, <1>7, <1>8, <1>9, <1>10, <1>11, <1>12, <1>13,
    <1>14, <1>15, <1>16, <1>17, <1>18, <1>19, <1>20, <1>21, <1>22 DEF Next, Progress

\* The invariant is inductive.
LEMMA InvStep == Inv /\ [Next]_vars => Inv'
<1> SUFFICES ASSUME Inv, [Next]_vars PROVE Inv'
  OBVIOUS
<1>1. CASE Next
  <2>1. CheckpointTypeOK' /\ WeightsInv' /\ TrackerInv' /\ ListInv' /\ LostInv' /\ FilesInv'
    BY <1>1, TypeStep, WeightsStep, TrackerStep, ListStep, LostStep, FilesStep
  <2>2. Guarded' => RotationInv'
    BY <1>1, ConfigFixed, RotationStep
  <2>3. QED
    BY <2>1, <2>2 DEF Inv
<1>2. CASE UNCHANGED vars
  BY <1>2 DEF vars, config, disk, saving, Inv, CheckpointTypeOK, DiskTypeOK, MemoryTypeOK,
    WeightsInv, TrackerInv, ListInv, Newest, LostInv, RotationInv, FilesInv, Whole, Registered,
    Roles, Loaders, Guarded, FolderStays
<1>3. QED
  BY <1>1, <1>2

\* Every variable keeps its type.
THEOREM TypeCorrect == Spec => []CheckpointTypeOK
<1>1. Inv => CheckpointTypeOK
  BY DEF Inv
<1>2. QED
  BY InitInv, InvStep, <1>1, PTL DEF Spec

\* In every run whose folder stays, with any ranks, schedule and number of
\* crashes: when the tracker names a step, a restart never goes on from part of
\* its checkpoint nor from scratch. In a guarded run the checkpoint is complete.
THEOREM TrackerSound == Spec => []TrackerNamesCheckpoint
<1>1. ASSUME Inv PROVE TrackerNamesCheckpoint
  <2> SUFFICES ASSUME tracker \in 1 .. TotalSteps
               PROVE  /\ Guarded => Complete(tracker)
                      /\ FolderStays => FolderExists(tracker) /\ (CannotLoad \/ Complete(tracker))
    BY DEF TrackerNamesCheckpoint
  <2>1. FolderStays => data[tracker][Rank0] = tracker
    BY <1>1 DEF Inv, FilesInv
  <2>2. Guarded => FolderStays /\ Whole(tracker)
    BY <1>1 DEF Inv, FilesInv, Guarded, FolderStays
  <2>3. Guarded => Complete(tracker)
    BY <2>1, <2>2 DEF Complete, Whole
  <2>4. FolderStays => FolderExists(tracker) /\ Latest = tracker
    BY <1>1, FolderFound
  <2>5. FolderStays /\ ~ CannotLoad => Whole(tracker)
    BY <1>1, <2>4, LatestCheckpoint, CheckpointAssumption
  <2>6. QED
    BY <2>1, <2>3, <2>4, <2>5 DEF Complete, Whole
<1>2. QED
  BY InitInv, InvStep, <1>1, PTL DEF Spec

\* In every run whose folder stays: no batch of rank 0 is trained on twice or
\* skipped, whatever the crashes, and no rank's loader is ahead of the weights.
THEOREM LoaderSound == Spec => []LoaderMatchesWeights
<1>1. Inv => LoaderMatchesWeights
  BY DEF Inv, WeightsInv, LoaderMatchesWeights, InProgress, Loaders
<1>2. QED
  BY InitInv, InvStep, <1>1, PTL DEF Spec

-----------------------------------------------------------------------------
(* What checkpointing promises *)

WholeSteps == {n \in 1 .. TotalSteps : Whole(n)}

\* The weights of the run, or those that a restart finds.
Kept == IF pc \notin {"load", "failed"} THEN weights ELSE IF CannotLoad THEN Torn ELSE Latest

\* What the abstract specification sees of a state.
seen == <<trainer = "ppo", Guarded, Kept, tracker, WholeSteps>>

\* While nothing of this changes, nothing is seen.
LEMMA Unseen ==
    ASSUME UNCHANGED <<config, shard, tracker, weights>>,
           pc \notin {"load", "failed"}, pc' \notin {"load", "failed"}
    PROVE  UNCHANGED seen
  BY DEF config, seen, Kept, Guarded, WholeSteps, Whole, Roles

\* A run that stands still, its files too, is not seen.
LEMMA SameRestart ==
    ASSUME UNCHANGED <<config, shard, data, tracker, weights>>,
           pc \in {"load", "failed"} <=> pc' \in {"load", "failed"}
    PROVE  UNCHANGED seen
<1>1. UNCHANGED <<trainer, limit, tracksBest>> /\ Roles' = Roles /\ Loaders' = Loaders
  BY DEF config, Roles, Loaders
<1>2. Latest' = Latest
  BY <1>1 DEF Latest, FolderExists
<1>3. CannotLoad' <=> CannotLoad
  BY <1>1, <1>2 DEF CannotLoad, Readable, LoaderReadable
<1>4. Kept' = Kept
  BY <1>2, <1>3 DEF Kept
<1>5. QED
  BY <1>1, <1>4 DEF seen, Guarded, WholeSteps, Whole

\* Weights that are on record and still there are not replaced by older ones.
LEMMA ReplacedIsOlder ==
    ASSUME Inv, pc \in InProgress \ {"tracker"},
           tracker = weights => (tracker # 0 /\ ~ Whole(tracker))
    PROVE  tracker # Torn /\ (weights > tracker \/ tracker \notin WholeSteps \cup {0})
<1> USE CheckpointAssumption DEF Inv
<1>1. tracker # Torn /\ tracker \in Int /\ weights \in Nat
  BY DEF TrackerInv, InProgress, Saving, CheckpointTypeOK, DiskTypeOK, MemoryTypeOK, Files, Torn
<1>2. CASE tracker > weights
  <2>1. "actor" \in Roles /\ shard["actor"][tracker][Rank0] = NoFile /\ tracker # 0
    BY <1>1, <1>2 DEF LostInv, Roles, AllRoles
  <2>2. ~ Whole(tracker)
    BY <2>1 DEF Whole, NoFile
  <2>3. QED
    BY <1>1, <2>1, <2>2 DEF WholeSteps
<1>3. CASE tracker = weights
  BY <1>1, <1>3 DEF WholeSteps
<1>4. QED
  BY <1>1, <1>2, <1>3

\* When a role's weights have been written by every rank, all have.
LEMMA RegisteredWhole ==
    ASSUME Inv, pc \in {"data", "tracker"}
    PROVE  path = weights /\ path \in 1 .. TotalSteps /\ path \in WholeSteps
<1> USE CheckpointAssumption DEF Inv
<1>1. path = weights /\ path \in 1 .. TotalSteps
  BY DEF WeightsInv, InProgress, Saving
<1>2. \A o \in Roles, r \in Ranks : shard[o][path][r] = path
  BY <1>1 DEF FilesInv, Registered, Best
<1>3. QED
  BY <1>1, <1>2 DEF WholeSteps, Whole

\* A rank's file makes the weights that are saved whole, or is not seen.
LEMMA WriteSeen ==
    ASSUME Inv, NEW r \in Ranks, WriteShard(r)
    PROVE  Durability!Write \/ UNCHANGED seen
<1> USE CheckpointAssumption DEF Inv
<1>1. /\ pc = "write" /\ pc' = pc /\ UNCHANGED <<config, tracker, weights>> /\ Roles' = Roles
      /\ role \in Roles /\ role \in AllRoles /\ Roles \subseteq AllRoles /\ path \in Folders
      /\ weights \in 1 .. TotalSteps /\ (path = weights \/ path = Best)
  BY DEF WriteShard, config, Roles, AllRoles, WeightsInv, InProgress, Saving, CheckpointTypeOK,
    MemoryTypeOK
<1>0. PICK p \in Folders : p = path
  BY <1>1
<1>2. /\ \A o \in AllRoles, n \in Folders, q \in Ranks :
            (o # role \/ n # p \/ q # r) => shard'[o][n][q] = shard[o][n][q]
      /\ shard'[role][p][r] = weights
  BY <1>0, <1>1 DEF WriteShard, CheckpointTypeOK, DiskTypeOK
<1>3. \A n \in 1 .. TotalSteps : n # p => (Whole(n)' <=> Whole(n))
  BY <1>1, <1>2 DEF Whole, Folders
<1>4. UNCHANGED <<trainer = "ppo", Guarded, Kept, tracker>> /\ Kept = weights
  BY <1>1 DEF Kept, config, Guarded
<1>5. CASE p = Best \/ Whole(p)
  <2>1. p = Best \/ Whole(p)'
    BY <1>0, <1>1, <1>2, <1>5 DEF Whole, Best
  <2>2. \A n \in 1 .. TotalSteps : Whole(n)' <=> Whole(n)
    BY <1>3, <1>5, <2>1 DEF Best
  <2>3. QED
    BY <1>4, <2>2 DEF seen, WholeSteps
<1>6. CASE p # Best /\ ~ Whole(p) /\ ~ Whole(p)'
  <2>1. \A n \in 1 .. TotalSteps : Whole(n)' <=> Whole(n)
    BY <1>3, <1>6
  <2>2. QED
    BY <1>4, <2>1 DEF seen, WholeSteps
<1>7. CASE p # Best /\ ~ Whole(p) /\ Whole(p)'
  <2>1. WholeSteps' = WholeSteps \cup {weights}
    BY <1>0, <1>1, <1>3, <1>7 DEF WholeSteps, Best
  <2>2. tracker # Torn /\ (weights > tracker \/ tracker \notin WholeSteps \cup {0})
    BY <1>0, <1>1, <1>7, ReplacedIsOlder DEF InProgress, Saving, Best
  <2>3. Durability!Write
    BY <1>4, <2>1, <2>2 DEF Durability!Write, Durability!Newer, Durability!Recorded,
      Durability!Nothing, Torn, WholeSteps, Kept
  <2>4. QED
    BY <2>3
<1>8. QED
  BY <1>5, <1>6, <1>7

\* Removing a file of older weights ends their being whole, or is not seen.
LEMMA RotateSeen ==
    ASSUME Inv, RemoveFile
    PROVE  Durability!Rotate \/ UNCHANGED seen
<1> USE CheckpointAssumption DEF Inv
<1>0. PICK f \in Folders : f = Head(removing)
  BY RemoveFileFrame
<1>1. /\ f \in Folders /\ f < globalStep /\ pc \in {"makeRoom", "rotate"}
      /\ UNCHANGED <<pc, tracker, weights, config>>
      /\ \A o \in AllRoles, n \in Folders, r \in Ranks :
            /\ shard'[o][n][r] \in {shard[o][n][r], NoFile}
            /\ n # f => shard'[o][n][r] = shard[o][n][r]
  BY <1>0, RemoveFileFrame
<1>2. Guarded => f # tracker
  BY <1>0, RemoveFileRotation
<1>3. weights = globalStep /\ tracker # Torn /\ Roles' = Roles /\ Roles \subseteq AllRoles
  BY <1>1 DEF WeightsInv, TrackerInv, InProgress, Saving, Roles, AllRoles, config
<1>4. UNCHANGED <<trainer = "ppo", Guarded, Kept, tracker>> /\ Kept = weights
  BY <1>1 DEF Kept, config, Guarded
<1>5. \A n \in 1 .. TotalSteps : /\ n # f => (Whole(n)' <=> Whole(n))
                                 /\ Whole(n)' => Whole(n)
  BY <1>1, <1>3 DEF Whole, Folders, NoFile
<1>6. CASE f \in WholeSteps /\ ~ Whole(f)'
  <2>1. WholeSteps' = WholeSteps \ {f}
    BY <1>5, <1>6 DEF WholeSteps
  <2>2. Durability!Rotate
    BY <1>1, <1>2, <1>3, <1>4, <1>6, <2>1 DEF Durability!Rotate, Durability!Nothing, Torn,
      WholeSteps, Kept
  <2>3. QED
    BY <2>2
<1>7. CASE ~ (f \in WholeSteps /\ ~ Whole(f)')
  <2>1. \A n \in 1 .. TotalSteps : Whole(n)' <=> Whole(n)
    BY <1>5, <1>7 DEF WholeSteps
  <2>2. QED
    BY <1>4, <2>1 DEF seen, WholeSteps
<1>8. QED
  BY <1>6, <1>7

\* The tracker is replaced by the step that has been saved.
LEMMA TrackerSeen ==
    ASSUME Inv, OpenTracker \/ WriteTracker \/ RenameTracker
    PROVE  Durability!BeginReplace \/ Durability!Record \/ UNCHANGED seen
<1> USE CheckpointAssumption DEF Inv
<1>1. /\ pc \in {"data", "tracker"} /\ pc' \notin {"load", "failed"}
      /\ UNCHANGED <<config, shard, weights>>
  BY DEF OpenTracker, WriteTracker, RenameTracker, config
<1>2. path = weights /\ path \in 1 .. TotalSteps /\ path \in WholeSteps
  BY <1>1, RegisteredWhole
<1>3. UNCHANGED <<trainer = "ppo", Guarded, Kept, WholeSteps>> /\ Kept = weights
  BY <1>1 DEF Kept, config, Guarded, WholeSteps, Whole, Roles
<1>4. CASE OpenTracker
  <2>1. trainer = "ppo" /\ tracker \in 0 .. weights - 1 /\ tracker' = Torn
    BY <1>4 DEF OpenTracker, FolderStays, TrackerInv, WeightsInv, InProgress, Saving
  <2>2. Durability!BeginReplace
    BY <1>2, <1>3, <2>1 DEF Durability!BeginReplace, Durability!Newer, Durability!Nothing, Torn,
      WholeSteps, Kept
  <2>3. QED
    BY <2>2
<1>5. CASE WriteTracker
  <2>1. tracker = Torn /\ tracker' = weights
    BY <1>2, <1>5 DEF WriteTracker, TrackerInv
  <2>2. Durability!Record
    BY <1>2, <1>3, <2>1 DEF Durability!Record, Durability!Newer, Durability!Nothing, Torn,
      WholeSteps, Kept
  <2>3. QED
    BY <2>2
<1>6. CASE RenameTracker
  <2>1. trainer # "ppo" /\ pc = "data" /\ tracker' = weights
    BY <1>2, <1>6 DEF RenameTracker
  <2>2. CASE tracker = weights
    BY <1>3, <2>1, <2>2 DEF seen
  <2>3. CASE tracker # weights
    <3>1. weights > tracker \/ tracker \notin WholeSteps \cup {0}
      BY <2>1, <2>3, ReplacedIsOlder DEF InProgress, Saving
    <3>2. Durability!Record
      BY <1>2, <1>3, <2>1, <3>1 DEF Durability!Record, Durability!Newer, Durability!Recorded,
        WholeSteps, Kept
    <3>3. QED
      BY <3>2
  <2>4. QED
    BY <2>2, <2>3
<1>7. QED
  BY <1>4, <1>5, <1>6

\* A crash spoils at most the weights that were being written, never those on
\* record.
LEMMA CrashWhole ==
    ASSUME Inv, Crash
    PROVE  /\ \A n \in 1 .. TotalSteps :
                /\ Whole(n)' => Whole(n)
                /\ (Whole(n) /\ ~ Whole(n)') => (pc = "write" /\ n = weights /\ n # tracker)
<1> USE CheckpointAssumption DEF Inv
<1>1. /\ Roles' = Roles /\ Roles \subseteq AllRoles
      /\ \A o \in AllRoles, n \in Folders, r \in Ranks :
            \/ shard'[o][n][r] = shard[o][n][r]
            \/ shard'[o][n][r] = Torn /\ pc = "write" /\ n = path /\ o = role /\ r \in toWrite
  BY CrashFrame
<1> SUFFICES ASSUME NEW n \in 1 .. TotalSteps
             PROVE  /\ Whole(n)' => Whole(n)
                    /\ (Whole(n) /\ ~ Whole(n)') => (pc = "write" /\ n = weights /\ n # tracker)
  OBVIOUS
<1>2. n \in Folders /\ n # Best /\ n # NoFile /\ n # Torn
  BY DEF Folders, Best, NoFile, Torn
<1>3. Whole(n)' => Whole(n)
  BY <1>1, <1>2 DEF Whole
<1>4. ASSUME Whole(n), ~ Whole(n)' PROVE pc = "write" /\ n = weights /\ n # tracker
  <2>1. PICK o \in Roles, r \in Ranks : shard'[o][n][r] # n
    BY <1>1, <1>4 DEF Whole
  <2>2. shard[o][n][r] = n
    BY <1>4 DEF Whole
  <2>3. pc = "write" /\ n = path /\ o = role /\ r \in toWrite
    BY <1>1, <1>2, <2>1, <2>2
  <2>4. n = weights
    BY <1>2, <2>3 DEF WeightsInv, InProgress, Saving
  <2>5. n # tracker
    BY <1>2, <2>2, <2>3 DEF LostInv
  <2>6. QED
    BY <2>3, <2>4, <2>5
<1>5. QED
  BY <1>3, <1>4

\* What the restart finds is on record, or it stops, or it begins again.
LEMMA RestartSeen ==
    ASSUME Inv, Inv', Crash
    PROVE  LET there == tracker \in WholeSteps \cup {0}
           IN  \/ there /\ Kept' = tracker
               \/ ~ (there /\ trainer = "ppo") /\ Kept' = Torn
               \/ ~ there /\ trainer # "ppo" /\ Kept' = 0
<1> USE CheckpointAssumption
<1>1. /\ pc' = "load" /\ UNCHANGED <<trainer, tracker>> /\ Roles' = Roles
  BY CrashFrame
<1>2. tracker \in Files /\ (trainer = "ppo" => FolderStays')
  BY <1>1 DEF Inv, CheckpointTypeOK, DiskTypeOK, FolderStays
<1>0. PICK t : t = tracker /\ t = tracker'
  BY <1>1
<1>3. t \in 1 .. TotalSteps => (Whole(t)' <=> Whole(t))
  BY <1>0, CrashWhole
<1>4. (trainer = "ppo" /\ t \in 1 .. TotalSteps) => data'[t][Rank0] = t
  BY <1>0, <1>1, <1>2 DEF Inv, FilesInv
<1>5. CASE CannotLoad'
  <2>1. Kept' = Torn
    BY <1>1, <1>5 DEF Kept
  <2>2. ASSUME t \in WholeSteps \cup {0}, trainer = "ppo" PROVE FALSE
    <3>1. tracker' # Torn /\ Latest' # NoFile /\ ~ (Readable(Latest)' /\ LoaderReadable(Latest)')
      BY <1>0, <1>1, <1>5, <2>2 DEF CannotLoad, WholeSteps, Torn
    <3>2. Latest' = t /\ t \in 1 .. TotalSteps
      BY <1>0, <1>1, <2>2, <3>1 DEF Latest, WholeSteps, NoFile
    <3>3. Whole(t)'
      BY <1>3, <2>2, <3>2 DEF WholeSteps
    <3>4. Readable(Latest)'
      BY <1>1, <3>2, <3>3 DEF Readable, Whole, NoFile, Torn
    <3>5. LoaderReadable(Latest)'
      BY <1>1, <1>4, <2>2, <3>2 DEF LoaderReadable, Loaders, Torn
    <3>6. QED
      BY <3>1, <3>4, <3>5
  <2>3. QED
    BY <1>0, <2>1, <2>2
<1>6. CASE ~ CannotLoad'
  <2>1. Kept' = Latest'
    BY <1>1, <1>6 DEF Kept
  <2>2. /\ \/ Latest' = 0 /\ (t = 0 \/ ~ FolderExists(t)')
           \/ Latest' = t /\ Whole(t)'
        /\ t \in Folders
    BY <1>0, <1>6, NextLatestCheckpoint DEF Found, Whole, FolderExists
  <2>3. CASE t = 0
    BY <1>0, <1>1, <2>1, <2>2, <2>3
  <2>4. CASE t # 0 /\ Latest' = t /\ Whole(t)'
    <3>1. t \in 1 .. TotalSteps
      BY <2>2, <2>4 DEF Folders
    <3>2. t \in WholeSteps /\ Kept' = t
      BY <1>3, <2>1, <2>4, <3>1 DEF WholeSteps
    <3>3. QED
      BY <1>0, <3>2
  <2>5. CASE t # 0 /\ Latest' = 0 /\ ~ FolderExists(t)'
    <3>1. t \in 1 .. TotalSteps
      BY <1>1, <2>2, <2>5 DEF Folders
    <3>2. trainer # "ppo"
      BY <1>1, <1>4, <2>5, <3>1 DEF FolderExists, NoFile
    <3>3. ~ Whole(t)'
      <4>1. "actor" \in Roles' /\ Rank0 \in Ranks
        BY DEF Roles, AllRoles
      <4>2. shard'["actor"][t][Rank0] = NoFile
        BY <2>5, <4>1 DEF FolderExists
      <4>3. QED
        BY <3>1, <4>1, <4>2 DEF Whole, NoFile
    <3>4. QED
      BY <1>0, <1>3, <2>1, <2>5, <3>1, <3>2, <3>3 DEF WholeSteps
  <2>6. QED
    BY <2>2, <2>3, <2>4, <2>5
<1>7. QED
  BY <1>5, <1>6

\* A crash is a crash of the abstract specification.
LEMMA CrashSeen ==
    ASSUME Inv, Inv', Crash
    PROVE  Durability!Crash
<1> USE CheckpointAssumption
<1>1. /\ pc \notin {"load", "failed", "done"} /\ UNCHANGED <<config, tracker>>
  BY DEF Crash, config
<1>2. Kept = weights /\ weights \in Nat /\ UNCHANGED <<trainer = "ppo", Guarded, tracker>>
  BY <1>1 DEF Kept, Inv, CheckpointTypeOK, MemoryTypeOK, config, Guarded
<1>3. \/ WholeSteps' = WholeSteps
      \/ /\ WholeSteps' = WholeSteps \ {weights}
         /\ tracker # Torn /\ (weights > tracker \/ tracker \notin WholeSteps \cup {0})
  <2>1. CASE \A n \in 1 .. TotalSteps : Whole(n) => Whole(n)'
    BY <2>1, CrashWhole DEF WholeSteps
  <2>2. CASE \E n \in 1 .. TotalSteps : Whole(n) /\ ~ Whole(n)'
    <3>1. PICK n \in 1 .. TotalSteps : Whole(n) /\ ~ Whole(n)'
      BY <2>2
    <3>2. pc = "write" /\ n = weights /\ n # tracker
      BY <3>1, CrashWhole
    <3>3. WholeSteps' = WholeSteps \ {weights}
      BY <3>1, <3>2, CrashWhole DEF WholeSteps
    <3>4. tracker # Torn /\ (weights > tracker \/ tracker \notin WholeSteps \cup {0})
      BY <3>2, ReplacedIsOlder DEF InProgress, Saving
    <3>5. QED
      BY <3>3, <3>4
  <2>3. QED
    BY <2>1, <2>2
<1>4. Durability!Restart
  BY RestartSeen DEF Durability!Restart, Durability!Recorded, Durability!Nothing, Torn, WholeSteps,
    Kept
<1>5. QED
  BY <1>2, <1>3, <1>4 DEF Durability!Crash, Durability!Newer, Durability!Recorded,
    Durability!Nothing, Torn, WholeSteps, Kept

\* Every step of the trainers is a step of the abstract specification, or
\* changes nothing that it sees.
LEMMA DurabilityStep ==
    ASSUME Inv, Inv', Next
    PROVE  Durability!Next \/ UNCHANGED seen
<1> USE CheckpointAssumption
<1>1. CASE Load
  <2>1. ~ CannotLoad /\ pc = "load" /\ pc' \notin {"load", "failed"}
        /\ UNCHANGED <<config, shard, tracker>>
    BY <1>1 DEF Load, disk
  <2>2. weights' = Latest
    <3>1. CASE Latest = NoFile
      BY <1>1, <3>1 DEF Load, NoFile
    <3>2. CASE Latest # NoFile
      BY <1>1, <2>1, <3>2, LatestCheckpoint DEF Load, Whole, Roles, AllRoles, NoFile
    <3>3. QED
      BY <3>1, <3>2
  <2>3. Kept = Latest /\ Kept' = Latest
    BY <2>1, <2>2 DEF Kept
  <2>4. QED
    BY <2>1, <2>3 DEF config, seen, Guarded, WholeSteps, Whole, Roles
<1>2. CASE Train
  <2>1. weights \in 0 .. TotalSteps - 1 /\ pc = "train" /\ pc' = "validate" /\ tracker # Torn
        /\ weights' = weights + 1 /\ UNCHANGED <<config, shard, tracker>>
    BY <1>2 DEF Train, Inv, WeightsInv, TrackerInv, disk
  <2>2. /\ UNCHANGED <<trainer = "ppo", Guarded, tracker, WholeSteps>>
        /\ Kept = weights /\ Kept' = weights + 1
    BY <2>1 DEF config, Kept, Guarded, WholeSteps, Whole, Roles
  <2>3. Durability!Train
    BY <2>1, <2>2 DEF Durability!Train, Durability!Nothing, Torn, WholeSteps, Kept
  <2>4. QED
    BY <2>3 DEF Durability!Next
<1>3. CASE NewBest \/ NoNewBest \/ Save \/ NoSave \/ NextStep
  <2>1. UNCHANGED <<config, shard, tracker, weights>>
    BY <1>3 DEF NewBest, NoNewBest, Save, NoSave, NextStep, config, disk
  <2>2. pc \notin {"load", "failed"} /\ pc' \notin {"load", "failed"}
    BY <1>3 DEF NewBest, NoNewBest, Save, BeginSave, NoSave, NextStep
  <2>3. QED
    BY <2>1, <2>2, Unseen
<1>4. CASE EnsureCapacity \/ MakeFolder \/ Register \/ SaveReturns \/ WriteBestMeta \/ Barrier
  <2>1. UNCHANGED <<config, shard, tracker, weights>>
    BY <1>4 DEF EnsureCapacity, MakeFolder, Register, SaveReturns, WriteBestMeta, Barrier, disk
  <2>2. pc \notin {"load", "failed"} /\ pc' \notin {"load", "failed"}
    BY <1>4 DEF EnsureCapacity, MakeFolder, Register, SaveReturns, WriteBestMeta, Barrier
  <2>3. QED
    BY <2>1, <2>2, Unseen
<1>5. ASSUME NEW r \in Ranks, SaveData(r) PROVE UNCHANGED seen
  BY <1>5, Unseen DEF SaveData, SavesData, config
<1>6. CASE LoadFails
  BY <1>6, SameRestart DEF LoadFails, disk
<1>7. CASE Terminated
  BY <1>7, SameRestart DEF Terminated, vars, disk
<1>8. CASE RemoveFile
  BY <1>8, RotateSeen DEF Durability!Next
<1>9. ASSUME NEW r \in Ranks, WriteShard(r) PROVE Durability!Next \/ UNCHANGED seen
  BY <1>9, WriteSeen DEF Durability!Next
<1>10. CASE OpenTracker \/ WriteTracker \/ RenameTracker
  BY <1>10, TrackerSeen DEF Durability!Next
<1>11. CASE Crash
  BY <1>11, CrashSeen DEF Durability!Next
<1>12. QED
  BY <1>1, <1>2, <1>3, <1>4, <1>5, <1>6, <1>7, <1>8, <1>9, <1>10, <1>11 DEF Next, Progress

\* Both trainers, with every limit, their managers, rotations, best
\* checkpoints, crashes and restarts, implement DurableTraining.
THEOREM ImplementsDurable == Spec => ImplementsDurability
<1>1. Init => Durability!Init
  <2> SUFFICES ASSUME Init PROVE Durability!Init
    OBVIOUS
  <2>1. tracker = 0 /\ pc = "load" /\ ~ CannotLoad /\ Latest = 0
    BY DEF Init, CannotLoad, Latest, NoFile, Torn
  <2>2. \A n \in 1 .. TotalSteps : ~ Whole(n)
    BY CheckpointAssumption DEF Init, Whole, Blank, NoFile, Roles, AllRoles, Folders
  <2>3. Guarded \in BOOLEAN /\ (trainer = "ppo") \in BOOLEAN
    BY DEF Guarded
  <2>4. QED
    BY <2>1, <2>2, <2>3 DEF Durability!Init
<1>2. Inv /\ Inv' /\ [Next]_vars => [Durability!Next]_seen
  <2> SUFFICES ASSUME Inv, Inv', [Next]_vars PROVE Durability!Next \/ UNCHANGED seen
    OBVIOUS
  <2>1. CASE Next
    BY <2>1, DurabilityStep
  <2>2. CASE UNCHANGED vars
    BY <2>2, SameRestart DEF vars, disk
  <2>3. QED
    BY <2>1, <2>2
<1>3. QED
  BY InitInv, InvStep, <1>1, <1>2, PTL DEF Spec, ImplementsDurability, Durability!Spec,
    Durability!vars, seen, Kept, WholeSteps

-----------------------------------------------------------------------------
(* The disk *)

Listed(s) == {s[i] : i \in 1 .. Len(s)}

\* Until the first crash a folder on disk is in the list of its role, waits to
\* be removed, or is being written; and the lists leave room for the latter.
\* The folder of the best checkpoint is not counted.
SpaceInv ==
    /\ shard \in [AllRoles -> [Folders -> [Ranks -> Int]]] /\ weights \in Int
    /\ saved \in [AllRoles -> Seq(Int)] /\ removing \in Seq(Int)
    /\ role \in AllRoles /\ path \in Int /\ globalStep \in Int /\ tracker \in Int /\ limit \in Nat
    /\ \A o \in AllRoles :
        /\ OnDisk(o) \subseteq Listed(saved[o])
                               \cup (IF o = role THEN Listed(removing) ELSE {})
                               \cup (IF o = role /\ pc = "write" THEN {path} ELSE {})
        /\ Len(saved[o]) <= limit
    /\ removing # <<>> => pc \in {"makeRoom", "rotate"}
    /\ pc = "makeRoom" => Len(saved[role]) + Len(removing) <= limit
    /\ (pc \in {"makeRoom", "write"} /\ path # Best /\ limit > 1) => Len(saved[role]) < limit
    /\ (pc = "rotate" /\ path # Best) =>
        Len(saved[role]) + Len(removing) <= IF limit = 1 THEN 2 ELSE limit
    /\ (pc = "rotate" /\ path = Best) =>
        saved[role] = <<Best>> /\ Len(removing) <= limit
    /\ pc = "load" => tracker = NoFile

DiskInv == crashes \in Nat /\ ((limit > 0 /\ crashes = 0) => SpaceInv)

\* A list has at most as many folders as entries.
LEMMA ListedSize ==
    ASSUME NEW s \in Seq(Int)
    PROVE  IsFiniteSet(Listed(s)) /\ Cardinality(Listed(s)) \in Nat /\ Cardinality(Listed(s)) <= Len(s)
<1>1. Len(s) \in Nat /\ s \in Surjection(1 .. Len(s), Listed(s))
  BY DEF Listed, Surjection
<1>2. IsFiniteSet(1 .. Len(s)) /\ Cardinality(1 .. Len(s)) = Len(s)
  <2>1. 1 \in Int /\ Len(s) \in Int
    BY <1>1
  <2>2. IsFiniteSet(1 .. Len(s)) /\ Cardinality(1 .. Len(s)) = IF 1 > Len(s) THEN 0 ELSE Len(s) - 1 + 1
    BY <2>1, FS_Interval, Zenon
  <2>3. QED
    BY <1>1, <2>2
<1>3. IsFiniteSet(Listed(s)) /\ Cardinality(Listed(s)) <= Cardinality(1 .. Len(s))
  BY <1>1, <1>2, FS_Surjection
<1>4. QED
  BY <1>2, <1>3, FS_CardinalityType

\* The sizes of two lists and a set bound what is in any of them.
LEMMA UnionSize ==
    ASSUME NEW s \in Seq(Int), NEW q \in Seq(Int), NEW U, IsFiniteSet(U),
           NEW X, X \subseteq Listed(s) \cup Listed(q) \cup U
    PROVE  IsFiniteSet(X) /\ Cardinality(X) \in Nat
           /\ Cardinality(X) <= Len(s) + Len(q) + Cardinality(U)
<1> DEFINE A == Listed(s)
           B == Listed(q)
<1>1. /\ IsFiniteSet(A) /\ Cardinality(A) \in Nat /\ Cardinality(A) <= Len(s)
      /\ IsFiniteSet(B) /\ Cardinality(B) \in Nat /\ Cardinality(B) <= Len(q)
      /\ Cardinality(U) \in Nat
  BY ListedSize, FS_CardinalityType
<1> HIDE DEF A, B
<1>2. /\ IsFiniteSet(A \cup B) /\ Cardinality(A \cup B) \in Nat
      /\ Cardinality(A \cup B) <= Cardinality(A) + Cardinality(B)
  <2>1. IsFiniteSet(A \cap B) /\ Cardinality(A \cap B) \in Nat
    BY <1>1, FS_Intersection, FS_CardinalityType
  <2>2. /\ IsFiniteSet(A \cup B)
        /\ Cardinality(A \cup B) = Cardinality(A) + Cardinality(B) - Cardinality(A \cap B)
    BY <1>1, FS_Union, Zenon
  <2>3. Cardinality(A \cup B) \in Nat
    BY <2>2, FS_CardinalityType
  <2>4. QED
    BY <1>1, <2>1, <2>2, <2>3
<1>3. /\ IsFiniteSet((A \cup B) \cup U) /\ Cardinality((A \cup B) \cup U) \in Nat
      /\ Cardinality((A \cup B) \cup U) <= Cardinality(A \cup B) + Cardinality(U)
  <2> DEFINE AB == A \cup B
  <2>1. IsFiniteSet(AB) /\ Cardinality(AB) \in Nat
    BY <1>2
  <2> HIDE DEF AB
  <2>2. IsFiniteSet(AB \cap U) /\ Cardinality(AB \cap U) \in Nat
    BY <2>1, FS_Intersection, FS_CardinalityType
  <2>3. /\ IsFiniteSet(AB \cup U)
        /\ Cardinality(AB \cup U) = Cardinality(AB) + Cardinality(U) - Cardinality(AB \cap U)
    BY <2>1, FS_Union, Zenon
  <2>4. Cardinality(AB \cup U) \in Nat
    BY <2>3, FS_CardinalityType
  <2>5. Cardinality(AB \cup U) <= Cardinality(AB) + Cardinality(U)
    BY <1>1, <2>1, <2>2, <2>3, <2>4
  <2>6. QED
    BY <2>3, <2>4, <2>5 DEF AB
<1>4. X \in SUBSET ((A \cup B) \cup U)
  BY DEF A, B
<1>5. IsFiniteSet(X) /\ Cardinality(X) <= Cardinality((A \cup B) \cup U) /\ Cardinality(X) \in Nat
  BY <1>3, <1>4, FS_Subset, FS_CardinalityType
<1>6. Len(s) \in Nat /\ Len(q) \in Nat
  OBVIOUS
<1>7. QED
  BY <1>1, <1>2, <1>3, <1>5, <1>6

\* The invariant bounds the folders of every role.
LEMMA SpaceBounds ==
    ASSUME limit > 0, SpaceInv, NEW o \in AllRoles
    PROVE  Cardinality(OnDisk(o)) <= IF limit = 1 THEN 2 ELSE limit
<1>1. /\ saved[o] \in Seq(Int) /\ removing \in Seq(Int) /\ Len(saved[o]) \in Nat
      /\ Len(removing) \in Nat /\ limit \in Nat /\ Len(saved[o]) <= limit
  BY CheckpointAssumption DEF SpaceInv
<1>2. removing = <<>> => Listed(removing) = {}
  BY DEF Listed
<1>3. /\ IsFiniteSet({path}) /\ Cardinality({path}) = 1 /\ IsFiniteSet({}) /\ Cardinality({}) = 0
      /\ <<>> \in Seq(Int) /\ Len(<<>>) = 0 /\ Listed(<<>>) = {}
  <2>1. IsFiniteSet({path}) /\ Cardinality({path}) = 1
    BY FS_Singleton
  <2>2. IsFiniteSet({}) /\ Cardinality({}) = 0
    BY FS_EmptySet
  <2>3. <<>> \in Seq(Int) /\ Len(<<>>) = 0 /\ Listed(<<>>) = {}
    BY DEF Listed
  <2>4. QED
    BY <2>1, <2>2, <2>3
<1>4. CASE o # role \/ (pc # "write" /\ removing = <<>>)
  <2>1. OnDisk(o) \subseteq Listed(saved[o]) \cup Listed(<<>>) \cup {}
    BY <1>2, <1>3, <1>4 DEF SpaceInv
  <2>2. Cardinality(OnDisk(o)) \in Nat /\ Cardinality(OnDisk(o)) <= Len(saved[o]) + Len(<<>>) + Cardinality({})
    BY <1>1, <1>3, <2>1, UnionSize
  <2>3. QED
    BY <1>1, <1>3, <2>2
<1>5. CASE o = role /\ pc = "write"
  <2>1. removing = <<>>
    BY <1>5 DEF SpaceInv
  <2>2. CASE path = Best
    <3>0. OnDisk(o) \subseteq Listed(saved[o]) \cup {path} /\ path \notin OnDisk(o)
      BY <1>2, <1>5, <2>1, <2>2 DEF SpaceInv, OnDisk, Best
    <3>1. OnDisk(o) \subseteq Listed(saved[o]) \cup Listed(<<>>) \cup {}
      BY <1>3, <3>0
    <3>2. Cardinality(OnDisk(o)) \in Nat /\ Cardinality(OnDisk(o)) <= Len(saved[o]) + Len(<<>>) + Cardinality({})
      BY <1>1, <1>3, <3>1, UnionSize
    <3>3. QED
      BY <1>1, <1>3, <3>2
  <2>3. CASE path # Best
    <3>1. OnDisk(o) \subseteq Listed(saved[o]) \cup Listed(<<>>) \cup {path}
      BY <1>2, <1>3, <1>5, <2>1 DEF SpaceInv
    <3>2. /\ Cardinality(OnDisk(o)) \in Nat
          /\ Cardinality(OnDisk(o)) <= Len(saved[o]) + Len(<<>>) + Cardinality({path})
      BY <1>1, <1>3, <3>1, UnionSize
    <3>3. limit > 1 => Len(saved[o]) < limit
      BY <1>5, <2>3 DEF SpaceInv
    <3>4. QED
      BY <1>1, <1>3, <3>2, <3>3
  <2>4. QED
    BY <2>2, <2>3
<1>6. CASE o = role /\ pc # "write" /\ removing # <<>>
  <2>1. pc \in {"makeRoom", "rotate"}
    BY <1>6 DEF SpaceInv
  <2>2. OnDisk(o) \subseteq Listed(saved[o]) \cup Listed(removing) \cup {}
    BY <1>6 DEF SpaceInv
  <2>3. CASE ~ (pc = "rotate" /\ path = Best)
    <3>1. Cardinality(OnDisk(o)) \in Nat /\ Cardinality(OnDisk(o)) <= Len(saved[o]) + Len(removing) + Cardinality({})
      BY <1>1, <1>3, <2>2, UnionSize
    <3>2. Len(saved[o]) + Len(removing) <= IF limit = 1 THEN 2 ELSE limit
      BY <1>1, <1>6, <2>1, <2>3 DEF SpaceInv
    <3>3. QED
      BY <1>1, <1>3, <3>1, <3>2
  <2>4. CASE pc = "rotate" /\ path = Best
    <3>1. saved[o] = <<Best>> /\ Len(removing) <= limit
      BY <1>6, <2>4 DEF SpaceInv
    <3>2. Listed(saved[o]) = {Best}
      BY <3>1 DEF Listed
    <3>3. OnDisk(o) \subseteq Listed(<<>>) \cup Listed(removing) \cup {}
      BY <2>2, <3>2 DEF OnDisk, Best
    <3>4. Cardinality(OnDisk(o)) \in Nat /\ Cardinality(OnDisk(o)) <= Len(<<>>) + Len(removing) + Cardinality({})
      BY <1>1, <1>3, <3>3, UnionSize
    <3>5. QED
      BY <1>1, <1>3, <3>1, <3>4
  <2>5. QED
    BY <2>3, <2>4
<1>7. QED
  BY <1>4, <1>5, <1>6

\* Splitting a list loses nothing.
LEMMA SplitListed ==
    ASSUME NEW s \in Seq(Int), NEW n \in 0 .. Len(s)
    PROVE  /\ SubSeq(s, 1, n) \in Seq(Int) /\ SubSeq(s, n + 1, Len(s)) \in Seq(Int)
           /\ Len(SubSeq(s, 1, n)) = n /\ Len(SubSeq(s, n + 1, Len(s))) = Len(s) - n
           /\ Listed(s) \subseteq Listed(SubSeq(s, 1, n)) \cup Listed(SubSeq(s, n + 1, Len(s)))
<1> DEFINE a == SubSeq(s, 1, n)
           b == SubSeq(s, n + 1, Len(s))
<1>1. /\ a \in Seq(Int) /\ Len(a) = n /\ \A i \in 1 .. n : a[i] = s[i]
      /\ b \in Seq(Int) /\ Len(b) = Len(s) - n /\ \A i \in 1 .. Len(s) - n : b[i] = s[n + i]
  BY SubSeqProperties
<1> HIDE DEF a, b
<1>2. ASSUME NEW i \in 1 .. Len(s) PROVE s[i] \in Listed(a) \cup Listed(b)
  <2>1. CASE i <= n
    BY <1>1, <2>1 DEF Listed
  <2>2. CASE i > n
    <3>1. i - n \in 1 .. Len(b) /\ n + (i - n) = i
      BY <1>1, <2>2
    <3>2. b[i - n] = s[i]
      BY <1>1, <3>1
    <3>3. QED
      BY <3>1, <3>2 DEF Listed
  <2>3. QED
    BY <2>1, <2>2
<1>3. QED
  BY <1>1, <1>2 DEF Listed, a, b

\* Removing the first of the role's list: nothing on disk is forgotten.
LEMMA RemoveSpace ==
    ASSUME SpaceInv, removing = <<>>, NEW s \in Seq(Int), NEW n \in 0 .. Len(s),
           Remove(s, n), UNCHANGED <<shard, role>>, OnDisk(role) \subseteq Listed(s),
           Len(s) - n <= limit
    PROVE  /\ saved' \in [AllRoles -> Seq(Int)] /\ removing' \in Seq(Int)
           /\ saved'[role] = SubSeq(s, n + 1, Len(s))
           /\ Len(saved'[role]) = Len(s) - n /\ Len(removing') = n
           /\ \A o \in AllRoles :
                /\ OnDisk(o)' \subseteq Listed(saved'[o]) \cup (IF o = role THEN Listed(removing') ELSE {})
                /\ Len(saved'[o]) <= limit
<1>1. /\ removing' = SubSeq(s, 1, n)
      /\ saved' = [saved EXCEPT ![role] = SubSeq(s, n + 1, Len(s))]
  BY DEF Remove
<1>2. /\ SubSeq(s, 1, n) \in Seq(Int) /\ SubSeq(s, n + 1, Len(s)) \in Seq(Int)
      /\ Len(SubSeq(s, 1, n)) = n /\ Len(SubSeq(s, n + 1, Len(s))) = Len(s) - n
      /\ Listed(s) \subseteq Listed(SubSeq(s, 1, n)) \cup Listed(SubSeq(s, n + 1, Len(s)))
  BY SplitListed
<1>3. saved \in [AllRoles -> Seq(Int)] /\ role \in AllRoles
  BY DEF SpaceInv
<1> DEFINE a == SubSeq(s, 1, n)
           b == SubSeq(s, n + 1, Len(s))
<1> HIDE DEF a, b
<1>4. removing' = a /\ saved' = [saved EXCEPT ![role] = b]
  BY <1>1 DEF a, b
<1>5. a \in Seq(Int) /\ b \in Seq(Int) /\ Len(a) = n /\ Len(b) = Len(s) - n /\ Listed(s) \subseteq Listed(a) \cup Listed(b)
  BY <1>2 DEF a, b
<1>6. saved' \in [AllRoles -> Seq(Int)] /\ removing' \in Seq(Int) /\ saved'[role] = b
  BY <1>3, <1>4, <1>5
<1>7. ASSUME NEW o \in AllRoles
      PROVE  /\ OnDisk(o)' \subseteq Listed(saved'[o]) \cup (IF o = role THEN Listed(removing') ELSE {})
             /\ Len(saved'[o]) <= limit
  <2>1. OnDisk(o)' = OnDisk(o)
    BY DEF OnDisk
  <2>2. CASE o = role
    BY <1>4, <1>5, <1>6, <2>1, <2>2
  <2>3. CASE o # role
    <3>1. saved'[o] = saved[o]
      BY <1>3, <1>4, <2>3
    <3>2. QED
      BY <2>1, <2>3, <3>1 DEF SpaceInv
  <2>4. QED
    BY <2>2, <2>3
<1>8. QED
  BY <1>4, <1>5, <1>6, <1>7 DEF b

\* A step that changes neither files nor lists.
LEMMA SpaceKept ==
    ASSUME SpaceInv, UNCHANGED <<shard, saved, removing, role, path>>,
           pc # "write", pc' # "write"
    PROVE  \A o \in AllRoles :
              /\ OnDisk(o)' \subseteq Listed(saved'[o])
                               \cup (IF o = role' THEN Listed(removing') ELSE {})
                               \cup (IF o = role' /\ pc' = "write" THEN {path'} ELSE {})
              /\ Len(saved'[o]) <= limit
<1> SUFFICES ASSUME NEW o \in AllRoles
             PROVE  /\ OnDisk(o) \subseteq Listed(saved[o])
                                           \cup (IF o = role THEN Listed(removing) ELSE {})
                    /\ Len(saved[o]) <= limit
  BY DEF OnDisk
<1>1. QED
  BY DEF SpaceInv

\* What the steps outside a save do not touch.
LEMMA SpaceElsewhere ==
    ASSUME SpaceInv, limit > 0,
           \/ Load \/ LoadFails \/ Train \/ NewBest \/ NoNewBest \/ Save \/ NoSave \/ NextStep
           \/ \E r \in Ranks : SaveData(r)
           \/ WriteBestMeta \/ OpenTracker \/ WriteTracker \/ RenameTracker \/ Barrier
    PROVE  SpaceInv'
<1> USE CheckpointAssumption
<1>1. UNCHANGED <<shard, saved, limit>> /\ removing' = removing
  BY DEF Load, LoadFails, Train, NewBest, NoNewBest, Save, NoSave, NextStep, SaveData, WriteBestMeta,
    OpenTracker, WriteTracker, RenameTracker, Barrier, BeginSave, config, disk, saving
<1>2. pc' \notin {"makeRoom", "write", "load"}
  BY DEF Load, LoadFails, Train, NewBest, NoNewBest, Save, NoSave, NextStep, SaveData, WriteBestMeta,
    OpenTracker, WriteTracker, RenameTracker, Barrier, BeginSave, SavesData
<1>3. /\ weights' \in Int /\ role' \in AllRoles /\ path' \in Int /\ globalStep' \in Int
      /\ tracker' \in Int /\ limit' \in Nat
  <2>0. limit \in Nat
    BY DEF SpaceInv
  <2>1. CASE Load
    <3>1. Latest = NoFile
      BY <2>1 DEF Load, SpaceInv, Latest
    <3>2. QED
      BY <2>1, <3>1 DEF Load, SpaceInv, config, disk, saving, NoFile
  <2>2. CASE Train \/ NextStep
    BY <2>2 DEF Train, NextStep, SpaceInv, config, disk, saving
  <2>3. CASE NewBest \/ Save
    BY <2>3 DEF NewBest, Save, BeginSave, SpaceInv, disk, config, AllRoles, Best
  <2>4. CASE OpenTracker \/ WriteTracker \/ RenameTracker
    BY <1>1, <2>0, <2>4 DEF OpenTracker, WriteTracker, RenameTracker, SpaceInv, saving, Torn
  <2>5. CASE \/ LoadFails \/ NoNewBest \/ NoSave \/ (\E r \in Ranks : SaveData(r)) \/ WriteBestMeta
             \/ Barrier
    BY <2>5 DEF LoadFails, NoNewBest, NoSave, SaveData, WriteBestMeta, Barrier, SpaceInv, config, disk, saving
  <2>6. QED
    BY <1>1, <2>0, <2>1, <2>2, <2>3, <2>4, <2>5
<1>4. CASE \E r \in Ranks : SaveData(r)
  <2>1. UNCHANGED <<shard, saved, removing, role, path, pc>> /\ pc # "write"
    BY <1>4 DEF SaveData, SavesData
  <2>2. QED
    BY <1>1, <1>2, <1>3, <2>1, SpaceKept DEF SpaceInv
<1>5. CASE ~ \E r \in Ranks : SaveData(r)
  <2>1. removing = <<>> /\ pc \notin {"write", "makeRoom", "rotate"} /\ pc' # "rotate"
    BY <1>5 DEF Load, LoadFails, Train, NewBest, NoNewBest, Save, NoSave, NextStep, WriteBestMeta,
      OpenTracker, WriteTracker, RenameTracker, Barrier, BeginSave, SpaceInv
  <2>2. \A o \in AllRoles : OnDisk(o)' \subseteq Listed(saved'[o]) /\ Len(saved'[o]) <= limit
    <3>1. Listed(removing) = {}
      BY <2>1 DEF Listed
    <3>2. QED
      BY <1>1, <2>1, <3>1 DEF SpaceInv, OnDisk
  <2>3. QED
    BY <1>1, <1>2, <1>3, <2>1, <2>2 DEF SpaceInv
<1>6. QED
  BY <1>4, <1>5

\* Making room.
LEMMA SpaceCapacity ==
    ASSUME SpaceInv, limit > 0, EnsureCapacity
    PROVE  SpaceInv'
<1> USE CheckpointAssumption
<1> DEFINE s == saved[role]
<1>1. s \in Seq(Int) /\ Len(s) \in Nat /\ Len(s) <= limit /\ removing = <<>>
      /\ OnDisk(role) \subseteq Listed(s)
  <2>1. removing = <<>> /\ pc # "write"
    BY DEF SpaceInv, EnsureCapacity
  <2>2. Listed(removing) = {}
    BY <2>1 DEF Listed
  <2>3. QED
    BY <2>1, <2>2 DEF SpaceInv
<1>2. /\ Surplus \in 0 .. Len(s) /\ Len(s) - Surplus <= limit
      /\ (path # Best /\ limit > 1) => Len(s) - Surplus < limit
  <2>1. Keep \in Nat /\ (path # Best => Keep = limit) /\ (path = Best => Keep = 1) /\ limit \in Nat
    BY DEF Keep, SpaceInv
  <2>2. Surplus = IF Keep > 1 /\ Len(s) >= Keep THEN Len(s) - Keep + 1 ELSE 0
    BY DEF Surplus
  <2>3. CASE Keep > 1 /\ Len(s) >= Keep
    <3>1. Keep = limit /\ Surplus = Len(s) - limit + 1
      BY <2>1, <2>2, <2>3
    <3>2. QED
      BY <1>1, <2>1, <2>3, <3>1
  <2>4. CASE ~ (Keep > 1 /\ Len(s) >= Keep)
    <3>1. Surplus = 0
      BY <2>2, <2>4
    <3>2. QED
      BY <1>1, <2>1, <2>4, <3>1
  <2>5. QED
    BY <2>3, <2>4
<1>3. /\ Remove(s, Surplus) /\ UNCHANGED <<shard, role, path, weights, globalStep, tracker, limit>>
      /\ pc' = "makeRoom" /\ pc # "write"
  BY DEF EnsureCapacity, disk, config
<1> HIDE DEF s
<1>4. /\ saved' \in [AllRoles -> Seq(Int)] /\ removing' \in Seq(Int)
      /\ Len(saved'[role]) = Len(s) - Surplus /\ Len(removing') = Surplus
      /\ \A o \in AllRoles :
           /\ OnDisk(o)' \subseteq Listed(saved'[o]) \cup (IF o = role THEN Listed(removing') ELSE {})
           /\ Len(saved'[o]) <= limit
  BY <1>1, <1>2, <1>3, RemoveSpace
<1>5. shard' \in [AllRoles -> [Folders -> [Ranks -> Int]]] /\ weights' \in Int /\ role' \in AllRoles
      /\ path' \in Int /\ globalStep' \in Int /\ tracker' \in Int
  BY <1>3 DEF SpaceInv
<1>6. Len(saved'[role']) + Len(removing') <= limit
  BY <1>1, <1>2, <1>3, <1>4
<1>7. QED
  BY <1>2, <1>3, <1>4, <1>5, <1>6 DEF SpaceInv

\* Registering the checkpoint that has been written.
LEMMA SpaceRegister ==
    ASSUME SpaceInv, limit > 0, Register
    PROVE  SpaceInv'
<1> USE CheckpointAssumption
<1> DEFINE s == Append(saved[role], path)
<1>1. /\ saved[role] \in Seq(Int) /\ path \in Int /\ Len(saved[role]) \in Nat
      /\ Len(saved[role]) <= limit /\ pc = "write"
  BY DEF SpaceInv, Register
<1>2. /\ s \in Seq(Int) /\ Len(s) = Len(saved[role]) + 1 /\ s[Len(s)] = path
      /\ \A i \in 1 .. Len(saved[role]) : s[i] = saved[role][i]
  BY <1>1
<1>3. removing = <<>> /\ OnDisk(role) \subseteq Listed(s)
  <2>1. removing = <<>>
    BY <1>1 DEF SpaceInv
  <2>2. OnDisk(role) \subseteq Listed(saved[role]) \cup {path}
    <3>1. Listed(removing) = {}
      BY <2>1 DEF Listed
    <3>2. QED
      BY <1>1, <3>1 DEF SpaceInv
  <2>3. QED
    BY <1>1, <1>2, <2>1, <2>2 DEF Listed
<1>4. /\ Remove(s, Excess(s)) /\ UNCHANGED <<shard, role, path, weights, globalStep, tracker, limit>>
      /\ pc' = "rotate"
  BY DEF Register, disk, config
<1> HIDE DEF s
<1>5. /\ Excess(s) \in 0 .. Len(s) /\ Len(s) - Excess(s) <= limit /\ Excess(s) <= limit
      /\ path # Best => Len(s) <= IF limit = 1 THEN 2 ELSE limit
      /\ path = Best => Len(s) - Excess(s) = 1
  <2>1. path # Best /\ limit > 1 => Len(saved[role]) < limit
    BY <1>1 DEF SpaceInv
  <2>2. /\ Keep \in Nat \ {0} /\ (path # Best => Keep = limit) /\ (path = Best => Keep = 1)
        /\ limit \in Nat \ {0}
    BY DEF Keep, SpaceInv
  <2>3. Excess(s) = IF Keep > 0 /\ Len(s) > Keep THEN Len(s) - Keep ELSE 0
    BY DEF Excess
  <2>4. Len(s) \in Nat /\ Len(s) >= 1 /\ Len(s) <= limit + 1
    BY <1>1, <1>2, <2>2
  <2> DEFINE n == Excess(s)
             l == Len(s)
             k == Len(saved[role])
  <2>5. /\ n = IF Keep > 0 /\ l > Keep THEN l - Keep ELSE 0
        /\ l = k + 1 /\ k \in Nat /\ k <= limit /\ limit \in Nat \ {0}
        /\ path # Best /\ limit > 1 => k < limit
    BY <1>1, <1>2, <2>1, <2>2, <2>3
  <2> HIDE DEF n, l, k
  <2>6. /\ n \in 0 .. l /\ l - n <= limit /\ n <= limit
        /\ path # Best => l <= IF limit = 1 THEN 2 ELSE limit
        /\ path = Best => l - n = 1
    <3>1. CASE path = Best
      BY <2>2, <2>5, <3>1
    <3>2. CASE path # Best
      BY <2>2, <2>5, <3>2
    <3>3. QED
      BY <3>1, <3>2
  <2>7. QED
    BY <2>6 DEF n, l
<1>7. /\ saved' \in [AllRoles -> Seq(Int)] /\ removing' \in Seq(Int)
      /\ saved'[role] = SubSeq(s, Excess(s) + 1, Len(s))
      /\ Len(saved'[role]) = Len(s) - Excess(s) /\ Len(removing') = Excess(s)
      /\ \A o \in AllRoles :
           /\ OnDisk(o)' \subseteq Listed(saved'[o]) \cup (IF o = role THEN Listed(removing') ELSE {})
           /\ Len(saved'[o]) <= limit
  BY <1>2, <1>3, <1>4, <1>5, RemoveSpace
<1>8. path = Best => saved'[role] = <<Best>>
  <2> SUFFICES ASSUME path = Best PROVE saved'[role] = <<Best>>
    OBVIOUS
  <2> DEFINE n == Excess(s)
             q == SubSeq(s, n + 1, Len(s))
  <2>1. n \in 0 .. Len(s) /\ Len(s) - n = 1 /\ Len(s) \in Nat
    BY <1>1, <1>2, <1>5
  <2>2. q \in Seq(Int) /\ Len(q) = Len(s) - n /\ \A i \in 1 .. Len(s) - n : q[i] = s[n + i]
    <3> HIDE DEF n
    <3>1. QED
      BY <1>2, <2>1, SubSeqProperties
  <2>3. saved'[role] = q
    BY <1>7
  <2> HIDE DEF n, q
  <2>4. n + 1 = Len(s)
    BY <2>1
  <2>5. Len(q) = 1 /\ q[1] = path
    <3>1. n \in Nat /\ 1 \in 1 .. Len(s) - n
      BY <2>1
    <3>2. Len(q) = 1 /\ q[1] = s[n + 1]
      BY <2>1, <2>2, <3>1
    <3>3. QED
      BY <1>2, <2>4, <3>2
  <2>6. q = <<Best>>
    <3>1. q \in Seq(Int) /\ Len(q) = 1 /\ q[1] = Best
      BY <2>2, <2>5
    <3>2. <<Best>> \in Seq(Int) /\ Len(<<Best>>) = 1 /\ <<Best>>[1] = Best
      BY DEF Best
    <3>3. QED
      BY <3>1, <3>2, SeqEqual
  <2>7. QED
    BY <2>3, <2>6
<1>9. shard' \in [AllRoles -> [Folders -> [Ranks -> Int]]] /\ weights' \in Int /\ role' \in AllRoles
      /\ path' \in Int /\ globalStep' \in Int /\ tracker' \in Int
  BY <1>4 DEF SpaceInv
<1>10. path # Best => Len(saved'[role]) + Len(removing') <= IF limit = 1 THEN 2 ELSE limit
  <2> DEFINE n == Excess(s)
  <2>1. n \in 0 .. Len(s) /\ Len(s) \in Nat /\ Len(saved'[role]) = Len(s) - n /\ Len(removing') = n
    BY <1>1, <1>2, <1>5, <1>7
  <2> HIDE DEF n
  <2>2. QED
    BY <1>5, <2>1
<1>11. QED
  BY <1>4, <1>5, <1>7, <1>8, <1>9, <1>10 DEF SpaceInv

\* A file less is on disk, or a folder that is empty leaves the list.
LEMMA SpaceRemoveFile ==
    ASSUME SpaceInv, limit > 0, RemoveFile
    PROVE  SpaceInv'
<1> USE CheckpointAssumption
<1> DEFINE f == Head(removing)
<1>1. /\ removing # <<>> /\ removing \in Seq(Int) /\ pc \in {"makeRoom", "rotate"}
      /\ UNCHANGED <<pc, tracker, limit, globalStep, weights, saved, role, path>>
  BY DEF RemoveFile, SpaceInv, config
<1>2. f \in Int /\ Tail(removing) \in Seq(Int) /\ Len(Tail(removing)) = Len(removing) - 1
      /\ Len(removing) \in Nat /\ Listed(removing) \subseteq {f} \cup Listed(Tail(removing))
  <2>1. /\ Head(removing) \in Int /\ Head(removing) = removing[1] /\ Len(removing) \in Nat \ {0}
        /\ Tail(removing) \in Seq(Int) /\ Len(Tail(removing)) = Len(removing) - 1
        /\ \A i \in 1 .. Len(removing) - 1 : Tail(removing)[i] = removing[i + 1]
    BY <1>1, HeadTailProperties
  <2>2. ASSUME NEW i \in 1 .. Len(removing) PROVE removing[i] \in {f} \cup Listed(Tail(removing))
    <3>1. CASE i = 1
      BY <2>1, <3>1
    <3>2. CASE i # 1
      <4>1. i - 1 \in 1 .. Len(removing) - 1 /\ (i - 1) + 1 = i
        BY <2>1, <3>2
      <4>2. Tail(removing)[i - 1] = removing[i]
        BY <2>1, <4>1
      <4>3. QED
        BY <2>1, <4>1, <4>2 DEF Listed
    <3>3. QED
      BY <3>1, <3>2
  <2>3. QED
    BY <2>1, <2>2 DEF Listed
<1>3. CASE ~ IsEmpty(f)
  <2>1. /\ removing' = removing
        /\ shard' \in [AllRoles -> [Folders -> [Ranks -> Int]]]
        /\ \A o \in AllRoles : OnDisk(o)' \subseteq OnDisk(o)
    <3>1. removing' = removing
      BY <1>3 DEF RemoveFile
    <3>2. CASE UNCHANGED shard
      BY <3>1, <3>2 DEF SpaceInv, OnDisk
    <3>3. CASE \E r \in Ranks : shard' = [shard EXCEPT ![role][f][r] = NoFile]
      <4>1. PICK r \in Ranks : shard' = [shard EXCEPT ![role][f][r] = NoFile]
        BY <3>3
      <4> HIDE DEF f
      <4>2. /\ shard' \in [AllRoles -> [Folders -> [Ranks -> Int]]]
            /\ \A o \in AllRoles, n \in Folders, q \in Ranks :
                  shard'[o][n][q] \in {shard[o][n][q], NoFile}
        <5>1. shard \in [AllRoles -> [Folders -> [Ranks -> Int]]] /\ NoFile \in Int
          BY DEF SpaceInv, NoFile
        <5>2. /\ \A o \in AllRoles, n \in Folders : (o # role \/ n # f) => shard'[o][n] = shard[o][n]
              /\ \A q \in Ranks : (f \in Folders /\ role \in AllRoles) =>
                    shard'[role][f][q] = IF q = r THEN NoFile ELSE shard[role][f][q]
          BY <4>1, <5>1
        <5>3. shard' \in [AllRoles -> [Folders -> [Ranks -> Int]]]
          <6> DEFINE row == [shard[role] EXCEPT ![f] = [@ EXCEPT ![r] = NoFile]]
          <6>1. shard' = [shard EXCEPT ![role] = row]
            BY <4>1
          <6>2. role \in AllRoles => row \in [Folders -> [Ranks -> Int]]
            BY <5>1
          <6> HIDE DEF row
          <6>3. QED
            BY <5>1, <6>1, <6>2
        <5>4. QED
          BY <5>1, <5>2, <5>3
      <4>3. \A o \in AllRoles : OnDisk(o)' \subseteq OnDisk(o)
        <5>1. SUFFICES ASSUME NEW o \in AllRoles, NEW n \in OnDisk(o)'
                       PROVE  n \in OnDisk(o)
          BY Zenon
        <5>2. n \in 1..TotalSteps /\ \E q \in Ranks : shard'[o][n][q] # NoFile
          BY <5>1, Zenon DEF OnDisk
        <5>3. PICK q \in Ranks : shard'[o][n][q] # NoFile
          BY <5>2, Zenon
        <5>4. n \in Folders
          BY <5>2, CheckpointAssumption DEF Folders, CheckpointAssumption
        <5>5. shard'[o][n][q] \in {shard[o][n][q], NoFile}
          BY <4>2, <5>1, <5>4, Zenon
        <5>6. shard[o][n][q] # NoFile
          BY <5>3, <5>5, Zenon
        <5>7. QED
          BY <5>2, <5>6, Zenon DEF OnDisk
      <4>4. QED
        BY <3>1, <4>2, <4>3
    <3>4. QED
      BY <1>3, <3>2, <3>3 DEF RemoveFile
  <2>2. QED
    BY <1>1, <2>1 DEF SpaceInv
<1>4. CASE IsEmpty(f)
  <2>1. removing' = Tail(removing) /\ UNCHANGED shard
    BY <1>4 DEF RemoveFile
  <2>2. f \notin OnDisk(role)
    BY <1>4 DEF IsEmpty, OnDisk
  <2> HIDE DEF f
  <2>3. \A o \in AllRoles :
           /\ OnDisk(o)' \subseteq Listed(saved'[o]) \cup (IF o = role THEN Listed(removing') ELSE {})
           /\ Len(saved'[o]) <= limit
    <3> SUFFICES ASSUME NEW o \in AllRoles
                 PROVE  /\ OnDisk(o) \subseteq Listed(saved[o])
                                                \cup (IF o = role THEN Listed(Tail(removing)) ELSE {})
                        /\ Len(saved[o]) <= limit
      BY <1>1, <2>1 DEF OnDisk
    <3>1. /\ OnDisk(o) \subseteq Listed(saved[o]) \cup (IF o = role THEN Listed(removing) ELSE {})
          /\ Len(saved[o]) <= limit
      BY <1>1 DEF SpaceInv
    <3>2. QED
      BY <1>2, <2>2, <3>1
  <2>4. removing' \in Seq(Int) /\ Len(removing') = Len(removing) - 1
    BY <1>2, <2>1
  <2>5. /\ \A o \in AllRoles : Len(saved'[o]) \in Nat
        /\ Len(saved'[role]) \in Nat /\ limit \in Nat
    BY <1>1 DEF SpaceInv
  <2>6. pc' = "makeRoom" => Len(saved'[role']) + Len(removing') <= limit
    BY <1>1, <1>2, <2>4, <2>5 DEF SpaceInv
  <2>7. (pc' = "rotate" /\ path' # Best) =>
            Len(saved'[role']) + Len(removing') <= IF limit = 1 THEN 2 ELSE limit
    BY <1>1, <1>2, <2>4, <2>5 DEF SpaceInv
  <2>8. (pc' = "rotate" /\ path' = Best) => saved'[role'] = <<Best>> /\ Len(removing') <= limit
    BY <1>1, <1>2, <2>4, <2>5 DEF SpaceInv
  <2>9. QED
    BY <1>1, <2>1, <2>3, <2>4, <2>6, <2>7, <2>8 DEF SpaceInv
<1>5. QED
  BY <1>3, <1>4

\* Room has been made; or the save has returned.
LEMMA SpaceBarriers ==
    ASSUME SpaceInv, limit > 0, MakeFolder \/ SaveReturns
    PROVE  SpaceInv'
<1>1. /\ removing = <<>> /\ pc \in {"makeRoom", "rotate"} /\ role' \in AllRoles
      /\ UNCHANGED <<shard, saved, removing, path, weights, globalStep, tracker, limit>>
      /\ pc' \in {"write", "bestMeta", "capacity", "data"}
      /\ pc' = "write" => pc = "makeRoom" /\ role' = role
  BY DEF MakeFolder, SaveReturns, disk, config, SpaceInv, AllRoles
<1>2. \A o \in AllRoles : OnDisk(o)' \subseteq Listed(saved'[o]) /\ Len(saved'[o]) <= limit
  <2>1. Listed(removing) = {}
    BY <1>1 DEF Listed
  <2>2. QED
    BY <1>1, <2>1 DEF SpaceInv, OnDisk
<1>3. QED
  BY <1>1, <1>2 DEF SpaceInv

\* A rank writes its file into the folder of the save.
LEMMA SpaceWrite ==
    ASSUME SpaceInv, limit > 0, NEW r \in Ranks, WriteShard(r)
    PROVE  SpaceInv'
<1>1. /\ pc = "write" /\ shard' = [shard EXCEPT ![role][path][r] = weights]
      /\ UNCHANGED <<pc, saved, removing, path, role, weights, globalStep, tracker, limit>>
  BY DEF WriteShard, config
<1>2. /\ shard' \in [AllRoles -> [Folders -> [Ranks -> Int]]]
      /\ \A o \in AllRoles : OnDisk(o)' \subseteq OnDisk(o) \cup (IF o = role THEN {path} ELSE {})
  <2>1. shard \in [AllRoles -> [Folders -> [Ranks -> Int]]] /\ weights \in Int
    BY DEF SpaceInv
  <2>2. /\ shard' \in [AllRoles -> [Folders -> [Ranks -> Int]]]
        /\ \A o \in AllRoles, n \in Folders, q \in Ranks :
              ~ (o = role /\ n = path) => shard'[o][n][q] = shard[o][n][q]
    BY <1>1, <2>1
  <2>3. ASSUME NEW o \in AllRoles, NEW n \in OnDisk(o)', ~ (o = role /\ n = path)
        PROVE  n \in OnDisk(o)
    <3>1. n \in 1 .. TotalSteps /\ n \in Folders
      BY CheckpointAssumption DEF OnDisk, Folders
    <3>2. PICK q \in Ranks : shard'[o][n][q] # NoFile
      BY DEF OnDisk
    <3>3. shard[o][n][q] # NoFile
      BY <2>2, <2>3, <3>1, <3>2
    <3>4. QED
      BY <3>1, <3>3 DEF OnDisk
  <2>4. QED
    BY <2>2, <2>3
<1>3. \A o \in AllRoles :
        /\ OnDisk(o)' \subseteq Listed(saved'[o])
                                 \cup (IF o = role THEN Listed(removing) ELSE {})
                                 \cup (IF o = role THEN {path} ELSE {})
        /\ Len(saved'[o]) <= limit
  BY <1>1, <1>2 DEF SpaceInv
<1>4. QED
  BY <1>1, <1>2, <1>3 DEF SpaceInv

LEMMA SpaceInit ==
    ASSUME Init, limit > 0
    PROVE  SpaceInv
<1>1. \A o \in AllRoles : OnDisk(o) = {}
  BY DEF Init, OnDisk, Blank, NoFile, AllRoles, Folders
<1>2. /\ shard \in [AllRoles -> [Folders -> [Ranks -> Int]]]
      /\ saved \in [AllRoles -> Seq(Int)] /\ \A o \in AllRoles : Len(saved[o]) = 0
  BY DEF Init, Blank, NoFile, AllRoles
<1>3. removing = <<>> /\ weights = 0 /\ globalStep = 0 /\ tracker = NoFile /\ path = Best
      /\ role = "actor" /\ pc = "load" /\ limit \in Nat
  BY CheckpointAssumption DEF Init
<1>4. QED
  BY <1>1, <1>2, <1>3, CheckpointAssumption DEF SpaceInv, AllRoles, NoFile, Best

LEMMA DiskStep ==
    ASSUME DiskInv, [Next]_vars
    PROVE  DiskInv'
<1>1. CASE Crash
  BY <1>1 DEF Crash, DiskInv
<1>2. CASE Terminated \/ UNCHANGED vars
  BY <1>2 DEF Terminated, vars, config, disk, saving, DiskInv, SpaceInv, OnDisk
<1>3. CASE Progress
  <2>1. crashes' = crashes /\ limit' = limit
    BY <1>3 DEF config, Progress, Load, LoadFails, Train, NewBest, NoNewBest, Save, NoSave, NextStep,
      EnsureCapacity, RemoveFile, MakeFolder, Register, SaveReturns, WriteShard, SaveData,
      WriteBestMeta, OpenTracker, WriteTracker, RenameTracker, Barrier
  <2>2. ASSUME limit > 0, SpaceInv PROVE SpaceInv'
    BY <1>3, <2>2, SpaceElsewhere, SpaceCapacity, SpaceRemoveFile, SpaceBarriers, SpaceRegister,
      SpaceWrite DEF Progress
  <2>3. QED
    BY <2>1, <2>2 DEF DiskInv
<1>4. QED
  BY <1>1, <1>2, <1>3 DEF Next

\* Rotation bounds the disk of a process that has not been restarted: for
\* every limit, number of ranks and of steps, in both trainers, with a critic
\* or not and with best checkpoints or not.
THEOREM RotationIsBounded ==
    Spec => []DiskBounded
<1>1. Init => DiskInv
  BY SpaceInit DEF Init, DiskInv
<1>2. DiskInv /\ [Next]_vars => DiskInv'
  BY DiskStep
<1>3. DiskInv => DiskBounded
  <2> SUFFICES ASSUME DiskInv, limit > 0, crashes = 0, NEW o \in Roles
               PROVE  Cardinality(OnDisk(o)) <= IF limit = 1 THEN 2 ELSE limit
    BY DEF DiskBounded
  <2>1. o \in AllRoles
    BY DEF Roles, AllRoles
  <2>2. QED
    BY <2>1, SpaceBounds DEF DiskInv
<1>4. QED
  BY <1>1, <1>2, <1>3, PTL DEF Spec
=============================================================================
