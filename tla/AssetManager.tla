---------------------------- MODULE AssetManager ----------------------------
(***************************************************************************)
(* assets/asset_manager: textures and models asked for by name, decoded by *)
(* the asset worker, applied on the main thread and taken by the renderer. *)
(* A model's Finish asks for its textures.  A key here stands for the      *)
(* string that a texture or a model is known by, and for its handle.       *)
(***************************************************************************)
EXTENDS Gltf

CONSTANTS
  Model,        \* the keys of model files
  Image,        \* the keys of images, each with its encoding
  Baked,        \* textures made in code
  Set,          \* ambientCG sets
  Maps,         \* Maps[s]: the images of a set
  Files,        \* what may be on the disk: functions from Model to glTF files
  MaxJobs       \* a bound on the jobs given to the worker

\* One more than there are keys: there is room to decode one twice.
ASSUME RoomAssumption ==
  IsFiniteSet(Model \cup Image) /\ MaxJobs = Cardinality(Model \cup Image) + 1

\* A texture made in code has no key, and what sets and files name are images.
ASSUME KeysAssumption ==
  /\ (Model \cup Image) \cap Baked = {}
  /\ Maps \in [Set -> Seq(Image)]
  /\ \A files \in Files : DOMAIN files = Model /\
       \A m \in Model : files[m].materials \in Seq(Seq(Image))

\* Files that are not as glTF has them are for the parser.
ASSUME FilesAssumption ==
  \A files \in Files : \A m \in Model : NamesWhatItHas(files[m]) /\ IsForest(files[m])

VARIABLES
  queued, finished, outstanding, thread, hand,            \* AssetWorker's
  stopRequested, main, unnotified, submitted, taken,
  file,         \* what is on the disk
  jobs,         \* what each job submitted decodes
  decoded,      \* the jobs that succeeded
  state,        \* AssetState of the keys known, or absent
  sets,         \* ambientcg_
  ready,        \* ready_textures_, and the models among ready_meshes_
  asking,       \* the loads that the call in progress has still to ask for
  batch         \* the Finishes that update() has still to run

workerVars == <<queued, finished, outstanding, thread, hand, stopRequested, main,
                unnotified, submitted, taken>>
managerVars == <<jobs, state, sets, ready, asking, batch>>
assetVars == <<workerVars, managerVars, file, decoded>>

Worker == INSTANCE AssetWorker

AssetsInit ==
  /\ Worker!Init
  /\ file \in Files
  /\ jobs = <<>> /\ decoded = {}
  /\ state = [k \in Model \cup Image \cup Baked |-> "absent"]
  /\ sets = {} /\ ready = <<>> /\ asking = <<>> /\ batch = <<>>

\* No call of the manager's is in progress.
Free == main = "loop" /\ asking = <<>> /\ ~unnotified

\* What load_gltf makes of each file.
Loaded == [f \in UNION {Range(files) : files \in Files} |-> LoadGltf(f)]

\* ModelAsset::model, once ready.
model(m) == Loaded[file[m]]

-----------------------------------------------------------------------------
(* Asking *)

MutantFound(k) == state[k] \in {"loading", "ready"} /\ k \in Model

\* texture_keys_ or model_paths_ has it: asked for before, whatever came of it.
Found(k) == state[k] # "absent"

AskedBefore ==
  /\ asking # <<>> /\ Found(Head(asking))
  /\ asking' = Tail(asking)
  /\ UNCHANGED <<workerVars, jobs, state, sets, ready, batch, file, decoded>>

\* load_texture and load_model: the key is known before the job is given.
LoadNew ==
  /\ asking # <<>> /\ ~Found(Head(asking))
  /\ Worker!Submit
  /\ jobs' = Append(jobs, Head(asking))
  /\ state' = [state EXCEPT ![Head(asking)] = "loading"]
  /\ asking' = Tail(asking)
  /\ UNCHANGED <<sets, ready, batch, file, decoded>>

Notify == Worker!NotifyOne /\ UNCHANGED <<managerVars, file, decoded>>

\* load_ambientcg for each of these sets, in this order.
NewMaps(names) ==
  FlattenSeq([i \in DOMAIN names |-> IF names[i] \in sets THEN <<>> ELSE Maps[names[i]]])

LoadAmbientCg(names) ==
  /\ Free
  /\ asking' = NewMaps(names)
  /\ sets' = sets \cup Range(names)
  /\ UNCHANGED <<workerVars, jobs, state, ready, batch, file, decoded>>

LoadModel(m) ==
  /\ Free
  /\ asking' = <<m>>
  /\ UNCHANGED <<workerVars, jobs, state, sets, ready, batch, file, decoded>>

\* add_texture and add_material: no job, no key.
AddTextures(baked) ==
  /\ Free
  /\ state' = [k \in DOMAIN state |-> IF k \in Range(baked) THEN "ready" ELSE state[k]]
  /\ ready' = ready \o baked
  /\ UNCHANGED <<workerVars, jobs, sets, asking, batch, file, decoded>>

-----------------------------------------------------------------------------
(* The worker's jobs *)

\* A file that does not decode, or throws, is a Finish that says so.
Decodes ==
  /\ Worker!Finish
  /\ \/ decoded' = decoded
     \/ /\ jobs[Head(hand)] \in Model => model(jobs[Head(hand)]).ok
        /\ decoded' = decoded \cup {Head(hand)}
  /\ UNCHANGED <<managerVars, file>>

WorkerGoesOn ==
  /\ Worker!Take \/ Worker!Wait \/ Worker!Exit
  /\ UNCHANGED <<managerVars, file, decoded>>

SpuriousWake == Worker!SpuriousWake /\ UNCHANGED <<managerVars, file, decoded>>

-----------------------------------------------------------------------------
(* update() *)

\* take(); there may be nothing.
TakeFinishes ==
  /\ Free /\ batch = <<>>
  /\ IF finished = <<>> THEN UNCHANGED <<workerVars, batch>>
     ELSE Worker!TakeFinished /\ batch' = finished
  /\ UNCHANGED <<jobs, state, sets, ready, asking, file, decoded>>

\* register_gltf: the images its materials name, in order and with repeats.
TexturesOf(f) == FlattenSeq(f.materials)

\* One Finish, of a texture or of a model.
RunFinish ==
  LET j == Head(batch)
      k == jobs[j]
  IN
  /\ Free /\ batch # <<>>
  /\ batch' = Tail(batch)
  /\ IF j \in decoded
     THEN /\ state' = [state EXCEPT ![k] = "ready"]
          /\ ready' = Append(ready, k)
          /\ asking' = IF k \in Model THEN TexturesOf(file[k]) ELSE asking
     ELSE /\ state' = [state EXCEPT ![k] = "failed"]
          /\ UNCHANGED <<ready, asking>>
  /\ UNCHANGED <<workerVars, jobs, sets, file, decoded>>

\* take_ready_meshes and take_ready_textures.
TakeReady ==
  /\ Free
  /\ ready' = <<>>
  /\ UNCHANGED <<workerVars, jobs, state, sets, asking, batch, file, decoded>>

MutantIdle == queued = <<>> /\ hand = <<>> /\ ready = <<>>

\* Nothing loading, and nothing ready that was not taken.
Idle == outstanding = 0 /\ ready = <<>>

AssetsType ==
  /\ Worker!TypeOK
  /\ file \in Files
  /\ jobs \in Seq(Model \cup Image) /\ Len(jobs) = submitted
  /\ decoded \subseteq 1 .. submitted
  /\ state \in [Model \cup Image \cup Baked -> {"absent", "loading", "ready", "failed"}]
  /\ sets \subseteq Set
  /\ ready \in Seq(Model \cup Image \cup Baked)
  /\ asking \in Seq(Model \cup Image)
  /\ batch \in Seq(1 .. submitted)

=============================================================================
