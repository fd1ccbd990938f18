---------------------------- MODULE TerrainOctree ---------------------------
(***************************************************************************)
(* terrain/planet, class TerrainOctree, for one body: chunks of an         *)
(* implicit octree are meshed on the worker pool and swapped in and out on *)
(* the main thread, and far out an impostor replaces them all.             *)
(*                                                                         *)
(* The main thread's frame is App::run's: the pool's completions run in    *)
(* drain(), then update() reads a new camera.  A worker step is a job's    *)
(* read of its node's `wanted` flag, or its end.  update() is one step: a  *)
(* worker only shares the flags with it, one flag per job, so a worker's   *)
(* step in its middle is the same step before or after it.                 *)
(***************************************************************************)
EXTENDS Integers, FiniteSets

CONSTANTS
  Node,         \* the node keys of the octree
  Above,        \* Above[k]: the nodes that contain k
  Surface,      \* may_have_surface accepts these
  Hollow,       \* meshing these yields no triangle
  Finest,       \* nodes at settings.finest_lod, which never split
  Coarse,       \* nodes at settings.map_lod or coarser
  Mesh,         \* mesh handles: a bound on the meshes alive at once
  None,         \* the null handle of a mesh and of an entity
  Copy,         \* a bound on the jobs of one node in the pool at once
  PoolSize,     \* the pool's threads
  Unhurried     \* the camera comes back from the impostor's distance only
                \* once the jobs left behind have all come back

\* The nodes above a node are a chain, and its top has no node above it:
\* LODs end at root_lod, so every set of nodes has one with none of it above.
ASSUME TreeAssumption ==
  /\ IsFiniteSet(Node)
  /\ Above \in [Node -> SUBSET Node]
  /\ \A k \in Node : k \notin Above[k]
  /\ \A k \in Node : \A n \in Above[k] : Above[n] \subseteq Above[k]
  /\ \A k \in Node : \A n, o \in Above[k] : n = o \/ n \in Above[o] \/ o \in Above[n]
  /\ \A S \in SUBSET Node : S # {} => \E k \in S : Above[k] \cap S = {}

ASSUME KindAssumption ==
  /\ Surface \subseteq Node /\ Hollow \subseteq Node
  /\ Finest \subseteq Node /\ Coarse \subseteq Node

ASSUME SettingsAssumption == PoolSize \in Nat /\ Unhurried \in BOOLEAN

ASSUME NoneAssumption == None \notin Mesh

VARIABLES
  frame,        \* where the main thread is: polling, draining
  camera,       \* what update() last read
  frozen,       \* set_frozen()
  present,      \* the keys of Body::nodes
  ready,        \* Node::ready
  displayed,    \* Node::displayed
  wanted,       \* Node::wanted
  mesh,         \* Node::mesh
  entity,       \* Node::entity, named by the mesh it was made to draw
  scene,        \* the chunk entities of the registry: what is drawn
  mapped,       \* those of them with a BodyMap
  live,         \* the AssetManager's meshes the octree added, not released
  jobs,         \* chunk jobs in the pool, up to the end of their completion
  inFlight,     \* Body::in_flight
  map,          \* the surface map's bake
  impostor,     \* Body::impostor_shown
  settled       \* Body::settled

nodeVars == <<present, ready, displayed, wanted, mesh, entity>>

vars == <<frame, camera, frozen, nodeVars, scene, mapped, live, jobs,
          inFlight, map, impostor, settled>>

-----------------------------------------------------------------------------
(* The camera and the leaves it selects. *)

\* select_leaves: the descent from the roots through the split nodes stops at
\* these; what may_have_surface rejects is skipped with everything inside it.
Leaves(split) ==
  {k \in Surface \ split : Above[k] \subseteq split \cap Surface}

\* `far`: past impostor_distance times the hysteresis; `mid`: past
\* impostor_distance, where no root splits (planet.cpp:600); `near`: inside.
Cameras ==
  [band : {"far", "mid"}, leaves : {Leaves({})}]
    \cup [band : {"near"}, leaves : {Leaves(s) : s \in SUBSET (Node \ Finest)}]

-----------------------------------------------------------------------------
(* Jobs. A job shares its node's `wanted` flag: it is `current` while the   *)
(* node it was submitted for is still in Body::nodes. An erased node's flag *)
(* is never written again, and every erased node was unwanted.              *)

JobAt == {"queued", "running", "finished", "drained"}

JobRecord ==
  [key : Node, copy : Copy, current : BOOLEAN, at : JobAt, skipped : BOOLEAN]

FreeCopies(js, k) == {c \in Copy : \A j \in js : j.key # k \/ j.copy # c}

\* submit(): the bound on copies is a guard of the actions that call it.
NewJob(js, k) ==
  [key |-> k, copy |-> CHOOSE c \in FreeCopies(js, k) : TRUE, current |-> TRUE,
   at |-> "queued", skipped |-> FALSE]

Submitted(js, keys) == js \cup {NewJob(js, k) : k \in keys}

\* Erasing nodes leaves their jobs with flags nobody writes.
Disowned(js, keys) ==
  {[j EXCEPT !.current = j.current /\ j.key \notin keys] : j \in js}

Flag(j) == j.current /\ j.key \in wanted

-----------------------------------------------------------------------------

Init ==
  /\ frame = "poll"
  /\ camera \in Cameras
  /\ frozen = FALSE
  /\ present = {}
  /\ ready = {}
  /\ displayed = {}
  /\ wanted = {}
  /\ mesh = [k \in Node |-> None]
  /\ entity = [k \in Node |-> None]
  /\ scene = {}
  /\ mapped = {}
  /\ live = {}
  /\ jobs = {}
  /\ inFlight = 0
  /\ map = "unmeasured"
  /\ impostor = FALSE
  /\ settled = FALSE

-----------------------------------------------------------------------------
(* The workers. *)

\* The job reads the flag before it does anything else.
StartJob(j) ==
  /\ j.at = "queued"
  /\ Cardinality({i \in jobs : i.at = "running"}) < PoolSize
  /\ jobs' = (jobs \ {j}) \cup {[j EXCEPT !.at = "running", !.skipped = ~Flag(j)]}
  /\ UNCHANGED <<frame, camera, frozen, nodeVars, scene, mapped, live,
                 inFlight, map, impostor, settled>>

FinishJob(j) ==
  /\ j.at = "running"
  /\ jobs' = (jobs \ {j}) \cup {[j EXCEPT !.at = "finished"]}
  /\ UNCHANGED <<frame, camera, frozen, nodeVars, scene, mapped, live,
                 inFlight, map, impostor, settled>>

-----------------------------------------------------------------------------
(* The main thread's poll and drain. *)

\* F2, or a scenario's freeze and thaw steps.
ToggleFrozen ==
  /\ frame = "poll"
  /\ frozen' = ~frozen
  /\ UNCHANGED <<frame, camera, nodeVars, scene, mapped, live, jobs,
                 inFlight, map, impostor, settled>>

\* WorkerPool::drain takes what has finished.
Drain ==
  /\ frame = "poll"
  /\ frame' = "drain"
  /\ jobs' = {IF j.at = "finished" THEN [j EXCEPT !.at = "drained"] ELSE j : j \in jobs}
  /\ UNCHANGED <<camera, frozen, nodeVars, scene, mapped, live, inFlight,
                 map, impostor, settled>>

\* Mutant of CompleteGone: in_flight is left alone.
MutantCompleteGoneUncounted(j) ==
  /\ frame = "drain" /\ j.at = "drained"
  /\ j.key \notin present
  /\ jobs' = jobs \ {j}
  /\ UNCHANGED <<frame, camera, frozen, nodeVars, scene, mapped, live, inFlight,
                 map, impostor, settled>>

\* complete(), for a node that is gone: only the count goes down.
CompleteGone(j) ==
  /\ frame = "drain" /\ j.at = "drained"
  /\ j.key \notin present
  /\ jobs' = jobs \ {j}
  /\ inFlight' = inFlight - 1
  /\ UNCHANGED <<frame, camera, frozen, nodeVars, scene, mapped, live,
                 map, impostor, settled>>

\* Mutant of CompleteAgain: the skipped job is not submitted again.
MutantCompleteDropped(j) ==
  /\ frame = "drain" /\ j.at = "drained"
  /\ j.key \in present \cap wanted
  /\ j.skipped
  /\ jobs' = jobs \ {j}
  /\ inFlight' = inFlight - 1
  /\ UNCHANGED <<frame, camera, frozen, nodeVars, scene, mapped, live, map,
                 impostor, settled>>

\* complete(), skipped, and wanted again since: back in the queue.
CompleteAgain(j) ==
  /\ frame = "drain" /\ j.at = "drained"
  /\ j.key \in present \cap wanted
  /\ j.skipped
  /\ FreeCopies(jobs \ {j}, j.key) # {}
  /\ jobs' = Submitted(jobs \ {j}, {j.key})
  /\ UNCHANGED <<frame, camera, frozen, nodeVars, scene, mapped, live,
                 inFlight, map, impostor, settled>>

\* complete(), not wanted, skipped or meshed: the node is erased, as it is.
CompleteUnwanted(j) ==
  /\ frame = "drain" /\ j.at = "drained"
  /\ j.key \in present \ wanted
  /\ present' = present \ {j.key}
  /\ ready' = ready \ {j.key}
  /\ displayed' = displayed \ {j.key}
  /\ mesh' = [mesh EXCEPT ![j.key] = None]
  /\ entity' = [entity EXCEPT ![j.key] = None]
  /\ jobs' = Disowned(jobs \ {j}, {j.key})
  /\ inFlight' = inFlight - 1
  /\ UNCHANGED <<frame, camera, frozen, wanted, scene, mapped, live, map,
                 impostor, settled>>

\* complete(), meshed and wanted: add_mesh, unless there was no surface.
CompleteMeshed(j) ==
  /\ frame = "drain" /\ j.at = "drained"
  /\ j.key \in present \cap wanted
  /\ ~j.skipped
  /\ \/ /\ j.key \in Hollow
        /\ UNCHANGED <<mesh, live>>
     \/ /\ j.key \notin Hollow
        /\ \E m \in Mesh \ live :
             /\ mesh' = [mesh EXCEPT ![j.key] = m]
             /\ live' = live \cup {m}
  /\ ready' = ready \cup {j.key}
  /\ jobs' = jobs \ {j}
  /\ inFlight' = inFlight - 1
  /\ UNCHANGED <<frame, camera, frozen, present, displayed, wanted, entity,
                 scene, mapped, map, impostor, settled>>

\* The ground sets' looks were measured on the pool (planet.cpp:1013).
LookMeasured ==
  /\ frame = "drain"
  /\ map = "measuring"
  /\ map' = "measured"
  /\ UNCHANGED <<frame, camera, frozen, nodeVars, scene, mapped, live,
                 jobs, inFlight, impostor, settled>>

\* Mutant of MapBaked: the chunks on screen are not given the map.
MutantMapBakedSilently ==
  /\ frame = "drain"
  /\ map = "baking"
  /\ map' = "baked"
  /\ UNCHANGED <<frame, camera, frozen, nodeVars, scene, mapped, live, jobs, inFlight,
                 impostor, settled>>

\* finish_map(): the last face of the bake has landed, and give_map() hands
\* it to the coarse chunks on screen.
MapBaked ==
  /\ frame = "drain"
  /\ map = "baking"
  /\ map' = "baked"
  /\ mapped' = {e \in scene : e.key \in Coarse /\ entity[e.key] = e.mesh}
  /\ UNCHANGED <<frame, camera, frozen, nodeVars, scene, live, jobs,
                 inFlight, impostor, settled>>

-----------------------------------------------------------------------------
(* update(). *)

\* The first update() asks for the looks; one after they land starts the bake.
MapNext ==
  map' = CASE map = "unmeasured" -> "measuring"
           [] map = "measured"   -> "baking"
           [] OTHER              -> map

\* Every completion of this frame has run, and the camera is where it is now.
ReadsCamera(c) ==
  /\ frame = "drain"
  /\ \A j \in jobs : j.at # "drained"
  /\ frame' = "poll"
  /\ ~frozen
  /\ c \in Cameras
  /\ Unhurried /\ impostor /\ jobs # {} /\ camera.band = "far" => c.band = "far"
  /\ camera' = c
  /\ MapNext
  /\ UNCHANGED frozen

\* Frozen, update() returns before it looks at anything.
UpdateFrozen ==
  /\ frame = "drain"
  /\ \A j \in jobs : j.at # "drained"
  /\ frozen
  /\ frame' = "poll"
  /\ UNCHANGED <<camera, frozen, nodeVars, scene, mapped, live, jobs, inFlight,
                 map, impostor, settled>>

\* hide() on some nodes: their entities go, their meshes are released.
EntitiesOf(keys) == {e \in scene : e.key \in keys /\ e.mesh = entity[e.key]}

MeshesOf(keys) == {mesh[k] : k \in keys} \ {None}

\* The impostor alone, put up if it was not: every node hidden and forgotten.
UpdateFar(c) ==
  /\ ReadsCamera(c)
  /\ c.band = "far"
  /\ impostor \/ map = "baked"
  /\ impostor' = TRUE
  /\ scene' = scene \ EntitiesOf(present)
  /\ mapped' = mapped \ EntitiesOf(present)
  /\ live' = live \ MeshesOf(present)
  /\ jobs' = Disowned(jobs, present)
  /\ present' = {}
  /\ ready' = {}
  /\ displayed' = {}
  /\ wanted' = {}
  /\ mesh' = [k \in Node |-> None]
  /\ entity' = [k \in Node |-> None]
  /\ settled' = (inFlight = 0)
  /\ UNCHANGED inFlight

\* What every other update() begins with: the flags follow the leaves, and the
\* leaves that are new are submitted.
NewLeaves(c) == c.leaves \ present

\* Mutant of Selects: submitting does not count.
MutantSelectsUncounted(c) ==
  /\ ReadsCamera(c)
  /\ ~(c.band = "far" /\ (impostor \/ map = "baked"))
  /\ \A k \in NewLeaves(c) : FreeCopies(jobs, k) # {}
  /\ wanted' = c.leaves
  /\ inFlight' = inFlight

Selects(c) ==
  /\ ReadsCamera(c)
  /\ ~(c.band = "far" /\ (impostor \/ map = "baked"))
  /\ \A k \in NewLeaves(c) : FreeCopies(jobs, k) # {}
  /\ wanted' = c.leaves
  /\ inFlight' = inFlight + Cardinality(NewLeaves(c))

\* Mutant of Forget: the meshes are not released.
MutantForgetUnreleased(leaves, keys) ==
  /\ present' = (present \cup leaves) \ keys
  /\ ready' = ready \ keys
  /\ mesh' = [k \in Node |-> IF k \in keys THEN None ELSE mesh[k]]
  /\ live' = live
  /\ jobs' = Disowned(Submitted(jobs, leaves \ present), keys)

Forget(leaves, keys) ==
  /\ present' = (present \cup leaves) \ keys
  /\ ready' = ready \ keys
  /\ mesh' = [k \in Node |-> IF k \in keys THEN None ELSE mesh[k]]
  /\ live' = live \ MeshesOf(keys)
  /\ jobs' = Disowned(Submitted(jobs, leaves \ present), keys)

AllReady(c) == c.leaves \subseteq ready

\* Coming back in, the impostor stays until the camera is inside `leave` and
\* every leaf is ready; what was meshed for leaves no longer wanted goes.
UpdateHold(c) ==
  /\ Selects(c)
  /\ impostor
  /\ c.band # "near" \/ ~AllReady(c)
  /\ LET dropped == ready \ c.leaves
     IN  /\ Forget(c.leaves, dropped)
         /\ displayed' = displayed \ dropped
         /\ entity' = [k \in Node |-> IF k \in dropped THEN None ELSE entity[k]]
         /\ scene' = scene \ EntitiesOf(dropped)
         /\ mapped' = mapped \ EntitiesOf(dropped)
  /\ settled' = (inFlight' = 0 /\ AllReady(c))
  /\ UNCHANGED impostor

\* displayed_ancestor: the nearest node above on screen.
NearestShown(k) ==
  {a \in Above[k] \cap displayed :
     \A b \in Above[k] \cap displayed : a \notin Above[b]}

\* Mutant of Covered: splitting, a node goes at once.
MutantCoveredEagerly(d, leaves) == Above[d] \cap leaves \subseteq ready

\* A node no longer wanted may go: merging, the leaf above it is ready;
\* splitting, no leaf inside it is still being meshed.
Covered(d, leaves) ==
  \/ Above[d] \cap leaves # {} /\ Above[d] \cap leaves \subseteq ready
  \/ Above[d] \cap leaves = {} /\ \A l \in leaves \ ready : d \notin NearestShown(l)

Retired(leaves) == {d \in displayed \ leaves : Covered(d, leaves)}

\* Mutant of Appearing: ready leaves, covered or not.
MutantAppearingCovered(leaves) == (leaves \cap ready) \ displayed

\* Ready leaves nothing coarser still covers.
Appearing(leaves) ==
  {l \in (leaves \cap ready) \ displayed :
     Above[l] \cap (displayed \ Retired(leaves)) = {}}

\* Mutant of Surplus: shown or not.
MutantSurplusShown(leaves) == ready \ leaves

\* Meshed, never shown, and no longer wanted.
Surplus(leaves) == (ready \ leaves) \ displayed

EntityFor(k) == [key |-> k, mesh |-> mesh[k]]

\* The swap: what is covered goes and what replaces it appears in one frame.
\* The impostor, if it was still up, goes first: every leaf is ready.
UpdateSwap(c) ==
  /\ Selects(c)
  /\ impostor => c.band = "near" /\ AllReady(c)
  /\ impostor' = FALSE
  /\ LET leaves  == c.leaves
         retired == Retired(leaves)
         appear  == Appearing(leaves)
         drawn   == {k \in appear : mesh[k] # None}
         surplus == Surplus(leaves)
         kept    == scene \ EntitiesOf(retired \cup surplus)
     IN  /\ Forget(leaves, retired \cup surplus)
         /\ displayed' = (displayed \ retired) \cup appear
         /\ entity' = [k \in Node |->
                         IF k \in drawn THEN mesh[k]
                         ELSE IF k \in retired \cup surplus THEN None
                         ELSE entity[k]]
         /\ scene' = kept \cup {EntityFor(k) : k \in drawn}
         /\ mapped' = (mapped \cap kept)
              \cup {EntityFor(k) : k \in {d \in drawn : map = "baked" /\ d \in Coarse}}
         /\ settled' = (/\ inFlight' = 0
                        /\ leaves \subseteq displayed'
                        /\ present' \subseteq leaves)

Update == \E c \in Cameras : UpdateFar(c) \/ UpdateHold(c) \/ UpdateSwap(c)

-----------------------------------------------------------------------------

Complete ==
  \E j \in jobs : CompleteGone(j) \/ CompleteAgain(j) \/ CompleteUnwanted(j)
                    \/ CompleteMeshed(j)

Next ==
  \/ \E j \in jobs : StartJob(j) \/ FinishJob(j)
  \/ ToggleFrozen
  \/ Drain
  \/ Complete
  \/ LookMeasured
  \/ MapBaked
  \/ UpdateFrozen
  \/ Update

Spec == Init /\ [][Next]_vars

\* The pool's threads are scheduled and jobs end; the frame loop goes round,
\* and a completion the pool holds is run by the next drain.
Fairness ==
  /\ WF_vars(\E j \in jobs : StartJob(j))
  /\ WF_vars(\E j \in jobs : FinishJob(j))
  /\ WF_vars(Drain)
  /\ WF_vars(Complete)
  /\ WF_vars(Update)
  /\ WF_vars(UpdateFrozen)
  /\ SF_vars(LookMeasured)
  /\ SF_vars(MapBaked)

FairSpec == Spec /\ Fairness

-----------------------------------------------------------------------------

TypeOK ==
  /\ frame \in {"poll", "drain"}
  /\ camera \in Cameras
  /\ frozen \in BOOLEAN
  /\ present \subseteq Node
  /\ ready \subseteq present
  /\ displayed \subseteq ready
  /\ wanted \subseteq Node
  /\ mesh \in [Node -> Mesh \cup {None}]
  /\ entity \in [Node -> Mesh \cup {None}]
  /\ scene \subseteq [key : Node, mesh : Mesh]
  /\ mapped \subseteq scene
  /\ live \subseteq Mesh
  /\ jobs \subseteq JobRecord
  /\ inFlight \in Int
  /\ map \in {"unmeasured", "measuring", "measured", "baking", "baked"}
  /\ impostor \in BOOLEAN
  /\ settled \in BOOLEAN

\* "Nodes on screen never overlap" (docs/terrain.md:145), in any frame of any
\* flight, while meshing lags behind a camera that splits, merges and turns
\* back, and whatever order the completions come in.
NoOverlap == \A a, b \in displayed : a \notin Above[b]

\* "The impostor, or chunks, and never both" (octree_test.cpp:250), of the
\* registry's entities as well as of the nodes.
ImpostorOrChunks == impostor => displayed = {} /\ scene = {}

\* What is drawn is what the octree says is on screen: each chunk entity
\* belongs to a displayed node and draws the mesh that node holds, and each
\* displayed node with a mesh has its entity.
SceneIsDisplayed == scene = {EntityFor(k) : k \in {d \in displayed : mesh[d] # None}}

\* Both: the scene is the octree's, chunk for chunk, or the impostor alone.
SceneIsExact == SceneIsDisplayed /\ ImpostorOrChunks

\* A node off screen "goes in the same frame the replacements appear"
\* (planet.hpp:175): nothing of it is left in the scene.
HiddenNodesGo == \A e \in scene : e.key \in displayed

\* "A hidden node's mesh is released" (docs/terrain.md:147): every mesh the
\* octree added and did not release is held by a node, by one node only.
MeshesHeld ==
  /\ live = MeshesOf(present)
  /\ \A a, b \in present : mesh[a] = mesh[b] /\ mesh[a] # None => a = b

\* Whatever draws a mesh stops in the frame it is released
\* (asset_manager.hpp:142): no chunk entity draws a mesh that is gone.
DrawnMeshesLive == \A e \in scene : e.mesh \in live

\* Both: meshes are released when the octree lets go of them, and not before.
MeshesExact == MeshesHeld /\ DrawnMeshesLive

\* A node still to be meshed has exactly one job that will complete it, and a
\* meshed node has none: no node waits for a job that was skipped, dropped or
\* belongs to an earlier node of the same key.
OneJobEach ==
  \A k \in Node :
    Cardinality({j \in jobs : j.key = k /\ j.current}) =
      (IF k \in present \ ready THEN 1 ELSE 0)

\* in_flight, which settling waits for, is the number of jobs whose completion
\* has not run, those of erased nodes included.
InFlightExact == inFlight = Cardinality(jobs)

\* The octree's books: all of its type, one job for each node that waits for
\* one, and in_flight the number of them.
JobsExact == TypeOK /\ OneJobEach /\ InFlightExact

\* Coarse chunks are shaded from the surface map from the moment it is baked,
\* those on screen before (finish_map) and those shown after (give_map).
CoarseMapped ==
  mapped = {e \in scene : e.key \in Coarse /\ map = "baked"}

\* idle() says "it shows exactly the leaves the camera wants, all meshed, or
\* its impostor" (planet.hpp:216): once settled, nothing that arrives later
\* makes it untrue.
SettledIsExact ==
  settled =>
    /\ jobs = {}
    /\ present \subseteq ready
    /\ impostor \/ displayed = present
    /\ present = camera.leaves \/ (impostor /\ present = {})

\* The finest chunks of surface, each of which some node on screen covers, or
\* the impostor does.
Ground == {p \in Finest \cap Surface : Above[p] \subseteq Surface}

Shown(p) == impostor \/ (Above[p] \cup {p}) \cap displayed # {}

\* "Swaps leave no holes" (planet.hpp:174): ground that is on screen is on
\* screen in the next frame too, through splits, merges, the impostor taking
\* over and the chunks taking back.
NoHoles == [][\A p \in Ground : Shown(p) => Shown(p)']_vars

Idle == settled /\ map = "baked"

\* A camera that comes to rest over a thawed octree gets what it wants, and
\* keeps it: no job is forgotten, skipped for ever or fought over.
ComesToIdle ==
  <>[][camera' = camera]_vars /\ <>[]~frozen => <>[]Idle

=============================================================================
