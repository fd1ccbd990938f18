# Encke, in TLA+

Encke is a Vulkan planetary renderer in C++: planets of implicit terrain drawn
from orbit to the ground, meshed on the fly by a pool of worker threads, with
rigid bodies and ships on top.  Most of its lines are floating-point geometry,
shaders and Vulkan calls.  What can go wrong without any test noticing is
elsewhere: threads that hand jobs to each other, a main loop that reads their
results late, a GPU that runs two frames behind, and resources that must not be
freed or reused under any of them.  These modules are about that part.

Paths below are relative to the repository's own `src/`, `docs/` and `tests/`.

## The system and its parts

| part | state | operations | talks to |
|---|---|---|---|
| `platform/worker_pool` | queue with live priorities, finished completions, a count, threads | submit, drain, stop; threads take the most urgent job | octree, physics and bakes submit; the main loop drains |
| `assets/worker` | queue, finished list, a count, one thread | start, submit, take, stop | `AssetManager::update` takes in order |
| `terrain/planet` (`TerrainOctree`) | nodes by key with mesh, entity and a shared `wanted` flag; jobs in flight; impostor; surface map; `settled` | `update(camera)`, the completions of its jobs, the bake's completion | worker pool, `AssetManager` meshes, entities of the scene |
| `assets/asset_manager` | slots with generations, ready and released queues | add, release, load, take | octree and scene add; `Renderer` takes |
| `render/renderer` | mesh and texture slots, frames in flight, `frame_` | `draw`: wait, acquire, take, stage, release, record, submit, present | asset manager, geometry pool, staging, GPU |
| `render/geometry_pool` | ids and ranges, uploads, copies, retired lists per frame slot | add, stage, record, release | staging memory, GPU |
| `vulkan/staging` | memory per frame slot, rewound each frame | begin, allocate | GPU copies read it |
| `physics/physics_world` | collision chunks, held and moving bodies, ship spaces, character | update: build ground, step, evict; transfer between spaces | worker pool, Jolt |
| `app`, `scenario` | the loop, a scenario's step and its frame count | poll, update everything, draw, settle, capture | everything |
| `vulkan/swapchain`, `vulkan/bindless`, `ui/imgui_vulkan` | images, descriptor slots, retire lists | recreate, add, free | renderer, app |
| `render/scene`, `render/gltf` | entities, models waiting to spawn | spawn, update | asset manager |
| `platform`, `world` | window, devices, events, transforms | poll, propagate | app |
| terrain fields, meshing, noise, cameras, shadows | none to speak of | pure functions | jobs, renderer |

What is hard about them, and what makes each correct:

* **Worker pool** - condition variable, unlock before notify, priorities other
  threads write, jobs that throw, stop while running.  No job is lost, run
  twice or stranded; the count is exact; stop leaves nothing.
* **Asset worker** - one thread, but results must come back in order, also when
  a job fails.
* **Octree** - results of a camera that has since moved on; nodes erased while
  their jobs run; swaps across several levels; the impostor taking over in the
  middle of one.  No hole, no overlap, no leak, no drawing of released meshes,
  and it settles.
* **Meshes to the GPU** - handles outlive what they name; ranges are reused
  while the GPU may still draw them; staging memory is rewound under copies.  A
  frame draws the mesh its handle was made for; nothing leaks; uploads finish.
* **Physics** - ground that arrives in any order for a simulation that must not
  depend on it; chunks evicted under sleepers; bodies that change spaces inside
  a step.
* **Loading** - models, sets and images that name each other, asked for before
  and after they came or failed; spawns that wait.  Each is decoded once, all
  arrive, and the scene is what the files say.
* **Frames on the GPU** - single targets shared by two frames in flight, passes
  that are there or not, and contents carried over by flags.  Every access is in
  the right layout, ordered, and finds what it takes to be there; handles of the
  bindless set are freed only behind the frames that sample them.
* **App, swapchain, scenario** - a window that changes between any two steps;
  rebuilds that fail part-way; a scenario that counts drawn frames.  Captures are
  whole, and scripts end where they say.
* **Start and end** - some two hundred calls that may fail, and destructors over
  what was partly made.  Nothing outlives what it was made from, or leaks.

The full list, line by line, is `hazards` in `PROJECT.json`.

## Modules

| module | models | checked by |
|---|---|---|
| `JobService` | what a worker pool promises: abstract | refined by `WorkerPool` |
| `WorkerPool` | `platform/worker_pool` | `MCWorkerPool`, `WorkerPoolProofs` |
| `AssetWorker` | `assets/worker` | through `AssetManager` |
| `Gltf` | `render/gltf` and `Scene::instantiate`, as operators | through `SceneLoading` |
| `AssetManager` | the loads of `assets/asset_manager`, over `AssetWorker` | through `SceneLoading` |
| `SceneLoading` | `render/scene`'s spawns and the frame they come in by, over `AssetManager` and `Gltf` | `MCSceneLoading`, `SceneLoadingProofs` |
| `TerrainOctree` | `terrain/planet`, one body | `MCTerrainOctree`, `MCTerrainOctreeHurried`, `TerrainOctreeProofs` |
| `NeighbourMasks` | `terrain/planet`: which neighbours a chunk on screen is stitched to | `MCNeighbourMasks`, `TerrainOctreeProofs` |
| `MeshStreaming` | meshes in `asset_manager`, `renderer`, `geometry_pool`, `staging`, and the GPU | `MCMeshStreaming`, `MeshStreamingProofs` |
| `GpuSync` | what Vulkan asks of the commands of one queue: external | through `Rendering` |
| `FrameCommands` | the commands `Renderer::record` writes, over `GpuSync` | through `Rendering` |
| `Rendering` | `render/renderer` from frame to frame, `vulkan/bindless`, the textures of `ui/imgui_vulkan` | `MCRendering`, `RenderingProofs` |
| `App` | `App::run`, the scenario runner, the rebuild of the swapchain | `MCApp`, `AppProofs` |
| `Lifetime` | everything `App::init` makes, rebuilds replace and destructors unmake | `MCLifetime`, `AppProofs` |
| `GroundBodies` | `physics/physics_world`: bodies, the character, the two spaces | the two below |
| `SolidGround` | a world whose ground is built at once: abstract | refined by `CollisionGround` |
| `CollisionGround` | `physics/physics_world`: collision chunks | `MCCollisionGround`, `CollisionGroundProofs` |
| `Transforms` | `world/transform`: the pass that composes the hierarchy | through `ShipSpaces` |
| `ShipSpaces` | `physics/physics_world`: ships' spaces and what crosses them, over `Transforms` | `MCShipSpaces`, `ShipSpacesProofs` |

Operators whose names begin with `Mutant` are deliberately wrong variants of
the operator below them - a dropped guard, a missing reset, a swapped order.
Nothing uses them; each property is known to fail when one replaces its
original, which is how we know that the property can see such a bug.

### WorkerPool

`queued`, `finished`, `outstanding` and the threads are the class's members;
`hand[w]` is the job a thread took.  One action is one critical section, or one
of the steps between two: `Submit` and `NotifyOne` are the two halves of
`submit()`, `Drain` and `Complete` of `drain()`, `StopClear`, `RequestStop(w)`
and `StopJoined` of `stop()`; a thread's `run()` is `Take`, `Wait`, `Exit`,
`SpuriousWake` and `Finish`.  `Reprioritise` is a priority written by its owner
at any time, which `Take` reads without a lock on it.  A job that throws ends in
`Finish` like one that returns: its completion is empty, and is still counted.
`JobService` is the contract: submitted jobs are started at most once,
delivered at most once and only if started, and after the service closes
nothing starts; `ImplementsJobService` is the refinement.

### AssetWorker

The queue and the one thread, in the same style; jobs are numbered as they are
submitted, so order can be stated.  `StopUnstarted` is `stop()` on a worker that
was never started.

### Gltf, AssetManager and SceneLoading

`Gltf` is two algorithms as operators: `LoadGltf`, which walks a file's default
scene depth first and makes nodes, meshes, parts and materials as it comes to
them, and `Instantiate`, which makes one entity for each node and part, with a
collider where the file, the spawn's exclusions and the parents allow it.  A
file is a record of nodes, meshes (sequences of primitives), and materials;
vertices, transforms and looks are left out.  `KeepsTheTree`, `KeepsTheMeshes`
and `CollidesByTheFile` say what a model must be in terms of the file alone.
The code's recursion is a stack that holds what is still to be entered, and a
step, `Visit`, enters one node; the walk is as many steps as there are nodes.
It is right for files in which what a node names is there (`NamesWhatItHas`) and
no node has two parents or is below itself (`IsForest`), which glTF asks for
(`render/gltf.cpp:584`); other files are the parser's to refuse.

`AssetManager` instantiates `AssetWorker` for the thread and adds what its jobs
decode: `LoadNew` is every load that is not already known (`Found`), one job
each; `RunFinish` applies what came back, and a model's asks for its textures,
which are new jobs behind those already queued.  A decode may fail
at any time, and must where `LoadGltf` does.  What a model is made of is what
`LoadGltf` makes of its file.

`SceneLoading` runs it as `App` does: `Start`, `SetUp` for each call of
`build_test_planet`, then frames of `Tick` (the settle step's question), `Take`
and `FinishNext` (`AssetManager::update`), `Terrain` (which asks for its palette
once, or makes textures in code), `SceneUpdate` (spawns whose model became ready
become entities, with their attachments as new spawns) and `Draw` (the renderer
takes what is ready) or `NotDrawn`.  `Stop` may come at any frame.

### TerrainOctree

A frame of the main thread is `Drain`, then completions one at a time, then
`update()` as one step.  `update()` has the code's early returns as
alternatives: `UpdateFrozen`, `UpdateFar` (the impostor takes over and the nodes
are forgotten), `UpdateHold` (coming back, until the first chunks are ready),
`UpdateSwap` (nodes are added, asked for, retired, forgotten and drawn).  The
camera is any set of leaves its split nodes could select, chosen anew each
frame: distances are not modelled, every selection is allowed.  A job shares
with its node only the `wanted` flag; `StartJob` is its one read of it.  Jobs of
erased nodes keep a flag nobody writes (`current` is false).  The four actions
`Complete...` are the paths of `complete()`.  The map's measure and bake are one
job each; LOOK and bake never fail.

`Unhurried` is the one assumption about the camera.  When it is TRUE the camera
comes back from the impostor's distance only after the jobs it left behind have
come back.  With FALSE the code has the defect of run `octree_hurried`, and
those properties it breaks are stated for `Unhurried`.  `NoOverlap` and
`TypeOK` are proved without it.

Left out: the neighbour masks, which are `NeighbourMasks`; several
bodies (they share nothing but the pool); a camera or map that is missing, with
which `update()` returns at once; jobs that throw.

### NeighbourMasks

A chunk on screen carries two masks of the places around it: where what is drawn
is one LOD coarser, and where it is one finer.  By them it is stitched to its
neighbours.  Nodes are a LOD and an origin on a grid of any number of axes.
`Swap` is the swap of `TerrainOctree`, for the leaves of any selection and with
any of those new to the screen still late, and the end of `update()`:
`update_neighbours`, which rewrites the masks of what changed and of the chunks
`NextTo` it, and leaves all others as they were.  `ToImpostor` is the impostor's.
What is `Surface`, `Hollow` and `displayed` in `TerrainOctree` is `Land`, `Bare`
and `drawn` here, so that one module can be about both.
`SurfaceAssumption` is what roots and their children are: nodes at multiples of
their extent (`planet.cpp:508`, `526`).
What masks should be is stated from what is on screen and touches the chunk,
without the code's lookups (`MasksMatch`).

### MeshStreaming

`meshes`, `free`, `ready` and `released` are the `AssetManager`'s; `slots` the
`Renderer`'s; `entry`, `resident`, `uploads`, `copies` and `retired` the
`GeometryPool`'s; `staging` and `content` are memory, and hold the handle of the
mesh whose data is there.  `Draw` is `Renderer::draw` whole: fence, releases,
additions while there is room, what the slot retired is freed, uploads staged
in order within the budget, releases handed to the pool, the frame recorded and
submitted.  Its draws are of every handle ever issued, as if the scene let go
of none: what `mesh_range` does not resolve must not be drawn.  The GPU runs
`GpuCopy` of any frame in flight, also out of order, since the barrier of
`GeometryPool::record` orders copies against later fetches only, and finishes
frames in order.  `AcquireOutOfDate` is the early return, which takes nothing.

A mesh's vertex and index ranges are one id, so the pool is full exactly when no
id is free; a size counts in units of staging.  Frames that end in `Error` end
the program and are left out.

### GpuSync, FrameCommands and Rendering

`GpuSync` is the referee, and external: what one resource (a record of layout,
last writer, where it is visible, and what later commands must wait for) becomes
under a set of barriers, an access, an image acquired, a wait on a fence or an
idle device.  What Vulkan forbids is put in `faults`: a wrong layout, an access
that is not ordered, contents that are not those wanted.

`FrameCommands` is `Renderer::record` as a sequence of such commands, pass by
pass in the code's order, each a function of what the frame draws and what the
renderer remembers.  Resources the code always handles alike are one.

`Rendering` is the frames: `Draws` is `Renderer::draw` with any scene, any
answer to whether the texture has arrived, and any requests of ImGui on its
textures, `SetTaa`, `ResetTaa` and `OnSwapchainChanged` the rest.  A behaviour
follows one resource (`watch`), chosen in `Init`, through every command; the
state of one says nothing of another's, so this is as good as all at once and
far smaller.  `bindless` is the set's handles and free list, `retired` what the
UI's backend keeps per slot, `sampled` what the last frame of each slot samples.
The GPU has no action of its own: a slot's last frame counts as running until
`draw` waits for the slot, which is the longest it can run.

Left out: frames that end in `Error`; what a shader computes; images of storage,
samplers and buffers in the bindless set, which are added once; a UI texture
whose staging memory cannot be had.

### App

One iteration of `App::run` is `Poll` (SDL's events, which arrive as a set of
flags), `Wake` while minimized, `Tick...` for each step the scenario runner gets
through in this frame or for the user's keys, `Update` (everything between, cut
down to what is idle after it and how far the camera's pose has come), and a
draw with its four outcomes: `DrawOk`, `DrawOutOfDate` with the rebuild whose
result is ignored, `DrawError`, and `DrawUndefined` for a draw on a swapchain
that an earlier rebuild left in pieces.  Between any two of them the window may
be resized, minimized, restored, or lose and gain focus (`Outside`).
`RebuildSwapchain` is the swapchain's `recreate` and the renderer's
`on_swapchain_changed` with each of their steps possibly failing (`Whole`,
`Broken`).  `pose` is the one frame of delay between the camera and the octree:
`moved`, composed by the scene, `seen`.  Three variables only watch: `older`
(TAA's history may hold frames from before the step), `disturbed` (a frame of the
step was lost, or the swapchain rebuilt) and `crossed` (the last poll that read
of the focus read both of its events).

### Lifetime

A handle is a pair of an owner and a part.  `Startup` and `Rebuild` are the
sequences of calls of `App::init` and `rebuild_swapchain`, in the code's order;
`Succeeds` makes the next one and `Fails` lets it fail, with the clean-up the
failing function does itself (`TakenBack`), after which the destructors run, or,
in a rebuild, the loop goes on.  `Members` is what the destructors take apart:
the reverse of `App`'s members, of which `Destroy` takes the next that is there,
since each destructor tests what it has.  Frames are drawn and fences signal, pool
and asset threads begin and end jobs (`JobStarts`, `JobEnds`); a destructor that
joins a thread waits for its job, and a rebuild and the end of `run()` wait for
the device.  `Uses(h)` is what `h` was created from.  Owners that a loop makes many
of are one.

### CollisionGround

`GroundBodies` is what moves: a box is held when it is added, awake once the
world has its ground, and may fall asleep; the character is made, removed and
teleported; `StepBodies` is `Impl::step`, with `transfer` at its start and Jolt's
result as any position in `Moves`.  `CollisionGround` adds the ground.  The main
thread's frame is `Finish` (completions in the pool's drain) and `Place`
(spawns, the walk camera) in any order, then `update()`: `Update` is it up to
its first step - `add_built`, `ensure`, `keep`, and the decision to wait - then
`Step` for each step and `Evict` for the loop's end.  `age[c]` is
`steps - needed`, capped one past `KeepSteps`.  What a body needs is given by
three maps: the chunks it can touch, those built around it (`Near`), those it
keeps (`Around`).

`SolidGround` is the same bodies on ground that is there when they ask.
`ImplementsSolidGround` is the header's promise that the simulation does not
depend on the pool: batches and evictions happen at the same steps as if there
were none.  A batch is a set: that its chunks are given to Jolt in grid order is
left to the sort in `add_built` and `evict`.  It needs `Settled`: bodies are placed only while no ground is
waited for, as in a scenario that settles after each spawn.

Left out: several terrains; a ship that moves, and its hull, which are
`ShipSpaces`; static colliders; a chunk whose shape fails or for which Jolt has no body left (in the model a chunk
without a surface); a job that throws.

### Transforms and ShipSpaces

Both are on a line: a position is an integer, a rotation 1 or -1, and a step is
the unit of time, so poses and velocities are exact.  That is enough for the
order in which frames, poses and velocities are read and written, which is where
this code can go wrong, and for rotations that do not commute with offsets.

`Transforms` is `propagate_transforms`: for each entity in the order of its
storage, `Climb` to the first ancestor this pass has composed (`Ascent`, at most
`MaxDepth` up), then `Descend`.
`Orders` are the orders tried: parents first, children first, and mixed.

`ShipSpaces` is one Jolt system for the world and one for each ship.  `space[s]`
is a `Space`: its frame, the frame's motion and its volume; `jolt[s]` the bodies
in its system; `rigid` the `RigidBody` components, with their last two poses.
`TakeShapes` gives a ship its volume, and its body if it has a hull; `AddBox`
and `AddCharacter` are the calls of the same names.  `Step` is `Impl::step`
whole: `follow_ships`, `transfer` with `move_body` and `move_character`, gravity
for each space, Jolt's step, and the poses kept.  Jolt (`Floats`, `Stops`) is
external: a thing falls freely, or is stopped in its space.  `Write` is the end
of `update()`, at either end of the interpolation, and `Compose` the pass in
`Scene::update`.  `MotionOf` says how something moves in the world from where it
is drawn, and from the ship's own velocity, without the code's conversions.

A ship's body enters Jolt at once, as if its ground were there: waiting for
ground is `CollisionGround`'s.  Left out: spin; sleep; several hulls, and pieces
of a hull that come after the ship's body was made, which the code keeps and
never uses; ships that are moved by their Transform alone; teleports, and the
character's own walking and jumping; several bodies' gravity, which is one
constant here.

## Runs

Many of the properties are conjunctions of named parts that belong together;
each part is a definition with a comment of its own, above the whole.

| run | asks | bounds and why they are enough |
|---|---|---|
| `pool` | every job accounted for in every interleaving (`JobsAccounted`: types, once each, the exact count); no lost wake-up; every job drained and `stop()` returns (`JobsComeBack`); refinement of `JobService` | two threads (a wake-up can go to the wrong one), four jobs (more than threads and hands can hold), two priorities; jobs are bounded, so an endless supply of more urgent jobs, which may starve one, is not seen |
| `scene_loading` | each thing decoded once and in order (`DecodedInOrder`); a settle step that finds the assets idle captures a whole scene; a spawn is its file (`ModelsKept`); everything arrives and `stop()` returns (`LoadingEnds`) | a ship and what is attached to it; files with nested, excluded, moving and shape nodes, several primitives, a broken mesh used and unused; two images, each named by two askers; five jobs, which is one more than there are keys |
| `octree` | all of the octree: `NoOverlap`, `NoHoles`, `SceneIsExact`, `MeshesExact`, `JobsExact`, `CoarseMapped`, `SettledIsExact`, `ComesToIdle` | four nodes of three LODs: a swap can pass over a level that was never shown; one leaf is hollow; two jobs at once; three meshes, which never run out with `Unhurried` |
| `neighbours` | the masks of every chunk are right for all that touches it, after any swaps (`MasksMatch`) | two roots of three LODs in the plane, and six finest chunks that adjoin over faces and corners, in one root and across two; one is hollow; neighbours may be more than one LOD apart on the way |
| `octree_hurried` | does a hidden node always go? **No** | three nodes, two copies of a job |
| `mesh_streaming` | frames draw the meshes their handles were made for; the books of the three parts agree (`HeldOnce`); uploads finish, ranges return (`MeshesComeAndGo`) | two mesh slots, each used twice; two ranges, so the pool fills while one waits retired; budget 2 and sizes 1 to 3, so a frame stages two, one or none, and one size never fits; two frames in flight, as in the code |
| `rendering` | no access in the wrong layout or unordered (`Synchronised`), or of the wrong contents (`ReadsFresh`); what is sampled stays, and handles are accounted for (`HandlesHold`) | eight kinds of frame in which each two features are on, and off, together; two atmospheres, so the LUTs change hands; a texture of three levels, so a middle one is both read and written; two UI textures and three handles, so they run out; two frames in flight |
| `app` | frames drawn on a whole chain, and no resize lost, while builds succeed (`ChainFollowsTheWindow`); captures that hold no frame from before their step, converged if undisturbed, all written (`CapturesHold`); the focus not missed, and lost but in the one case below (`EventsAreHeeded`); settles on the pose asked for, walks and flights as far as they say (`StepsEndWhereTheySay`); scenarios end | three scripts with every step, or a user; three moves of the window and one failing call, at any point: focus lost, gained and lost again, in one poll or in several, and a resize that a minimizing hides until the window is restored; a jitter cycle of two frames; step frames saturate at three, where the longest step times out |
| `app_walk` | does a walk go as far on every run? **No** | the same; see Findings |
| `lifetime` | nothing outlives what it was made from (`LifetimesNest`); all is unmade; what GPU and threads use is kept | every optional handle there is; one failure at any call, since it ends the program; two rebuilds, so the second replaces what the first made; two frames in flight, a job on each kind of thread |
| `ground` | is there ground wherever the world steps, and is it that of `SolidGround`? Are count and map exact (`ChunksExact`), do sleepers keep their ground, are held bodies added? | eight chunks in a line, one without a surface; one step moves one chunk, an update takes two, the margin is two, so the chunks kept (four each way) do not cover the line and eviction happens; a box and the character, apart or together |
| `ships` | is everything in one space, with the pose it says (`EachInOneSpace`)? Does it move (`CrossingKeepsMotion`) and draw (`DrawnWhereItIs`) as if there were no ship, and cross back only after a margin (`NoChatter`)? | a ship with a hull and a volume of two pieces, that falls or is stopped, turned about, with a deck and a lamp on it; a still ship whose volume adjoins; two boxes, and room for one in each ship; the character; four steps, in which boxes enter, leave, go from ship to ship, are refused and cross again; one thing stopped in each; a hierarchy as deep as the chain limit |

Deadlock is not checked in `app`, `app_walk` and `lifetime`, where the program
ends.

## Fairness

Only what the scheduling gives.  Threads of the pool and the asset thread are
scheduled and their jobs end (weak fairness on each thread's steps, none on
`SpuriousWake`).  The main loop goes round: a `submit`, `drain` or `stop` that
began continues, drains and updates recur, `Draw` recurs.  Nothing forces the
user to submit, to stop, to move the camera or to let it rest: `ComesToIdle` has
rest as a premise.  `LookMeasured` and `MapBaked` have strong fairness, since
they are enabled only while the main thread drains and it drains for ever.
The same loop finishes the jobs of collision chunks, updates and steps; nothing
forces anyone to spawn, walk or settle.  There are finitely many chunks, so a
character teleported to new ground for ever is not seen.

In `MeshStreaming` the GPU does what was submitted, and a draw whose acquire is
out of date is followed by a rebuild, so `Draw` is not put off for ever.
`SceneLoading` has the same of a frame that is not drawn (strong fairness on
`Draw`), and weak fairness on the main loop and the asset thread; `Stop` is
never forced.  In `App` the loop goes on, and a frame comes in which everything
it waits for has become idle (strong fairness on those updates); the window's
moves are free, and `ScenarioEnds` excepts a window that stays minimized or has
no area.  `Lifetime` and `Rendering` state safety only.

## What is proved

TLC checks the instances above; the theorems hold for any number of threads,
jobs, nodes, meshes and priorities that satisfy the named assumptions.

`WorkerPoolProofs` proves every safety property of the pool and the safety half
of the refinement with its contract, `PoolImplementsService`.  None is inductive
alone.  `PoolInv` joins `TypeOK`, `EachJobOnce` and `OutstandingExact` with
`Phases` (what is true of threads and lists in each phase of `stop()`) and
`PickedUp` (a job once begun is in a hand, finished or delivered).  The count
stays right because every step changes `outstanding` and exactly one of the sets
it counts together.  `NoStrandedJob` adds the counting argument for the wake-up:
queued jobs are at most the threads awake plus the notify to come.
`JobsStayAccounted` joins the parts of `JobsAccounted`.

`TerrainOctreeProofs` proves, for any finite tree,

* `NodesNeverOverlap`: retiring happens only under nodes whose cover is whole,
  and appearing only where nothing above or below stays.  Needs `TypeOK` alone,
  and the fact that leaves of one selection never contain each other.
* `SwapsLeaveNoHoles`: a retired node's ground is covered by leaves that are
  displayed or appear in the same step; completions erase only nodes that were
  never shown.  The second half is where the jobs matter: `JobsApart` says that a
  node with a job that may erase it is not ready, hence not displayed.
* `SceneShowsTheNodes`, `MeshesAreReleased`, `DrawnMeshesStayLive`,
  `ImpostorNeverWithChunks`: from `OctreeInv`, which ties the entity of a
  displayed node to its mesh (`SceneInv`), says an unready node has no mesh
  (`MeshInv`), and keeps impostor and chunks apart (`ImpostorInv`).

`SceneStaysExact` and `MeshesStayExact` join them into the properties the run
checks.  The rest of the module is about what a settled octree is:

* `JobsStayExact`: by `JobsApart` two jobs never have the same key, so the jobs
  are as many as their keys (`KeysCount`), and what an update submits are keys
  that had none.  `BooksInv` adds that a job is current exactly while its node is
  in the octree, and that a node not ready has one.
* `CoarseStayMapped`: from `SceneInv`, and that `update()` never bakes the map.
* `SettledStaysExact`: with a count of 0 there is no job, so nothing waits to be
  meshed; and while there is none only `update()` changes the nodes.

All but `OctreeTypes` and `NodesNeverOverlap` assume `Unhurried`;
without it they are false, as `octree_hurried` shows.  The assumptions on
constants are `TreeAssumption` (nodes above a node form a chain, and every set of
nodes has one with none of the set above it), `KindAssumption`,
`SettingsAssumption`, `NoneAssumption`.

Of the asset worker `SceneLoadingProofs` proves, for any number of jobs, `JobsStayInOrder` and
`AssetThreadIsWoken`, the two halves of what the loads rest on.  With one thread,
where a job is follows from its number: those taken, then those finished, then
the one in hand, then those queued (`PlacesInv`); a job is in hand exactly while
the thread runs (`HandInv`), and the count is the difference of two others
(`CountsInv`).  The wake-up is inductive alone.  `SceneLoading` checks the same
two properties of the thread it composes.

`CollisionGroundProofs` proves, for any bodies, positions and chunks,

* `BuildingStaysExact` and `SolidStaysReady`, together `ChunksStayExact`:
  `GroundInv` adds that only a chunk with a surface waits to become a body.
* `SleepersKeepTheirGround`: a sleeper has not moved since the update, which
  found its ground ready and kept it; so that ground is younger than
  `KeepSteps` when the steps are done (`SleepInv`).  It uses `MaxSteps <=
  KeepSteps` and Jolt's half second before sleep, and holds with ships and
  without `Settled`.
* `GroundIsAlwaysThere`: a body came where it is along a path that began where
  an update found the ground ready (`StandInv`).  It assumes `MarginHolds`, that
  every path of `MaxSteps` moves ends where the margin reaches, and no ship; the
  notes under Findings say what becomes of it without either.

The same module proves `GroundIsAsIfAtOnce`, that `CollisionGround` implements
`SolidGround` when `Settled`, with ships as without.  The step that needs an
invariant is the update: while anything is waited for, the bodies stand still, so
what is waited for is what they ask for (`AskedInv`); hence a batch is added
either not at all or with everything asked for (`AddsAllOrNothing`), at the update
that goes on to its steps.

The run `ground` has `Settled` and no ship, which two of its properties need;
the theorems on the other safety properties are for any settings, with bodies
placed while others' ground is being built, and a ship's volume anywhere.

`MeshStreamingProofs` proves `BooksAgree` and `DrawsWhatItMeans`, for any number
of handles, ranges, frames in flight and any sizes.  The books are `QueuesInv`
(what is ready resolves and is queued once; what was released does not), `SlotsInv`
(the renderer's slots follow the manager's generations) and `PoolInv` (a range is
live with one slot, retired in one frame's list, or free; an upload is for the
slot that holds its range).  What a frame draws rests on the frames in flight, in
three parts that need each other: `MentionsInv` (a range that a frame copies to or
draws is not free, has no upload queued, and if retired is retired for a frame no
earlier), `CopiesInv` (a frame copies to no range that an earlier one has to do
with, so the order of the GPU's copies does not matter) and `LandsInv` (what is
drawn or resident is in its range already, or is in staging with a copy to come).
The retired and the uploads are filtered sequences; what the filters `Kept` and
`Used` return is by induction on their length.

`AppProofs` has two parts.  Of the loop it proves `EventsAreAlwaysHeeded`,
`ChainIsWhole`, `CapturesAlwaysHold` and `StepsEndOnTheirWord`.  `WholeInv` says that
what draws, or drew last, is a whole chain unless a call failed; `ResizeInv` that
where the chain has not the window's size, an event of it is to be read, or the
window is minimized and has been taken for it, so that its restoring is to come;
`EventsInv` that the last of the poll's events of the focus is among its flags,
and is known from them if it is the only one.  Two of these theorems say less
than the comments in the code, which it does not keep: `EventsAreAlwaysHeeded`
excepts a focus gained and then lost in one poll, and of a capture whose step was
disturbed `CapturesAlwaysHold` says only that it forgets what was before, not that
it has converged (see Findings).  For captures and steps the difficulty is that the step's count is of drawn frames, while the rest
happens on every frame: `CaptureInv` says that TAA has had each frame that a
capture counted, if undisturbed, and none from before, `PoseInv` that the pose comes one stage nearer to the octree with
each, and `DistanceInv` that what was moved and what is left of a walk are
together what its script says.  `StepsEndOnTheirWord` assumes
`SettlesLate`: every settle step asks for two frames or more.  The default is ten
and the scenario of the tests asks for three, but the parser takes fewer; TLC
shows a settle of one frame to end on the pose before (see Findings).

Of what the engine makes it proves `LifetimesAlwaysNest`, `UsersAlwaysKeepTheirs`
and `AllIsUnmadeInTheEnd`: the three properties of the run `lifetime`, for any
optional handles a machine has or lacks, any number of frames in flight and of
rebuilds, each of which may fail at any call.  The inductive invariant, `LifeInv`,
says what is alive in terms of the plan being followed: what its steps so far have
made and not dropped is there, what they dropped is not, and while `init()` runs
nothing else is (`PlanInv`); what only `init()` makes stays there while the
loop runs, even through rebuilds that fail (`RunInv`); all that is alive, but for
what a call makes for itself and the loader, is something the destructors take
apart (`LiveInv`); and frames are in flight in the loop alone, jobs of the pool
never during `init()` (`UsersInv`).  The step needs three facts about the
constant plans themselves.  `Sound`: a step makes nothing whose parents are not
made before it and drops nothing that another made from it still needs, and what
is made for a call is dropped again by its owner, with no other owner's step
between.  `New`: nothing is made again that was not dropped.  `InOrder`: in
`Members` whoever uses a handle comes before it.  Unfolding the plans, nearly four
hundred steps long, is beyond the provers, so each fact is proved of the pieces
they are written with (`Each` of a few steps and some owners) and carried through
their concatenation, in the code's order: `RendererMade`, `UiMade`,
`StartupSound` for what is made, `RebuildSound` for what is made again,
`RendererUnmade`, `LateUnmade`, `MembersSound` for the destructors.

`SceneLoadingProofs` has three parts, the worker's being the first above.  Of glTF files it proves `LoadKeepsTheTree`,
`LoadKeepsTheMeshes` and `SpawnsCollideByTheFile`, for every file that `NamesWhatItHas` and `IsForest`.
`WalkInv` is what holds after any number of steps of the walk: no node is met
twice (`OnceInv`), every root, and every child of what was visited, was visited
or is on the stack (`SceneInv`), a parent is among the nodes made before
(`PlacedInv`), and nodes and meshes are the file's (`NodesInv`, `MeshesInv`).
The children of the node that is entered are new, since nobody else names them.
The stack is empty at the end by counting: each step makes a node, and there are
no more (`CountInv`).  Of a spawn's colliders the parts inherit from the parents,
by induction on the order in which nodes were made.

Of the frames that load them it proves `LoadsAreInOrder`, `SettledMeansLoaded`
and `ModelsStayKept`.  The first takes what is proved of the worker over to the
composition: whatever the manager does, to the thread it is one of its own
steps or none.  The second needs `LoadingInv` (what is loading has a
job whose `Finish` has not run), `SpawnsInv`
(a spawn that has attachments waits only for a model that is loading), `QuietInv`
(a frame that found the assets idle loads nothing) and `AskedInv` (one that found
them idle comes after the palette was asked for).  The last is why
`ScriptAssumption` is needed: the script loads or spawns a model, as
`build_test_planet` does, so the first frame finds something loading.  The third
carries what was proved of files through the frames: what was decoded, became ready or was
spawned comes of a file that loads (`SoundInv`).

Of the masks `TerrainOctreeProofs` proves, in its last part, `MasksStayRight`, for
any number of axes and any surface.  Since nodes are aligned, any two are an extent of the smaller apart, or
one is inside the other (`Apart`, `Nested`), so the leaves of a selection, and
with them what a swap leaves on screen, never overlap (`SelectedApart`,
`SwappedApart`).  A mask of the coarser is exactly what it would be if written anew.
A mask of the finer need not be (see Findings): `StitchInv` has only that it is
right where a finer chunk touches, and empty where one of the same size or a
coarser one is drawn.  A change that either can tell has the chunk in its
`NextTo`: what is next to a place has that place next to it (`NearBack`), the
chunk is among the children of a place next to its coarser neighbour
(`ParentsNear`), and a finer chunk that touches has the chunk as the parent of a
place next to it (`FinerTouches`).

`ShipSpacesProofs` proves `EachStaysInOneSpace`, `CrossingsKeepMotion`,
`BordersAreQuiet` and `DrawsWhereItIs`, for any ships, volumes and boxes, any
gravity, and with ships that are full.  A conversion out to the world and in again is the identity
(`WorldAndLocal`), so what `move_body` and `move_character` carry is where it was
and moves as it did (`CarriedIs`).  `TransferInv` is what holds in the midst of
`transfer()`, after the first boxes: the books agree, those still to come have not
moved, and every box is where it was, and moves as it did, in the world
(`SameInWorld`); `TransferredIs` is by induction on the boxes.  `RestInv`, that a
ship without a body is at rest where it was put, is needed for the frame a step
follows to be the ship's own (`FollowedIs`).  A step then moves frame and body
alike (`ShipsStep`, `FallsOn`), and the gravity aboard, less the acceleration of
the step before, makes up the difference but for `Late`.  `BordersAreQuiet` rests
on `BorderInv`: what is aboard came in within its radius, what is not was clear
by the hysteresis when it last left.

`DrawsWhereItIs` is about what recursive functions compute over a hierarchy of any
shape.  `DrawnInv` adds that what has no body is where it was put (`SceneryInv`),
so the parent of an entity is less deep than it, before and after it changes
(`HierarchyIs`), and that `update()` leaves each body's Transform as it is drawn
(`WrittenInv`).  That a step begins where the last one ended is by induction on the
depth (`StepShows`): a box that crosses is placed on the frame of its new space as
it was on the old one's, and that frame is where the ship is drawn; what is on it
follows.  Of the pass, `ClimbIs` says that a chain ends, at what is composed or at
nothing, before the limit; `DescendIs` that going down places each entity on one
that is right already; `ComposedInIs` that at the end of the storage, in any order,
each is.  `HierarchyAssumption` says what the code means by a hierarchy ("a few
levels": `transform.cpp:13`): no entity is its own ancestor or, with the boxes
aboard, deeper than `kMaxDepth`, where the code warns and places the top of the
chain as a root; and that the storage holds every entity.

`EntitiesAssumption` says that ships are
roots and no boxes, which `transfer()` leaves out; `NumbersAssumption` that
volumes have finitely many pieces, and that `Far`, which is for the infinite
distance to a ship without one, is far.

`RenderingProofs` proves `HandlesStayRight`, for any number of handles, of the
UI's textures and of frames in flight.  Its `HandlesInv` has three parts.  `Books`
says where every handle is: with a texture, in the list of one slot, with the
material that streams in, or on the free list, never in two of them, and that its
owner is who it should be.  `SampledInv` says of every frame that may still run that
what it samples is still what it was, and if it was retired, then into a slot that is
waited for only after that frame (`Until` counts the frames to each slot's wait).
`OncePer` says that one slot never holds two handles of one texture: it frees what
waits with it before the frame retires more, and a frame retires each at most
once.  What `prepare` does to the list of
ImGui's textures is a recursive function, followed one texture at a time.  It assumes of the
constants that the names of textures differ, from each other and from the two
that stand for nobody and for the material.

Of the frames it proves `AccessesAreSynchronised` and `ReadsAreFresh`, for any
set of scenes to draw, any airs, and a texture of any number of mip levels; TAA,
resets, rebuilt targets and textures come in any order. The argument goes up in
four steps. Of one command: what a barrier or a pass leaves of a resource that
was as it must be (`Fine`: in this layout, holding one of these, its last write
visible to these stages, reads of these waited for; `Wrote`: just written;
`Movable`: may be put in a layout with these stages as the first scope), and
that a command for others leaves it at least as good (`AtLeast`). Of lists of
commands, that this carries over (`Quiet`, `Reads`), the texture's upload, as
long as its levels are many, by induction. Of the parts of `Renderer::record`,
in the code's order, on which resources each is quiet, which it only reads, and
what it makes of the rest (`PartsQuiet`, `SkyRuns`, `TaaIs`, `HistogramTurns`,
...). Of whole frames, one lemma for each resource (`GBufferFrame` to
`UiFrame`). `Between`, in the invariant `FramesInv`, is what a frame may count
on, and leaves to the next: the history that `write` names is the last frame's
while `valid`, the exposure and the LUTs are what the flags of the renderer say,
bins are zeroed, a texture that has a handle is uploaded, and targets were last
read by stages that the next frame's first barrier names. `ReadsAreFresh` needs
the flags to be about the same frame as the resource: that TAA off means no
history (`Remembered`), and that a texture is created only when it is not there
(`Wants`). The proofs assume of the constants that a level is neither named like
a resource nor twice in the list (`NamesAssumption`, `LevelAssumption`), that an
air is not called like what frames write, that there is a scene, and that a
camera inside air has one.

Recursive functions (`walk`, `after`, `ExtentOf`, `Kept`, `Used`, `Solid`, `Crossings`, `Ascent`,
`Descent`, `Pass`, `Shown`) are handled
without the library's induction theorems, which take an operator: a set of
numbers that is given as a set, holds 0 and the next of each of its members is
all of them (`Induct`, from a least counterexample).  That such a function exists
is shown the same way (`CrossingsExist`, `Repeats`, `PlacedExist`).  That is why these are
functions in the modules, and no operator is `RECURSIVE` where something is
proved.

Only model-checked: all liveness, and ENABLED, which the prover does not do.

## Findings

* **A chunk can stay drawn for ever** (`terrain/planet.cpp:1057`).  Out to the
  impostor and back within the time of one job: the old job completes on the new
  node of the same key.  If the old one was skipped, a displayed node is erased
  without hiding it.
* **A walk can go too far** (`app.cpp:766`).  `scenario.hpp:99` says it goes as
  far on every run.  `walk_until_` is set whenever the step's frame count is 0,
  and a frame that is out of date does not count: if the first took a physics
  step and was then not drawn, the next sets the mark again, further on.

Seen while modelling, without a run of their own:

* `stop()` of the asset worker runs the queue first (`assets/worker.cpp:73`).
  `worker.hpp:48` says it stops "after the job in hand" and drops jobs not yet
  started.  `condition_variable_any::wait` with a stop token returns the
  predicate's value, so the loop goes on while jobs are queued, as `Take` does in
  `AssetWorker`.  Closing the window during startup waits for every texture.
* Masks keep what has gone, or miss what came, out of reach
  (`terrain/planet.cpp:897`).  `components.hpp:33` says they are of what is drawn.
  A place counts as finer when any chunk of the next LOD inside it is on screen,
  also one at its far side; such a chunk's coming or going does not rewrite the
  mask, so it depends on the way here.  `MasksMatch` shows that no chunk that
  touches this one is got wrong.
* Aboard a moving ship the character's eye is a step of the ship's motion behind
  the ship that is drawn: its feet are brought to the world with the frame from
  before the step (`physics_world.cpp:871`), and the ship's root is drawn from the
  poses after it.  `physics_world.hpp:48` says feet are "between the last two
  steps, like a body's pose".
* A pass over a cycle of parents composes its members up to `kMaxDepth` times,
  each over the last (`transform.cpp:66`); `transform.hpp:42` says once each.

* Bodies spawned while the ground of others is being built get theirs in batches
  that depend on the pool (`physics_world.cpp:1176`, `1181`): the header's
  promise holds for scenarios that settle after each spawn (`Settled`).
* Above 120 m/s a body crosses the 8 m margin within the four steps of an update
  (`physics_world.cpp:1503`, `config.hpp:81`): with `Speed` twice the margin,
  `GroundIsThere` fails.
* A body that leaves a ship without a hull steps in the world before any ground
  is asked for (`physics_world.cpp:959`; `GroundIsThere` fails in a
  setting with a position in `Inside`).  A hull is a body and has ground around it.
* A settle step that asks for fewer than two frames ends before the octree has
  seen the step's pose: it asks whether all is idle when the pose was set, but no
  `update()` followed (`scenario.cpp` takes any count; `StepsEndOnTheirWord` has
  two as its premise).
* The poll that quits drops what it read of focus (`app.cpp:979`): `FocusIsNotMissed`
  excepts the end.
* Focus gained and then lost in one poll leaves the mouse held: the two are flags,
  and the gain decides (`app.cpp:1028`).  `window.hpp:42` says "Losing it lets go
  of the mouse".  `MouseIsLetGo` excepts this case (`crossed`); without the
  exception TLC finds it in the setting of `app`, by focus lost, gained and lost
  before one poll.
* A capture can be taken too early (`app.cpp:712`).  `scenario.hpp:64` says it
  "waits one jitter cycle".  The wait counts drawn frames, and a rebuild of the
  swapchain in between, for a resize or an out-of-date frame, discards TAA's
  history without starting the count again.  `CapturesConverge` excepts disturbed
  steps; without `~disturbed` TLC finds a window resized after the first frame of
  the cycle.
* After a rebuild that failed, the next frame is drawn on what is left
  (`swapchain.cpp:97`, `app.cpp:1234`): `ChainFollowsTheWindow` has no failed call
  as its premise, so it says nothing of such a build.
* A frame that ends in `Error`, or a window that is closed, ends a scenario with
  `EXIT_SUCCESS` and captures missing.  A surface that is suboptimal for ever
  draws, but no step of a scenario counts its frames.
* `fly` moves the camera on frames that are retried.
* A UI texture whose staging memory cannot be had keeps its image in no layout,
  and draws it (`imgui_vulkan.cpp:510`, `532`).
* The Vulkan loader stays open if no instance could be made; `NothingLeaks`
  excepts it.
* `assets/handle.hpp:11` says nothing frees slots yet, which `release_mesh` does.

## Not modelled

`PROJECT.json` names every component.  Fields, noise, meshing, cameras, shadows
and orbits are numerics; what shaders compute, and the vertices of
windows, are outside; logging and the windows' contents are presentation;
joysticks and the input log are lists that one thread keeps.  Of what is
modelled: bodies past Jolt's limit and shapes that fail to build are chunks
without a surface; jobs that throw complete like others; the six faces of a
surface map's bake are one step; a frame that ends in an error ends the program.

## Plan

Done, in this order: the worker pool and its contract; the octree; the asset
worker; meshes to the GPU; collision ground and its abstract world; loading;
rendering; the application and its lifetime; neighbour masks; transforms and
ships' spaces; and proofs of the pool, the octree, the asset worker, the ground
and its refinement, meshes to the GPU, the loop and its scenarios, what the engine makes and unmakes, glTF files and
loading, the masks, what crosses between ships' spaces, bindless handles, and the frame's
commands.

What could be added:

* `OctreeOnScreen`: `TerrainOctree` over `MeshStreaming`, for a mesh dropped by a
  full pool, whose chunk is then not drawn.
* `SurfaceMapBake`: six face jobs and the counter that finds the last.
* A camera that looks out of a moving ship, over `ShipSpaces` and `App`.
