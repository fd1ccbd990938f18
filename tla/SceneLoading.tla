---------------------------- MODULE SceneLoading ----------------------------
(***************************************************************************)
(* The scene that comes in while it is drawn: Scene::build_test_planet     *)
(* asks for models and spawns them at once, App::run applies what the      *)
(* asset worker has finished once a frame, Scene::update makes the entities *)
(* of what has become ready, and the renderer takes its data.  It composes *)
(* the asset manager with the worker's thread, the scene and the frame.    *)
(***************************************************************************)
EXTENDS AssetManager

CONSTANTS
  Script,       \* build_test_planet's calls, in order
  Palette       \* the ambientCG sets of the terrain's palette

IsSpawn(spawn) ==
  /\ spawn.model \in Model
  /\ \A a \in DOMAIN spawn.attachments : spawn.attachments[a].model \in Model

IsCall(call) ==
  \/ call.op = "sets" /\ call.sets \in Seq(Set)
  \/ call.op = "load" /\ call.model \in Model
  \/ call.op = "spawn" /\ IsSpawn(call.spawn)

\* The scene has some model, so that the first frame finds assets loading.
ASSUME ScriptAssumption ==
  /\ Script \in Seq(Range(Script)) /\ Palette \in Seq(Set)
  /\ \A i \in DOMAIN Script : IsCall(Script[i])
  /\ \E i \in DOMAIN Script : Script[i].op \in {"load", "spawn"}

VARIABLES
  phase,        \* where App::run is
  script,       \* the calls still to be made
  palette,      \* the palette was asked for
  pending,      \* the ModelSpawns: each a spawn, and the root it hangs under
  instances,    \* those whose model became entities
  settled,      \* what assets_.idle() said to this frame's settle step
  streamed      \* what the renderer has taken

sceneVars == <<phase, script, palette, pending, instances, settled, streamed>>
vars == <<assetVars, sceneVars>>

Init ==
  /\ AssetsInit
  /\ phase = "startup" /\ script = Script /\ palette = FALSE
  /\ pending = {} /\ instances = {} /\ settled = FALSE /\ streamed = {}

-----------------------------------------------------------------------------
(* App::init *)

\* The worker is started here; loads may be asked for before.
Start ==
  /\ phase = "startup" /\ Worker!Start
  /\ UNCHANGED <<managerVars, file, decoded, sceneVars>>

Call == Head(script)

SetUp ==
  /\ phase = "startup" /\ Free /\ script # <<>>
  /\ \/ Call.op = "sets" /\ LoadAmbientCg(Call.sets) /\ UNCHANGED pending
     \/ Call.op = "load" /\ LoadModel(Call.model) /\ UNCHANGED pending
     \/ /\ Call.op = "spawn" /\ LoadModel(Call.spawn.model)
        /\ pending' = pending \cup {[under |-> "world", spawn |-> Call.spawn]}
  /\ script' = Tail(script)
  /\ UNCHANGED <<phase, palette, instances, settled, streamed>>

SetUpDone ==
  /\ phase = "startup" /\ Free /\ script = <<>> /\ thread # "none"
  /\ phase' = "tick"
  /\ UNCHANGED <<assetVars, script, palette, pending, instances, settled, streamed>>

-----------------------------------------------------------------------------
(* App::run *)

\* The calls the manager makes of the worker, whoever called it.
Asks ==
  /\ AskedBefore \/ LoadNew \/ Notify
  /\ UNCHANGED sceneVars

\* tick_scenario: a settle step asks whether the assets are idle.
Tick ==
  /\ phase = "tick" /\ main = "loop"
  /\ settled' = Idle
  /\ phase' = "take"
  /\ UNCHANGED <<assetVars, script, palette, pending, instances, streamed>>

Take ==
  /\ phase = "take" /\ TakeFinishes
  /\ phase' = "finishes"
  /\ UNCHANGED <<script, palette, pending, instances, settled, streamed>>

FinishNext ==
  /\ phase = "finishes" /\ RunFinish
  /\ UNCHANGED sceneVars

\* TerrainOctree::update: its palette at the first frame, and, when the bake of
\* a surface map lands, its textures.
Terrain ==
  /\ phase = "finishes" /\ batch = <<>>
  /\ palette' = TRUE
  /\ IF ~palette THEN LoadAmbientCg(Palette)
     ELSE \/ Free /\ UNCHANGED assetVars
          \/ \E b \in Baked : state[b] = "absent" /\ AddTextures(<<b>>)
  /\ phase' = "scene"
  /\ UNCHANGED <<script, pending, instances, settled, streamed>>

MutantSettledSpawns == {p \in pending : state[p.spawn.model] = "ready"}

\* Scene::update collects the spawns whose model is loaded, or failed.
SettledSpawns == {p \in pending : state[p.spawn.model] # "loading"}

\* An attachment inherits the spaces its spawn collides in, and the ship.
Attached(p) ==
  LET attachment(a) == p.spawn.attachments[a]
  IN {[under |-> attachment(a).node,
       spawn |-> [model |-> attachment(a).model, collision |-> attachment(a).collision,
                  noCollision |-> {}, ship |-> p.spawn.ship, attachments |-> <<>>]] :
      a \in Attachments(model(p.spawn.model), p.spawn)}

\* Scene::update: a model that failed leaves its root empty.
SceneUpdate ==
  LET built == {p \in SettledSpawns : state[p.spawn.model] = "ready"}
  IN
  /\ phase = "scene" /\ Free
  /\ instances' = instances \cup built
  /\ pending' = (pending \ SettledSpawns) \cup UNION {Attached(p) : p \in built}
  /\ phase' = "draw"
  /\ UNCHANGED <<assetVars, script, palette, settled, streamed>>

\* Renderer::take_assets.
Draw ==
  /\ phase = "draw" /\ TakeReady
  /\ streamed' = streamed \cup Range(ready)
  /\ phase' = "tick"
  /\ UNCHANGED <<script, palette, pending, instances, settled>>

\* A frame whose swapchain is out of date takes nothing.
NotDrawn ==
  /\ phase = "draw" /\ Free
  /\ phase' = "tick"
  /\ UNCHANGED <<assetVars, script, palette, pending, instances, settled, streamed>>

\* AssetManager's destructor, also when init() fails before the worker starts.
Stop ==
  /\ Free
  /\ \/ phase = "startup" /\ Worker!StopUnstarted
     \/ phase \in {"startup", "tick"} /\ Worker!RequestStop
  /\ UNCHANGED <<managerVars, file, decoded, sceneVars>>

Joined == Worker!Joined /\ UNCHANGED <<managerVars, file, decoded, sceneVars>>

Stopped == Worker!Stopped /\ UNCHANGED vars

Thread == (Decodes \/ WorkerGoesOn) /\ UNCHANGED sceneVars

Woken == SpuriousWake /\ UNCHANGED sceneVars

Frame == Tick \/ Take \/ FinishNext \/ Terrain \/ SceneUpdate \/ Draw \/ NotDrawn

Main == Start \/ SetUp \/ SetUpDone \/ Asks \/ Frame \/ Joined

Next == Main \/ Stop \/ Stopped \/ Thread \/ Woken

Spec == Init /\ [][Next]_vars

\* Both threads are scheduled and decoding ends, and a window that is shown is
\* drawn time and again.
Fairness == WF_vars(Main) /\ WF_vars(Thread) /\ SF_vars(Draw)

FairSpec == Spec /\ Fairness

-----------------------------------------------------------------------------

\* Everything is of its type.
TypeOK ==
  /\ AssetsType
  /\ phase \in {"startup", "tick", "take", "finishes", "scene", "draw"}
  /\ palette \in BOOLEAN /\ settled \in BOOLEAN
  /\ \A p \in pending \cup instances : p.spawn.model \in Model
  /\ streamed \subseteq Model \cup Image \cup Baked

\* Finishes run in the order their jobs were submitted (worker.hpp:52,55), and
\* outstanding(), which idle() goes by, counts the rest.
InOrder == Worker!InOrder

\* Loads asked for before the thread starts, or by a Finish, never find it
\* asleep with no notify to come.
NoLostWakeup == Worker!NoLostWakeup

\* "Everything that reads a file is deduplicated [...] and decodes nothing"
\* (asset_manager.hpp:101): whoever asks, and whatever came of the first time.
DecodedOnce == IsInjective(jobs)

\* Four things together: everything is of its type; loads start once and finish
\* in order; and none waits beside a thread that sleeps.
DecodedInOrder == TypeOK /\ InOrder /\ NoLostWakeup /\ DecodedOnce

\* Nothing is loading, nothing decoded waits for the renderer, and no spawn waits
\* for its model, an attachment's least of all.
Whole ==
  /\ pending = {}
  /\ \A k \in Model \cup Image :
       state[k] # "loading" /\ (state[k] = "ready" => k \in streamed)

\* A settle step that finds the assets idle captures a whole scene: it is whole
\* by that frame's draw.
SettledIsLoaded == settled /\ phase = "draw" => Whole

\* What is in the scene of a spawn is the file's default scene: its nodes, each
\* once, under their parents.
TreeKept ==
  \A p \in instances : KeepsTheTree(file[p.spawn.model], model(p.spawn.model))

\* Each node draws its own mesh, in its own materials.
MeshesKept ==
  \A p \in instances : KeepsTheMeshes(file[p.spawn.model], model(p.spawn.model))

\* "Nodes left without colliders, with everything under them" (scene.hpp:67).
CollidersKept ==
  \A p \in instances :
    CollidesByTheFile(file[p.spawn.model], model(p.spawn.model), p.spawn)

\* A spawn is its file: tree, meshes, materials and colliders.
ModelsKept == TreeKept /\ MeshesKept /\ CollidersKept

\* What the scene is made of is there at last, if the worker is not stopped: all
\* that was asked for was decoded, or failed, and has reached the renderer, and
\* every spawn has become entities, or stays empty for a model that failed.
EverythingArrives == <>[](main = "loop" => Whole)

\* The destructor's join comes back, whatever was queued.
StopReturns == Worker!StopReturns

\* Loading ends, either way: the scene is whole, or the worker is joined.
LoadingEnds == EverythingArrives /\ StopReturns

=============================================================================
