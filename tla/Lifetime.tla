------------------------------ MODULE Lifetime ------------------------------
(***************************************************************************)
(* What the engine makes, in which order, and what becomes of it when one  *)
(* of the calls that make it fails: App::init, the rebuild of the          *)
(* swapchain and its targets, and the destructors, which run in the        *)
(* reverse order of App's members whether init() got to its end or not.    *)
(* A handle is a part of its owner: <<"hdr", "view">> is the view of the   *)
(* renderer's HDR target.  Owners a loop makes many of are one here.       *)
(* What App has a name for has another here: the names are seen together   *)
(* where both are proved about.                                            *)
(***************************************************************************)
EXTENDS Integers, Sequences, SequencesExt

CONSTANTS
  Optional,       \* the handles this machine has: validation, a UI format, timers
  FramesInFlight, \* Renderer::kFramesInFlight
  MaxBuilds       \* a bound on the rebuilds of the swapchain

ASSUME LifetimeAssumption == FramesInFlight \in Nat /\ MaxBuilds \in Nat

VARIABLES
  live,       \* the handles that exist
  stage,      \* init, run, rebuild, ending or gone
  at,         \* how far init() or the rebuild has come
  inFlight,   \* frames submitted whose fence has not signalled
  used,       \* the handles that the frames in flight use
  jobs,       \* the threads that are in the middle of a job
  builds      \* counts up to MaxBuilds

lifeVars == <<live, stage, at, inFlight, used, jobs, builds>>

-----------------------------------------------------------------------------
(* One object *)

Make(o, p) == [op |-> "make", handle |-> <<o, p>>]
Drop(o, p) == [op |-> "drop", handle |-> <<o, p>>]

\* A file, a format or a device that is not as it must be.
Check(o) == [op |-> "check", handle |-> <<o, "check">>]

\* A step of an owner's, and the same steps for one owner after the other.
Command(step, o) == [op |-> step[1], handle |-> <<o, step[2]>>]

Each(steps, owners) ==
  [k \in 1 .. Len(owners) * Len(steps) |->
     Command(steps[((k - 1) % Len(steps)) + 1], owners[((k - 1) \div Len(steps)) + 1])]

Handle == << <<"make", "handle">> >>
Buffer == << <<"make", "buffer">> >>
Image == << <<"check", "check">>, <<"make", "image">>, <<"make", "view">> >>

\* VulkanDevice::submit_immediate with a staging buffer, of what has been made.
Uploaded(made) ==
  made \o << <<"make", "staging">>, <<"make", "command">>,
             <<"drop", "command">>, <<"drop", "staging">> >>

DeviceBuffer == Uploaded(Buffer)
Texture == Uploaded(Image)

\* A graphics and a compute pipeline alike.
Pipeline ==
  << <<"make", "module">>, <<"make", "layout">>, <<"make", "pipeline">>, <<"drop", "module">> >>

Compute == Pipeline

\* Each shutdown() goes through its handles in this order.
UnmakeImage == << <<"drop", "view">>, <<"drop", "image">> >>
UnmakeBuffer == << <<"drop", "buffer">> >>
UnmakePipeline == << <<"drop", "pipeline">>, <<"drop", "layout">> >>
UnmakeHandle == << <<"drop", "handle">> >>

-----------------------------------------------------------------------------
(* App::init *)

WindowMakes == <<Make("sdl", "handle"), Make("window", "handle")>>

ContextMakes ==
  <<Make("loader", "handle"), Check("extensions"), Make("instance", "handle"),
    Make("messenger", "handle"), Make("surface", "handle")>>

PickPhysical == <<Check("physical_device")>>
DeviceMakes == PickPhysical \o <<Make("device", "handle"), Make("upload_pool", "handle")>>
AllocatorMakes == <<Make("allocator", "handle")>>

\* VulkanSwapchain::build.
ChainMakes == <<Check("surface"), Make("chain", "handle")>>
ViewsMake == <<Make("chain", "view"), Make("chain", "ui_view")>>
SwapchainMakes == ChainMakes \o ViewsMake

BindlessMakes == <<Make("bindless", "layout"), Make("bindless", "pool")>>

Targets == <<"debug", "history", "albedo", "normal", "material", "motion", "depth", "hdr">>
TargetsMake == Each(Image, Targets)

ClusterBuffers == <<"cluster_counts", "cluster_lights">>
FrameBuffers ==
  <<"frame", "objects", "lights", "shadow_views", "shadow_matrices", "draws",
    "atmosphere", "terrain_palette", "debug_lines">>

ShadowsMake == Each(Image, <<"shadow_map">>) \o Each(Handle, <<"shadow_sampler">>)
ExposureMakes == Each(DeviceBuffer, <<"histogram">>) \o Each(Image, <<"exposure">>)

PoolBuffers == <<"vertices", "indices", "terrain_vertices">>
PoolBlocks == <<"vertex_block", "index_block">>
GeometryMakes == Each(Buffer, PoolBuffers) \o Each(Handle, PoolBlocks)

Whites == <<"white_srgb", "white_unorm">>
MaterialsMake ==
  Each(Handle, <<"material_sampler">>) \o Each(Texture, Whites) \o Each(Buffer, <<"staging">>)

Luts == <<"transmittance", "multiscatter", "sky_view">>
AtmosphereMakes ==
  Each(Handle, <<"lut_sampler">>) \o Each(Image, Luts) \o Each(Buffer, <<"ambient">>)

AirPasses ==
  <<"transmittance_pass", "multiscatter_pass", "sky_ambient_pass", "sky_view_pass", "taa_pass",
    "atmosphere_pass">>
DrawPasses ==
  <<"gbuffer_pass", "impostor_pass", "wire_pass", "line_pass", "shadow_pass", "tonemap_pass">>
LightPasses == <<"cluster_pass", "lighting_pass", "debug_pass", "histogram_pass", "adapt_pass">>
PipelinesMake ==
  Each(Compute, AirPasses) \o Each(Pipeline, DrawPasses) \o Each(Compute, LightPasses)

\* A slot's semaphore and fence.
SlotsMake ==
  <<Make("queries", "handle"), Make("command_pool", "handle"), Check("command_buffers"),
    Make("image_available", "handle"), Make("in_flight", "handle")>>

\* Renderer::on_swapchain_changed: Image::resize each, then a semaphore an image.
ResizeTarget ==
  << <<"drop", "view">>, <<"drop", "image">>, <<"make", "image">>, <<"make", "view">> >>
TargetsFollow ==
  Each(ResizeTarget, Targets)
  \o <<Drop("render_finished", "handle"), Make("render_finished", "handle")>>

RendererMakes ==
  BindlessMakes \o TargetsMake \o Each(Buffer, ClusterBuffers) \o Each(Buffer, FrameBuffers)
    \o ShadowsMake \o ExposureMakes \o GeometryMakes \o MaterialsMake \o AtmosphereMakes
    \o PipelinesMake \o SlotsMake \o TargetsFollow

UiBackendMakes ==
  <<Make("ui", "backend")>> \o Each(Handle, <<"linear", "nearest">>) \o Each(Pipeline, <<"ui_pass">>)
UiMakes == <<Make("ui", "context"), Make("ui", "platform")>> \o UiBackendMakes

Threads == <<Make("assets", "thread"), Make("pool", "threads"), Make("physics", "world")>>

\* What all that follows is made from.
Ground == WindowMakes \o ContextMakes \o DeviceMakes \o AllocatorMakes

Startup ==
  <<Check("scenario"), Check("SDL_allocator")>>
    \o Ground \o SwapchainMakes \o RendererMakes \o UiMakes \o Threads

\* VulkanSwapchain::recreate, then Renderer::on_swapchain_changed.
Rebuild ==
  <<Drop("chain", "view"), Drop("chain", "ui_view"), Drop("chain", "handle")>>
    \o SwapchainMakes \o TargetsFollow

\* What a frame makes the first time it needs it.
Lazy == {<<"streamed", "image">>, <<"streamed", "view">>,
         <<"ui_texture", "image">>, <<"ui_texture", "view">>, <<"capture", "buffer">>,
         <<"joystick", "device">>}

-----------------------------------------------------------------------------
(* The destructors: what each takes apart, in its order *)

MutantForgetsSampler == Each(UnmakeImage, <<"streamed">> \o Whites)

MaterialsUnmake ==
  Each(UnmakeImage, <<"streamed">> \o Whites) \o Each(UnmakeHandle, <<"material_sampler">>)

\* A slot's buffers but for the draws, which shutdown() leaves to their own
\* destructor.
FrameBuffersUnmake ==
  Each(UnmakeBuffer, <<"frame", "objects", "lights", "shadow_views", "shadow_matrices",
                       "atmosphere", "terrain_palette", "debug_lines">>)

RendererUnmakes ==
  Each(UnmakeBuffer, <<"staging">>) \o Each(UnmakeHandle, <<"queries">>)
    \o Each(UnmakePipeline, DrawPasses \o LightPasses \o AirPasses)
    \o Each(UnmakeImage, Luts) \o Each(UnmakeBuffer, <<"ambient">>)
    \o Each(UnmakeHandle, <<"lut_sampler">>) \o Each(UnmakeBuffer, <<"histogram">>)
    \o Each(UnmakeImage, <<"exposure">>) \o Each(UnmakeBuffer, <<"capture">>)
    \o Each(UnmakeHandle, PoolBlocks) \o Each(UnmakeBuffer, Reverse(PoolBuffers))
    \o MaterialsUnmake \o FrameBuffersUnmake
    \o Each(UnmakeImage, <<"shadow_map">>) \o Each(UnmakeHandle, <<"shadow_sampler">>)
    \o Each(UnmakeBuffer, ClusterBuffers) \o Each(UnmakeImage, Targets)
    \o <<Drop("bindless", "pool"), Drop("bindless", "layout")>>
    \o Each(UnmakeHandle, <<"render_finished", "image_available", "in_flight", "command_pool">>)
    \o Each(UnmakeBuffer, <<"draws">>)

UiBackendUnmakes ==
  Each(UnmakeImage, <<"ui_texture">>) \o Each(UnmakePipeline, <<"ui_pass">>)
    \o Each(UnmakeHandle, <<"linear", "nearest">>) \o <<Drop("ui", "backend")>>

UiUnmakes == UiBackendUnmakes \o <<Drop("ui", "platform"), Drop("ui", "context")>>

MutantChainFirst == <<Drop("chain", "handle"), Drop("chain", "view"), Drop("chain", "ui_view")>>

SwapchainUnmakes == <<Drop("chain", "view"), Drop("chain", "ui_view"), Drop("chain", "handle")>>

AllocatorUnmakes == <<Drop("allocator", "handle")>>
DeviceUnmakes == <<Drop("upload_pool", "handle"), Drop("device", "handle")>>

\* The loader goes with the instance (Freed).
ContextUnmakes ==
  <<Drop("surface", "handle"), Drop("messenger", "handle"), Drop("instance", "handle")>>

WindowUnmakes == <<Drop("window", "handle"), Drop("sdl", "handle")>>

\* App's members from the UI down, last declared first.
GraphicsMembers ==
  UiUnmakes \o RendererUnmakes \o SwapchainUnmakes \o AllocatorUnmakes \o DeviceUnmakes
    \o ContextUnmakes \o WindowUnmakes

MutantPoolFirst ==
  <<Drop("physics", "world"), Drop("terrain", "octree"), Drop("pool", "threads"),
    Drop("scene", "registry"), Drop("assets", "thread"), Drop("assets", "manager"),
    Drop("joystick", "device")>> \o GraphicsMembers

\* All of App's members, last declared first.
Members ==
  <<Drop("pool", "threads"), Drop("physics", "world"), Drop("terrain", "octree"),
    Drop("scene", "registry"), Drop("assets", "thread"), Drop("assets", "manager"),
    Drop("joystick", "device")>> \o GraphicsMembers

\* App's members that are whole before init().
Constructed == {<<"terrain", "octree">>, <<"scene", "registry">>, <<"assets", "manager">>}

-----------------------------------------------------------------------------
(* What a handle must not outlive *)

OfInstance == {<<"device", "handle">>, <<"messenger", "handle">>, <<"surface", "handle">>}
OfSdl == {<<"window", "handle">>, <<"surface", "handle">>, <<"ui", "platform">>,
          <<"joystick", "device">>}
Undevised == {"sdl", "window", "loader", "instance", "messenger", "surface", "device",
              "joystick", "ui", "assets", "pool", "physics", "terrain", "scene"}

Uses(h) ==
  (IF h[1] \notin Undevised THEN {<<"device", "handle">>} ELSE {})
  \cup (IF h[2] \in {"image", "buffer", "staging"} THEN {<<"allocator", "handle">>} ELSE {})
  \cup (IF h[2] = "view" /\ h[1] # "chain" THEN {<<h[1], "image">>} ELSE {})
  \cup (IF h[2] \in {"view", "ui_view"} /\ h[1] = "chain" THEN {<<"chain", "handle">>} ELSE {})
  \cup (IF h[2] = "command" THEN {<<"upload_pool", "handle">>} ELSE {})
  \cup (IF h[1] = "ui_texture" THEN {<<"bindless", "pool">>, <<"ui", "backend">>} ELSE {})
  \cup (IF h[2] \in {"platform", "backend"} THEN {<<"ui", "context">>} ELSE {})
  \cup (IF h \in OfInstance THEN {<<"instance", "handle">>} ELSE {})
  \cup (IF h \in OfSdl THEN {<<"sdl", "handle">>} ELSE {})
  \cup (IF h \in {<<"surface", "handle">>, <<"ui", "platform">>} THEN {<<"window", "handle">>} ELSE {})
  \cup (IF h = <<"instance", "handle">> THEN {<<"loader", "handle">>} ELSE {})
  \cup (IF h = <<"chain", "handle">> THEN {<<"surface", "handle">>} ELSE {})
  \cup (IF h = <<"assets", "thread">> THEN {<<"assets", "manager">>} ELSE {})

\* What a job of a thread reads, and what its completion would reach.
JobUses == [pool |-> {<<"pool", "threads">>, <<"physics", "world">>, <<"terrain", "octree">>},
            assets |-> {<<"assets", "thread">>, <<"assets", "manager">>}]

ThreadOf == [pool |-> <<"pool", "threads">>, assets |-> <<"assets", "thread">>]

-----------------------------------------------------------------------------
LifeInit ==
  /\ live = Constructed
  /\ stage = "init" /\ at = 1
  /\ inFlight = 0 /\ used = {} /\ jobs = {} /\ builds = 0

Plan == IF stage = "init" THEN Startup ELSE Rebuild
Building == stage \in {"init", "rebuild"}
OpNow == Plan[at]

Ops == Range(Startup) \cup Range(Rebuild)
Optionals == {<<"messenger", "handle">>, <<"chain", "ui_view">>, <<"queries", "handle">>}

\* A machine without it goes on without it.
Missing(h) == h \in Optionals \ Optional

Done(op) ==
  CASE op.op = "make" -> IF Missing(op.handle) THEN live ELSE live \cup {op.handle}
    [] op.op = "drop" -> live \ {op.handle}
    [] OTHER          -> live

Succeeds ==
  /\ Building /\ at <= Len(Plan)
  /\ live' = Done(OpNow) /\ at' = at + 1
  /\ UNCHANGED <<stage, inFlight, used, jobs, builds>>

Passing == {"module", "command", "staging"}

\* These call their own shutdown() when a step of theirs fails.
CleansUp == {"white_srgb", "white_unorm", "histogram"}

\* What the call that failed takes back before it returns false.
TakenBack(o) == {h \in live : h[1] = o /\ (h[2] \in Passing \/ o \in CleansUp)}

Fails ==
  /\ Building /\ at <= Len(Plan)
  /\ OpNow.op # "drop" /\ ~Missing(OpNow.handle)
  /\ live' = live \ TakenBack(OpNow.handle[1])
  /\ stage' = IF stage = "init" THEN "ending" ELSE "run"
  /\ UNCHANGED <<at, inFlight, used, jobs, builds>>

Built ==
  /\ Building /\ at > Len(Plan)
  /\ stage' = "run"
  /\ UNCHANGED <<live, at, inFlight, used, jobs, builds>>

\* A frame that draws has what a rebuild makes (App, DrawsAWholeChain).
Rebuilt == \A op \in Range(Rebuild) : op.op = "make" => op.handle \in live \/ Missing(op.handle)

DrawFrame(lazy) ==
  /\ stage = "run" /\ Rebuilt /\ inFlight < FramesInFlight
  /\ live' = live \cup lazy
  /\ inFlight' = inFlight + 1
  /\ used' = {h \in live' : h[1] \notin Undevised}
  /\ UNCHANGED <<stage, at, jobs, builds>>

FenceSignals ==
  /\ inFlight > 0 /\ inFlight' = inFlight - 1
  /\ UNCHANGED <<live, stage, at, used, jobs, builds>>

\* VulkanDevice::wait_idle.
GpuIdle == inFlight = 0

RebuildBegins ==
  /\ stage = "run" /\ builds < MaxBuilds /\ builds' = builds + 1
  /\ GpuIdle
  /\ stage' = "rebuild" /\ at' = 1
  /\ UNCHANGED <<live, inFlight, used, jobs>>

RunReturns ==
  /\ stage = "run" /\ GpuIdle
  /\ stage' = "ending"
  /\ UNCHANGED <<live, at, inFlight, used, jobs, builds>>

JobStarts(t) ==
  /\ t \notin jobs /\ ThreadOf[t] \in live
  /\ t = "assets" \/ stage \in {"run", "rebuild"} \/ (stage = "ending" /\ <<"physics", "world">> \in live)
  /\ jobs' = jobs \cup {t}
  /\ UNCHANGED <<live, stage, at, inFlight, used, builds>>

JobEnds(t) ==
  /\ t \in jobs /\ jobs' = jobs \ {t}
  /\ UNCHANGED <<live, stage, at, inFlight, used, builds>>

\* volkFinalize is called for an instance alone.
Freed(h) == IF h = <<"instance", "handle">> THEN {h, <<"loader", "handle">>} ELSE {h}

\* Every shutdown tests its handles; joining a thread waits for its job.
Destroy ==
  /\ stage = "ending"
  /\ \E k \in DOMAIN Members :
       LET h == Members[k].handle
       IN  /\ h \in live /\ \A j \in 1 .. k - 1 : Members[j].handle \notin live
           /\ \A t \in jobs : h # ThreadOf[t]
           /\ live' = live \ Freed(h)
  /\ UNCHANGED <<stage, at, inFlight, used, jobs, builds>>

Gone ==
  /\ stage = "ending" /\ \A k \in DOMAIN Members : Members[k].handle \notin live
  /\ stage' = "gone"
  /\ UNCHANGED <<live, at, inFlight, used, jobs, builds>>

LifeNext ==
  \/ Succeeds \/ Fails \/ Built
  \/ \E lazy \in {{}, Lazy} : DrawFrame(lazy)
  \/ FenceSignals \/ RebuildBegins \/ RunReturns
  \/ \E t \in DOMAIN JobUses : JobStarts(t) \/ JobEnds(t)
  \/ Destroy \/ Gone

LifeSpec == LifeInit /\ [][LifeNext]_lifeVars

-----------------------------------------------------------------------------
(* Properties *)

Handles == {op.handle : op \in Ops} \cup Lazy \cup Constructed

\* Everything is of its type, and a handle is made only once.
LifeTypes ==
  /\ live \subseteq Handles
  /\ stage \in {"init", "run", "rebuild", "ending", "gone"}
  /\ at \in Nat
  /\ inFlight \in 0 .. FramesInFlight /\ used \subseteq Handles
  /\ jobs \subseteq DOMAIN JobUses /\ builds \in 0 .. MaxBuilds
  /\ Building => at \in 1 .. Len(Plan) + 1
  /\ Building /\ at <= Len(Plan) /\ OpNow.op = "make" => OpNow.handle \notin live

\* Wherever a call fails, nothing outlives what it was made from: views their
\* images, images the allocator, the UI's textures the bindless set, the surface
\* its window.
UsesAreAlive == \A h \in live : Uses(h) \subseteq live

\* All of its type, no handle made over another, none outliving what it uses.
LifetimesNest == LifeTypes /\ UsesAreAlive

\* Wherever a call fails, the destructors leave nothing, the loader apart, which
\* only an instance takes with it.
NothingLeaks == stage = "gone" => live \subseteq {<<"loader", "handle">>}

\* Nothing a frame in flight uses is destroyed before its fence.
FramesKeepTheirs == inFlight > 0 => used \subseteq live

\* No thread is in a job when what the job reaches is gone.
JobsKeepTheirs == \A t \in jobs : JobUses[t] \subseteq live

\* What others run with, the GPU and the threads, they keep until they end.
UsersKeepTheirs == FramesKeepTheirs /\ JobsKeepTheirs

\* What a call makes for its own use is gone when it has returned, failed or not.
NothingLeftBehind == ~Building => \A h \in live : h[2] \notin Passing

\* Whatever fails, all that was made is unmade, by the call or by the end.
AllIsUnmade == NothingLeaks /\ NothingLeftBehind

=============================================================================
