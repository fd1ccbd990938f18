-------------------------------- MODULE App --------------------------------
(***************************************************************************)
(* The main thread's loop (app.cpp): the window's events, the swapchain    *)
(* and the targets that follow its size, and the scenario that takes the   *)
(* place of the user.  One iteration of App::run is Poll, TickStep for     *)
(* each step the scenario gets through, Update and a draw; the window      *)
(* changes between any two of them.  What the frame updates is reduced to  *)
(* what the scenario asks of it: which parts are not idle, and how far the *)
(* camera's pose has come on its way to the octree.                        *)
(***************************************************************************)
EXTENDS Integers, Sequences, FiniteSets

CONSTANTS
  Scripts,        \* the steps of the scenario files, a set of sequences
  None,           \* no scenario: the user has the keyboard
  Sizes,          \* the sizes of a window that has a drawable area
  JitterCount,    \* config::kTaaJitterCount
  MaxFrames,      \* where step_frames_ saturates: no step asks for more
  MaxMoves,       \* a bound on what the user and the window system do
  MaxFaults       \* a bound on the Vulkan and file calls that fail

ASSUME BoundsAssumption ==
  /\ Sizes \subseteq Nat \ {0} /\ Sizes # {}
  /\ JitterCount \in Nat /\ MaxFrames \in Nat /\ MaxMoves \in Nat /\ MaxFaults \in Nat

\* scenario::Step.  A file may ask for any numbers; see MaxFrames.
Steps ==
  [op : {"settle"}, min : Nat, timeout : Nat]
  \cup [op : {"fly", "wait", "walk"}, frames : 0 .. MaxFrames]
  \cup [op : {"set"}, movement : {"walk", "jetpack"}]
  \cup [op : {"capture", "camera", "freeze", "thaw", "spawn", "interactive"}]

ASSUME ScriptsAssumption == Scripts \subseteq Seq(Steps)

VARIABLES
  os,         \* the window as the system has it: size, minimized, focused
  posted,     \* the events SDL holds for the next poll
  moves,      \* counts up to MaxMoves
  faults,     \* counts up to MaxFaults
  phase,      \* where run() is
  window,     \* what App knows of it: minimized_, focused_ and looking_
  crossed,    \* the last poll that read of the focus read both, gained and lost
  chain,      \* the swapchain, and the renderer's targets and semaphores
  history,    \* the frames in TAA's history, as far as one jitter cycle
  older,      \* some of these may be from before this step
  movement,   \* Movement::Walk or Jetpack
  frozen,     \* TerrainOctree::frozen()
  frozenPose, \* whether frozen_pose_ has a value
  busy,       \* what is not idle: the octree, the assets, the bodies
  pose,       \* the camera: moved, composed by Scene, seen by the octree
  scenario,   \* scenario_: a script, or None
  step,       \* step_index_
  started,    \* step_started_
  frames,     \* step_frames_
  left,       \* walk_until_ - physics_.steps()
  capturing,  \* this frame is to be captured
  failed,     \* scenario_failed_
  written,    \* the capture steps whose file has been written
  moved,      \* the frames or physics steps this step has moved something
  disturbed   \* a frame of this step was not drawn, or the chain was rebuilt

osVars == <<os, posted, moves>>
chainVars == <<chain, history, older, faults>>
userVars == <<window, crossed, movement, frozen, frozenPose>>
sceneVars == <<busy, pose>>
stepVars == <<scenario, step, started, frames, left, failed, written, moved, disturbed>>
vars == <<osVars, chainVars, userVars, sceneVars, stepVars, phase, capturing>>

Scripted == scenario # None
Capture == "capture"
StepNow == scenario[step]
Stopped == phase \in {"ended", "crashed"}

Part == {"terrain", "assets", "bodies"}

Init ==
  /\ os = [size |-> CHOOSE s \in Sizes : TRUE, minimized |-> FALSE, focused |-> TRUE]
  /\ posted = {"resized"} /\ moves = 0 /\ faults = 0
  /\ phase = "poll"
  /\ window = [minimized |-> FALSE, focused |-> TRUE, looking |-> FALSE]
  /\ chain = [live |-> TRUE, extent |-> os.size, targets |-> os.size, signals |-> TRUE]
  /\ history = 0 /\ older = FALSE /\ crossed = FALSE
  /\ scenario \in Scripts \cup {None}
  /\ movement = IF Scripted THEN "jetpack" ELSE "walk"
  /\ frozen = FALSE /\ frozenPose = FALSE
  /\ busy = Part /\ pose = "moved"
  /\ step = 1 /\ started = FALSE /\ frames = 0 /\ left = 0
  /\ capturing = FALSE /\ failed = FALSE /\ written = {}
  /\ moved = 0 /\ disturbed = FALSE

-----------------------------------------------------------------------------
(* The window and the user *)

Happens(change, events) ==
  /\ moves < MaxMoves /\ moves' = moves + 1
  /\ os' = change
  /\ posted' = posted \cup events
  /\ UNCHANGED <<chainVars, userVars, sceneVars, stepVars, phase, capturing>>

Resize(size) == /\ size # os.size /\ ~os.minimized
                /\ Happens([os EXCEPT !.size = size], {"resized"})

Minimize == /\ ~os.minimized
            /\ Happens([os EXCEPT !.minimized = TRUE], {"minimized"})

Restore == /\ os.minimized
           /\ Happens([os EXCEPT !.minimized = FALSE], {"restored"})

Focus(gains) == /\ os.focused # gains
                /\ Happens([os EXCEPT !.focused = gains],
                           IF gains THEN {"focus_gained"} ELSE {"focus_lost"})

Press(key) == Happens(os, {key})

-----------------------------------------------------------------------------
(* App::rebuild_swapchain: VulkanSwapchain::recreate, which destroys the   *)
(* old chain before it builds the next, then Renderer::on_swapchain_changed, *)
(* which rebuilds every target, discards TAA's history and makes a           *)
(* semaphore for each image.                                                 *)

Whole(size) == [live |-> TRUE, extent |-> size, targets |-> size, signals |-> TRUE]

\* The surface is not asked, or refuses; it has no views; a target is not
\* rebuilt; the semaphores are gone and not all made again.
Broken(size) ==
  {[chain EXCEPT !.live = FALSE],
   [chain EXCEPT !.live = FALSE, !.extent = size],
   [chain EXCEPT !.extent = size, !.targets = 0],
   [Whole(size) EXCEPT !.signals = FALSE]}

RebuildSwapchain(size, ok) ==
  \/ /\ ok /\ size # 0 /\ chain' = Whole(size) /\ UNCHANGED faults
  \/ /\ ~ok /\ size = 0 /\ UNCHANGED <<chain, faults>>
  \/ /\ ~ok /\ size # 0 /\ faults < MaxFaults /\ faults' = faults + 1
     /\ chain' \in Broken(size)

\* What draw() needs of the chain: without it the calls are undefined.
Drawable == chain.live /\ chain.signals /\ chain.targets = chain.extent

-----------------------------------------------------------------------------
(* The top of the loop *)

MutantResizedOnly == "resized" \in posted

Resized == posted \cap {"resized", "restored"} # {}

FocusEvents == {"focus_gained", "focus_lost"}

MutantLostLast ==
  (window.focused \/ "focus_gained" \in posted) /\ "focus_lost" \notin posted

FocusedAfter ==
  \/ "focus_gained" \in posted
  \/ window.focused /\ "focus_lost" \notin posted

MinimizedAfter ==
  IF posted \cap {"minimized", "restored"} # {} THEN os.minimized ELSE window.minimized

\* F2 keeps the pose it froze at, for F3.
PoseAfter == IF "freeze" \in posted THEN ~frozen ELSE frozenPose

\* Keys change nothing while a scenario runs.
Keys ==
  /\ frozen' = IF "freeze" \in posted /\ ~Scripted THEN ~frozen ELSE frozen
  /\ frozenPose' = IF ~Scripted THEN PoseAfter ELSE frozenPose
  /\ \E wantsText \in BOOLEAN :
       movement' = IF "jetpack" \in posted /\ ~Scripted /\ ~wantsText
                   THEN (IF movement = "walk" THEN "jetpack" ELSE "walk")
                   ELSE movement

Quit ==
  /\ phase = "poll" /\ "quit" \in posted
  /\ posted' = {} /\ phase' = "ended"
  /\ UNCHANGED <<os, moves, chainVars, userVars, sceneVars, stepVars, capturing>>

Poll ==
  /\ phase = "poll" /\ "quit" \notin posted
  /\ posted' = {}
  /\ Keys
  /\ crossed' = IF posted \cap FocusEvents = {} THEN crossed ELSE FocusEvents \subseteq posted
  /\ window' = [window EXCEPT !.focused = FocusedAfter, !.minimized = MinimizedAfter]
  /\ \/ /\ MinimizedAfter
        /\ phase' = "waiting"
        /\ UNCHANGED <<chainVars, disturbed>>
     \/ /\ ~MinimizedAfter /\ ~(Resized /\ os.size # chain.extent)
        /\ phase' = "tick"
        /\ UNCHANGED <<chainVars, disturbed>>
     \/ /\ ~MinimizedAfter /\ Resized /\ os.size # chain.extent
        /\ \E ok \in BOOLEAN :
             /\ RebuildSwapchain(os.size, ok)
             /\ phase' = IF ok THEN "tick" ELSE "poll"
        /\ history' = IF chain' = chain THEN history ELSE 0
        /\ older' = (older /\ chain' = chain)
        /\ disturbed' = Scripted
  /\ UNCHANGED <<os, moves, sceneVars, capturing,
                 scenario, step, started, frames, left, failed, written, moved>>

\* SDL_WaitEvent
Wake ==
  /\ phase = "waiting" /\ posted # {}
  /\ phase' = "poll"
  /\ UNCHANGED <<osVars, chainVars, userVars, sceneVars, stepVars, capturing>>

-----------------------------------------------------------------------------
(* App::tick_scenario, a step at a time, and App::run_step *)

\* step_frames_ starts again with the step.
FramesNow == IF started THEN frames ELSE 0

Idle == busy \subseteq (IF frozen THEN {"terrain"} ELSE {})

MutantSettlesAtOnce(s) == Idle

Settled(s) == FramesNow >= s.min /\ Idle

LeftNow(s) == IF FramesNow = 0 THEN s.frames ELSE left

StepDone(s) ==
  CASE s.op = "settle" -> Settled(s)
    [] s.op = Capture  -> FALSE
    [] s.op \in {"fly", "wait"} -> FramesNow >= s.frames
    [] s.op = "walk"   -> movement = "walk" /\ LeftNow(s) = 0
    [] OTHER           -> TRUE

StepFails(s) ==
  \/ s.op = "settle" /\ ~Settled(s) /\ FramesNow >= s.timeout
  \/ s.op = "walk" /\ movement # "walk"

\* Counted as far as one too many.
MovedAgain == IF moved > StepNow.frames THEN moved ELSE moved + 1

\* The steps that are done at once: set_frozen, apply_settings, spawn and
\* place_camera.
FrozenAfter(s) ==
  CASE s.op = "freeze" -> TRUE [] s.op = "thaw" -> FALSE [] OTHER -> frozen

MovementAfter(s) == IF s.op = "set" THEN s.movement ELSE movement

\* The character may be added or removed too.
BusyAfter(s) == IF s.op \in {"spawn", "set"} THEN busy \cup {"bodies"} ELSE busy

\* Walking, the character is moved under the new eye, which asks for ground.
CameraAfter(s) == IF s.op = "camera" THEN "moved" ELSE pose

Apply(s) ==
  /\ frozen' = FrozenAfter(s)
  /\ movement' = MovementAfter(s)
  /\ busy' = BusyAfter(s)
  /\ pose' = CameraAfter(s)

TickDone ==
  /\ phase = "tick" /\ Scripted /\ step <= Len(scenario)
  /\ StepNow.op # "interactive"
  /\ StepDone(StepNow)
  /\ Apply(StepNow)
  /\ step' = step + 1 /\ started' = FALSE
  /\ frames' = 0 /\ left' = 0 /\ moved' = 0 /\ disturbed' = FALSE
  /\ older' = TRUE
  /\ UNCHANGED <<osVars, chain, history, faults, window, crossed, frozenPose, phase, capturing,
                 scenario, failed, written>>

TickFailed ==
  /\ phase = "tick" /\ Scripted /\ step <= Len(scenario)
  /\ StepFails(StepNow)
  /\ failed' = TRUE /\ step' = Len(scenario) + 1 /\ started' = TRUE
  /\ UNCHANGED <<osVars, chainVars, userVars, sceneVars, phase, capturing,
                 scenario, frames, left, written, moved, disturbed>>

MutantCaptureAtOnce == 0

\* The frames a capture waits for, TAA being on.
SettleFrames == JitterCount

TickRunning ==
  /\ phase = "tick" /\ Scripted /\ step <= Len(scenario)
  /\ StepNow.op # "interactive"
  /\ ~StepDone(StepNow) /\ ~StepFails(StepNow)
  /\ started' = TRUE /\ frames' = FramesNow
  /\ LET resets == StepNow.op = Capture /\ FramesNow = 0
     IN history' = (IF resets THEN 0 ELSE history) /\ older' = (older /\ ~resets)
  /\ capturing' = (StepNow.op = Capture /\ FramesNow >= SettleFrames)
  /\ left' = IF StepNow.op = "walk" THEN LeftNow(StepNow) ELSE 0
  /\ pose' = IF StepNow.op = "fly" THEN "moved" ELSE pose
  /\ moved' = IF StepNow.op = "fly" THEN MovedAgain ELSE moved
  /\ disturbed' = (disturbed /\ started)
  /\ phase' = "update"
  /\ UNCHANGED <<osVars, chain, faults, userVars, busy,
                 scenario, step, failed, written>>

TickInteractive ==
  /\ phase = "tick" /\ Scripted /\ step <= Len(scenario)
  /\ StepNow.op = "interactive"
  /\ scenario' = None /\ started' = TRUE
  /\ capturing' = FALSE /\ phase' = "update"
  /\ UNCHANGED <<osVars, chainVars, userVars, sceneVars,
                 step, frames, left, failed, written, moved, disturbed>>

\* Every step is behind: run() leaves the loop.
TickEnds ==
  /\ phase = "tick" /\ Scripted /\ step > Len(scenario)
  /\ phase' = "ended"
  /\ UNCHANGED <<osVars, chainVars, userVars, sceneVars, stepVars, capturing>>

\* capture_mouse(): Alt lets go of the mouse, and so does losing focus.
Looks(alt) == window.focused /\ ~alt

\* The user's turn: the mouse is held, and flying moves the camera.
TickUser ==
  /\ phase = "tick" /\ ~Scripted
  /\ \E alt \in BOOLEAN : window' = [window EXCEPT !.looking = Looks(alt)]
  /\ \E flies \in BOOLEAN :
       pose' = IF flies /\ window'.looking /\ movement = "jetpack" THEN "moved" ELSE pose
  /\ capturing' = FALSE /\ phase' = "update"
  /\ UNCHANGED <<osVars, chainVars, crossed, movement, frozen, frozenPose, busy, stepVars>>

-----------------------------------------------------------------------------
(* The rest of the frame, up to the draw.  What is done is no longer busy;   *)
(* a pose the octree sees may give it work.  It sees the pose that Scene     *)
(* composed last frame.  Bodies that wait for ground take no step.           *)

PoseSeen == IF ~frozen /\ pose = "composed" THEN "seen" ELSE pose

\* Scene::update, after the octree's; walking places the camera before it.
Composed(seen, walks) == IF seen = "moved" \/ walks THEN "composed" ELSE seen

Update(done, steps) ==
  /\ phase = "update"
  /\ done \subseteq busy
  /\ steps \in {0, 1} /\ (steps = 0 => "bodies" \in busy \ done)
  /\ LET walking == Scripted /\ step <= Len(scenario) /\ StepNow.op = "walk"
         walks == movement = "walk" /\ steps = 1 /\ "bodies" \in busy \ done
     IN
     /\ walking => "bodies" \notin done
     /\ \E more \in {{}} \cup (IF PoseSeen # pose THEN {{"terrain"}} ELSE {}) :
          busy' = (busy \ done) \cup more \cup (IF walking THEN {"bodies"} ELSE {})
     /\ pose' = Composed(PoseSeen, walks)
     /\ left' = IF walking /\ steps = 1 THEN left - 1 ELSE left
     /\ moved' = IF walking /\ steps = 1 THEN MovedAgain ELSE moved
  /\ phase' = "draw"
  /\ UNCHANGED <<osVars, chainVars, userVars, capturing,
                 scenario, step, started, frames, failed, written, disturbed>>

-----------------------------------------------------------------------------
(* Renderer::draw and what run() makes of its result *)

\* A frame that is recorded adds to TAA's history, drawn or not.
Recorded == IF history < JitterCount THEN history + 1 ELSE history

\* finish_capture(): the file is written, or the scenario fails.
FinishCapture ==
  \/ /\ written' = written \cup {step} /\ step' = step + 1 /\ started' = FALSE
     /\ frames' = 0 /\ disturbed' = FALSE /\ older' = TRUE
     /\ UNCHANGED <<faults, failed>>
  \/ /\ faults < MaxFaults /\ faults' = faults + 1
     /\ failed' = TRUE /\ step' = Len(scenario) + 1
     /\ UNCHANGED <<written, started, frames, disturbed, older>>

MutantCountsNoFrame ==
  UNCHANGED <<frames, faults, failed, written, step, started, disturbed, older>>

StepSawFrame ==
  /\ frames' = IF frames < MaxFrames THEN frames + 1 ELSE frames
  /\ UNCHANGED <<faults, failed, written, step, started, disturbed, older>>

DrawOk ==
  /\ phase = "draw" /\ Drawable
  /\ history' = Recorded
  /\ IF Scripted /\ started
     THEN IF capturing THEN FinishCapture ELSE StepSawFrame
     ELSE UNCHANGED <<faults, failed, written, step, started, frames, disturbed, older>>
  /\ phase' = "poll" /\ capturing' = FALSE
  /\ UNCHANGED <<osVars, chain, userVars, sceneVars, scenario, left, moved>>

\* The acquire or the present says so, because the window changed or because
\* the driver wants it; after the present, the frame was recorded.
DrawOutOfDate ==
  /\ phase = "draw" /\ Drawable
  /\ IF os.size = chain.extent
     THEN moves < MaxMoves /\ moves' = moves + 1
     ELSE UNCHANGED moves
  /\ \E ok \in BOOLEAN : RebuildSwapchain(os.size, ok)
  /\ \E recorded \in BOOLEAN :
       history' = IF os.size # 0 THEN 0 ELSE IF recorded THEN Recorded ELSE history
  /\ older' = (older /\ os.size = 0)
  /\ disturbed' = Scripted
  /\ phase' = "poll" /\ capturing' = FALSE
  /\ UNCHANGED <<os, posted, userVars, sceneVars,
                 scenario, step, started, frames, left, failed, written, moved>>

DrawError ==
  /\ phase = "draw" /\ Drawable
  /\ faults < MaxFaults /\ faults' = faults + 1
  /\ phase' = "ended" /\ capturing' = FALSE
  /\ UNCHANGED <<osVars, chain, history, older, userVars, sceneVars, stepVars>>

DrawUndefined ==
  /\ phase = "draw" /\ ~Drawable
  /\ phase' = "crashed"
  /\ UNCHANGED <<osVars, chainVars, userVars, sceneVars, stepVars, capturing>>

-----------------------------------------------------------------------------
Outside ==
  /\ ~Stopped
  /\ \/ \E size \in Sizes \cup {0} : Resize(size)
     \/ Minimize \/ Restore
     \/ \E gains \in BOOLEAN : Focus(gains)
     \/ \E key \in {"quit", "freeze", "jetpack"} : Press(key)

Tick == TickDone \/ TickFailed \/ TickRunning \/ TickInteractive \/ TickEnds \/ TickUser

Updates == \E done \in SUBSET Part, steps \in {0, 1} : Update(done, steps)

Draw == DrawOk \/ DrawOutOfDate \/ DrawError \/ DrawUndefined

Loop == Quit \/ Poll \/ Wake \/ Tick \/ Updates \/ Draw

Next == Outside \/ Loop

Spec == Init /\ [][Next]_vars

\* The main thread goes on; the jobs and the bodies it waits for come to an
\* end, so that a frame comes in which nothing is left.
Fairness == WF_vars(Loop) /\ SF_vars(Update(busy, 1)) /\ SF_vars(Update(busy \ {"bodies"}, 1))

FairSpec == Spec /\ Fairness

-----------------------------------------------------------------------------
(* Properties *)

Phase == {"poll", "waiting", "tick", "update", "draw", "ended", "crashed"}

OsTyped ==
  /\ os \in [size : Sizes \cup {0}, minimized : BOOLEAN, focused : BOOLEAN]
  /\ posted \subseteq {"resized", "minimized", "restored", "focus_gained", "focus_lost",
                       "quit", "freeze", "jetpack"}
  /\ moves \in 0 .. MaxMoves

ChainTyped ==
  /\ chain \in [live : BOOLEAN, extent : Sizes, targets : Sizes \cup {0}, signals : BOOLEAN]
  /\ history \in 0 .. JitterCount /\ older \in BOOLEAN /\ faults \in 0 .. MaxFaults

UserTyped ==
  /\ window \in [minimized : BOOLEAN, focused : BOOLEAN, looking : BOOLEAN]
  /\ crossed \in BOOLEAN
  /\ movement \in {"walk", "jetpack"} /\ frozen \in BOOLEAN /\ frozenPose \in BOOLEAN

SceneTyped == busy \subseteq Part /\ pose \in {"moved", "composed", "seen"}

ScenarioTyped ==
  /\ scenario \in Scripts \cup {None} /\ step \in Nat \ {0} /\ started \in BOOLEAN
  /\ frames \in 0 .. MaxFrames /\ left \in Nat /\ moved \in Nat
  /\ failed \in BOOLEAN /\ written \subseteq Nat /\ disturbed \in BOOLEAN

\* Everything is of its type.
TypeOK ==
  /\ phase \in Phase /\ capturing \in BOOLEAN
  /\ OsTyped /\ ChainTyped /\ UserTyped /\ SceneTyped /\ ScenarioTyped

\* As long as every build succeeds, no frame is drawn without a swapchain, its
\* targets and its semaphores, whatever the window does in between: a window of
\* no size and a minimized one leave the old ones alone.
DrawsAWholeChain == faults = 0 => phase # "crashed"

\* No change of the window's size is lost: what a frame is prepared for and
\* drawn on has its size, or an event that says otherwise is still to be read.
\* A poll that finds the window minimized or without a size reads its resizes
\* for nothing, and counts on an event to come.
NoResizeIsLost ==
  faults = 0 /\ phase \in {"tick", "update", "draw"} /\ os.size # 0
      /\ posted \cap {"resized", "restored"} = {} =>
    chain.extent = os.size

\* The swapchain and its targets follow the window while every build succeeds:
\* what happens after one that failed is for the README to say.
ChainFollowsTheWindow == DrawsAWholeChain /\ NoResizeIsLost

\* A settle step ends only on what the octree chose for the camera's pose: the
\* pose reaches it a frame late, after which idle() still speaks of the old one.
SettlesOnThePose ==
  [][TickDone /\ StepNow.op = "settle" => frozen \/ pose = "seen"]_vars

\* A capture's image "does not depend on the frames before" (scenario.hpp:65):
\* none from before its step is in TAA's history, whatever frames of the step
\* are lost and however often the swapchain is rebuilt.
CapturesForget == phase = "draw" /\ capturing => ~older

\* It is taken once TAA has had its whole jitter cycle, as long as no rebuild of
\* the swapchain and no lost frame comes into the step.  A rebuild discards the
\* history, and the step goes on counting: the code then captures too early.
CapturesConverge ==
  phase = "draw" /\ capturing /\ ~disturbed => history >= JitterCount

\* A walk or a flight that no lost frame disturbed goes exactly as far as it
\* says, however long the ground under it takes.
GoesAsFar ==
  [][TickDone /\ StepNow.op \in {"walk", "fly"} /\ ~disturbed => moved = StepNow.frames]_vars

\* A step of a script ends where it says: settled on its pose, or as far on.
StepsEndWhereTheySay == SettlesOnThePose /\ GoesAsFar

CaptureSteps == {k \in DOMAIN scenario : scenario[k].op = Capture}

\* A scenario that reaches its end without failing has written every capture,
\* and no capture twice or out of its turn.
CapturesAreWritten ==
  Scripted => /\ ~failed => written = {k \in CaptureSteps : k < step}
              /\ written \subseteq CaptureSteps

\* Captures are all written in their turn, of frames that depend on none before
\* the step, and that have converged if nothing disturbs it.
CapturesHold == TypeOK /\ CapturesForget /\ CapturesConverge /\ CapturesAreWritten

\* The pose F3 copies beside the camera's is that of a terrain still frozen.
FrozenPoseIsFrozen == frozenPose => frozen

\* A window that has the focus, and whose events have been read, is not taken
\* for one that lost it; the poll that quits reads them for nothing.
FocusIsNotMissed ==
  os.focused /\ posted \cap FocusEvents = {} /\ phase # "ended" => window.focused

\* "Losing it lets go of the mouse" (window.hpp:42): once the events are read,
\* the mouse turns the camera only of a window that has the focus.  The code
\* breaks this in one case, excepted here: flags have no order, and of a focus
\* gained and then lost in one poll it sees the gain (app.cpp:1028).
MouseIsLetGo ==
  phase \in {"update", "draw"} /\ ~Scripted /\ window.looking
      /\ posted \cap FocusEvents = {} /\ ~crossed =>
    os.focused

\* What polls leave behind of their events agrees with them: F3's pose, and the
\* focus, which is not missed, and is lost but for the case that is excepted.
EventsAreHeeded == FrozenPoseIsFrozen /\ FocusIsNotMissed /\ MouseIsLetGo

\* A scenario comes to an end, or to the user, unless the window stays away.
ScenarioEnds ==
  Scripted ~> Stopped \/ ~Scripted \/ os.minimized \/ os.size = 0

\* A walk goes as far on every run (scenario.hpp), whatever frames are lost.
WalkGoesAsFar ==
  [][TickDone /\ StepNow.op = "walk" => moved = StepNow.frames]_vars

=============================================================================
