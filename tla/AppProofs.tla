------------------------------ MODULE AppProofs -----------------------------
(***************************************************************************)
(* Proofs about App, for any scripts, sizes of the window, events, rebuilds *)
(* of the swapchain, failures and pace of the jobs: the chain follows the   *)
(* window, captures forget what was before, a step ends where it says, and  *)
(* what a poll's events leave behind agrees with them, but where App says.  *)
(* And about Lifetime, for any optional handles, frames in flight and       *)
(* rebuilds, whichever call fails: nothing outlives what it was made from,  *)
(* users keep what they use, and all that is made is unmade.  What is asked *)
(* of the plans, which are long, is proved of their pieces and carried over *)
(* to what is put together from these; then the steps are looked at.       *)
(***************************************************************************)
EXTENDS App, Lifetime, SequenceTheorems, TLAPS

\* The step in progress, if it is one of these.
Doing(ops) == Scripted /\ step <= Len(scenario) /\ StepNow.op \in ops

\* The types, and that a walk that takes a physics step has some left.
TypeInv == TypeOK /\ (phase = "update" /\ Doing({"walk"}) => left # 0)

\* What draws, or drew last, is whole unless a build has failed.
WholeInv == faults = 0 => Drawable /\ phase # "crashed"

\* Where the chain has not the window's size, an event of it is to be read; or
\* the window is minimized, has been taken for it, and is to be restored.
ResizeInv ==
  phase # "ended" =>
    /\ phase \in {"tick", "update", "draw"} => ~window.minimized
    /\ window.minimized /\ posted \cap {"minimized", "restored"} = {} => os.minimized
    /\ faults = 0 => \/ os.size = 0 \/ chain.extent = os.size \/ Resized
                     \/ window.minimized /\ os.minimized

\* A scenario leaves F2 and the mouse alone; the last of the window's events of
\* the focus is in what is posted, and known from it if it is the only one.
EventsInv ==
  /\ EventsAreHeeded
  /\ Scripted => ~frozenPose /\ ~window.looking
  /\ os.focused /\ "focus_lost" \in posted => "focus_gained" \in posted
  /\ "focus_gained" \in posted => "focus_lost" \in posted \/ os.focused
  /\ phase \in {"update", "draw"} /\ window.looking => window.focused
  /\ window.focused /\ ~crossed /\ posted \cap FocusEvents = {} /\ phase # "ended" => os.focused

\* TAA has had every frame that a capture has counted, if nothing disturbed it, and
\* none from before; the capture is taken once these are the whole cycle.
CaptureInv ==
  /\ Doing({Capture}) /\ started /\ ~disturbed => history >= frames \/ history >= JitterCount
  /\ Doing({Capture}) /\ started => ~older
  /\ capturing => /\ phase \in {"update", "draw", "crashed"}
                  /\ Doing({Capture}) /\ started /\ frames >= JitterCount

\* How many of the step's frames have been updated, one of them perhaps not
\* drawn yet.
Updated == IF phase = "draw" THEN frames + 1 ELSE frames

\* The pose comes nearer to the octree with each frame of a settle step, but for
\* the character's steps, which keep the bodies busy.
PoseInv ==
  Doing({"settle"}) /\ started /\ ~frozen =>
    /\ Updated >= 1 => pose # "moved"
    /\ Updated >= 2 /\ "bodies" \notin busy => pose = "seen"

Ticked == phase \in {"update", "draw"}

\* A flight has moved the camera once a frame; a walk has gone what is not left
\* of it, which counts from its first frame on.
DistanceInv ==
  /\ Scripted /\ Ticked => started
  /\ Scripted /\ step <= Len(scenario) /\ ~(started /\ StepNow.op \in {"fly", "walk"}) => moved = 0
  /\ Doing({"fly"}) /\ started /\ ~disturbed /\ ~Stopped =>
       /\ moved = (IF Ticked THEN frames + 1 ELSE frames)
       /\ moved <= StepNow.frames
  /\ Doing({"walk"}) /\ started /\ ~disturbed /\ ~Stopped =>
       /\ moved + left = StepNow.frames
       /\ StepNow.frames # 0
       /\ Ticked \/ frames >= 1

-----------------------------------------------------------------------------
(* Types *)

\* A scenario's step is one of Steps.
LEMMA StepTyped ==
  ASSUME ScenarioTyped, Scripted, step <= Len(scenario)
  PROVE  StepNow \in Steps
<1>1. scenario \in Seq(Steps) /\ step \in Nat \ {0}
  BY ScriptsAssumption DEF ScenarioTyped, Scripted
<1>2. step \in 1 .. Len(scenario)
  BY <1>1
<1> QED
  BY <1>1, <1>2, ElementOfSeq DEF StepNow

\* What each kind of step asks for.
LEMMA StepAsks ==
  ASSUME ScenarioTyped, Scripted, step <= Len(scenario)
  PROVE  /\ StepNow.op \in {"fly", "wait", "walk"} => StepNow.frames \in 0 .. MaxFrames
         /\ StepNow.op = "settle" => StepNow.min \in Nat
         /\ StepNow.op = "set" => StepNow.movement \in {"walk", "jetpack"}
BY StepTyped DEF Steps

\* A rebuild leaves a chain, and counts its failures.
LEMMA RebuildTyped ==
  ASSUME ChainTyped, NEW size \in Sizes \cup {0}, NEW ok \in BOOLEAN, RebuildSwapchain(size, ok)
  PROVE  /\ chain' \in [live : BOOLEAN, extent : Sizes, targets : Sizes \cup {0}, signals : BOOLEAN]
         /\ faults' \in 0 .. MaxFaults
<1> DEFINE Chain ==
             [live : BOOLEAN, extent : Sizes, targets : Sizes \cup {0}, signals : BOOLEAN]
<1>1. size # 0 => Whole(size) \in Chain
  BY DEF Whole
<1>2. size # 0 => Broken(size) \subseteq Chain
  BY <1>1 DEF Broken, ChainTyped
<1>3. chain' \in Chain
  BY <1>1, <1>2 DEF RebuildSwapchain, ChainTyped
<1>4. faults' \in 0 .. MaxFaults
  BY BoundsAssumption DEF RebuildSwapchain, ChainTyped
<1> QED
  BY <1>3, <1>4

LEMMA TypesStart == Init => TypeInv
<1> SUFFICES ASSUME Init PROVE TypeInv
  OBVIOUS
<1>1. os.size \in Sizes /\ OsTyped
  <2>1. (CHOOSE s \in Sizes : TRUE) \in Sizes
    BY BoundsAssumption
  <2> QED
    BY <2>1, BoundsAssumption DEF Init, OsTyped
<1>2. ChainTyped
  <2>1. older \in BOOLEAN
    BY DEF Init
  <2> QED
    BY <1>1, <2>1, BoundsAssumption DEF Init, ChainTyped
<1>3. UserTyped
  <2>1. window \in [minimized : BOOLEAN, focused : BOOLEAN, looking : BOOLEAN]
    BY DEF Init
  <2>2. movement \in {"walk", "jetpack"}
    BY DEF Init
  <2>3. frozen \in BOOLEAN /\ frozenPose \in BOOLEAN /\ crossed \in BOOLEAN
    BY DEF Init
  <2> QED
    BY <2>1, <2>2, <2>3 DEF UserTyped
<1>4. SceneTyped
  BY DEF Init, SceneTyped
<1>5. ScenarioTyped
  <2>1. started \in BOOLEAN /\ failed \in BOOLEAN /\ disturbed \in BOOLEAN
    BY DEF Init
  <2>2. frames \in 0 .. MaxFrames
    BY BoundsAssumption DEF Init
  <2> QED
    BY <2>1, <2>2 DEF Init, ScenarioTyped
<1> QED
  BY <1>1, <1>2, <1>3, <1>4, <1>5 DEF Init, TypeInv, TypeOK, Phase

\* What an action leaves alone keeps its type.
LEMMA TypesStay ==
  /\ OsTyped /\ UNCHANGED osVars => OsTyped'
  /\ ChainTyped /\ UNCHANGED chainVars => ChainTyped'
  /\ UserTyped /\ UNCHANGED userVars => UserTyped'
  /\ SceneTyped /\ UNCHANGED sceneVars => SceneTyped'
  /\ ScenarioTyped /\ UNCHANGED stepVars => ScenarioTyped'
  /\ \A ops : UNCHANGED stepVars /\ Doing(ops)' => Doing(ops)
<1>1. OsTyped /\ UNCHANGED osVars => OsTyped'
  BY DEF OsTyped, osVars
<1>2. ChainTyped /\ UNCHANGED chainVars => ChainTyped'
  BY DEF ChainTyped, chainVars
<1>3. UserTyped /\ UNCHANGED userVars => UserTyped'
  BY DEF UserTyped, userVars
<1>4. SceneTyped /\ UNCHANGED sceneVars => SceneTyped'
  BY DEF SceneTyped, sceneVars
<1>5. ScenarioTyped /\ UNCHANGED stepVars => ScenarioTyped'
  BY DEF ScenarioTyped, stepVars
<1>6. \A ops : UNCHANGED stepVars /\ Doing(ops)' => Doing(ops)
  BY DEF Doing, stepVars, StepNow, Scripted
<1> QED
  BY <1>1, <1>2, <1>3, <1>4, <1>5, <1>6

\* The window's events change the window alone.
LEMMA TypesOutside == TypeInv /\ Outside => TypeInv'
<1> SUFFICES ASSUME TypeInv, Outside PROVE TypeInv'
  OBVIOUS
<1> DEFINE Window == [size : Sizes \cup {0}, minimized : BOOLEAN, focused : BOOLEAN]
<1> DEFINE Events == {"resized", "minimized", "restored", "focus_gained", "focus_lost",
                      "quit", "freeze", "jetpack"}
<1>1. ASSUME NEW change \in Window, NEW events \in SUBSET Events, Happens(change, events)
      PROVE  TypeInv'
  <2>1. OsTyped
    BY DEF TypeInv, TypeOK
  <2>2. moves' \in 0 .. MaxMoves
    BY <1>1, <2>1, BoundsAssumption DEF Happens, OsTyped
  <2>3. posted' \subseteq Events
    BY <1>1, <2>1 DEF Happens, OsTyped
  <2>4. os' \in Window
    BY <1>1 DEF Happens
  <2>5. OsTyped'
    BY <2>2, <2>3, <2>4 DEF OsTyped
  <2> QED
    BY <1>1, <2>5, TypesStay DEF Happens, TypeInv, TypeOK, stepVars
<1>2. os \in Window
  BY DEF TypeInv, TypeOK, OsTyped
<1>3. CASE \E size \in Sizes \cup {0} : Resize(size)
  <2> PICK size \in Sizes \cup {0} : Resize(size)
    BY <1>3
  <2>1. [os EXCEPT !.size = size] \in Window
    BY <1>2
  <2> HIDE DEF Window
  <2> QED
    BY <1>1, <2>1 DEF Resize
<1>4. CASE Minimize \/ Restore
  <2>1. [os EXCEPT !.minimized = TRUE] \in Window /\ [os EXCEPT !.minimized = FALSE] \in Window
    BY <1>2
  <2> HIDE DEF Window
  <2> QED
    BY <1>1, <1>4, <2>1 DEF Minimize, Restore
<1>5. CASE \E gains \in BOOLEAN : Focus(gains)
  <2> PICK gains \in BOOLEAN : Focus(gains)
    BY <1>5
  <2>1. [os EXCEPT !.focused = gains] \in Window
    BY <1>2
  <2> HIDE DEF Window
  <2> QED
    BY <1>1, <2>1 DEF Focus
<1>6. CASE \E key \in {"quit", "freeze", "jetpack"} : Press(key)
  BY <1>1, <1>2, <1>6 DEF Press
<1> QED
  BY <1>3, <1>4, <1>5, <1>6 DEF Outside

\* The top of the loop.
LEMMA TypesPoll == TypeInv /\ (Quit \/ Poll \/ Wake) => TypeInv'
<1> SUFFICES ASSUME TypeInv, Quit \/ Poll \/ Wake PROVE TypeInv'
  OBVIOUS
<1> USE DEF TypeInv, TypeOK, Phase
<1>1. CASE Quit
  <2>1. OsTyped'
    BY <1>1 DEF Quit, OsTyped
  <2> QED
    BY <1>1, <2>1, TypesStay DEF Quit
<1>2. CASE Poll
  <2>1. OsTyped'
    BY <1>2 DEF Poll, OsTyped
  <2>2. ChainTyped'
    <3>1. CASE UNCHANGED chainVars
      BY <3>1, TypesStay
    <3>2. CASE \E ok \in BOOLEAN : RebuildSwapchain(os.size, ok)
      <4>1. os.size \in Sizes \cup {0}
        BY DEF OsTyped
      <4>2. history' \in 0 .. JitterCount
        BY <1>2, BoundsAssumption DEF Poll, ChainTyped, chainVars
      <4>3. older' \in BOOLEAN
        BY <1>2 DEF Poll, ChainTyped, chainVars
      <4> QED
        BY <3>2, <4>1, <4>2, <4>3, RebuildTyped DEF ChainTyped
    <3> QED
      BY <1>2, <3>1, <3>2 DEF Poll
  <2>3. UserTyped'
    <3>1. FocusedAfter \in BOOLEAN
      BY DEF FocusedAfter, UserTyped
    <3>2. MinimizedAfter \in BOOLEAN
      BY DEF MinimizedAfter, UserTyped, OsTyped
    <3>3. window' \in [minimized : BOOLEAN, focused : BOOLEAN, looking : BOOLEAN]
      BY <1>2, <3>1, <3>2 DEF Poll, UserTyped
    <3>4. PoseAfter \in BOOLEAN
      BY DEF PoseAfter, UserTyped
    <3>5. crossed' \in BOOLEAN
      BY <1>2 DEF Poll, UserTyped
    <3> QED
      BY <1>2, <3>3, <3>4, <3>5 DEF Poll, Keys, UserTyped
  <2>4. ScenarioTyped'
    BY <1>2 DEF Poll, ScenarioTyped, chainVars, Scripted
  <2>5. SceneTyped'
    BY <1>2, TypesStay DEF Poll
  <2> QED
    BY <1>2, <2>1, <2>2, <2>3, <2>4, <2>5 DEF Poll
<1>3. CASE Wake
  BY <1>3, TypesStay DEF Wake
<1> QED
  BY <1>1, <1>2, <1>3

\* The steps of a scenario.
LEMMA TypesTick == TypeInv /\ Tick => TypeInv'
<1> SUFFICES ASSUME TypeInv, Tick PROVE TypeInv'
  OBVIOUS
<1> USE DEF TypeInv, TypeOK, Phase
<1>0. ScenarioTyped /\ UserTyped /\ SceneTyped
  OBVIOUS
<1>1. CASE TickDone
  <2>1. UserTyped'
    <3>1. FrozenAfter(StepNow) \in BOOLEAN
      BY DEF FrozenAfter, UserTyped
    <3>2. MovementAfter(StepNow) \in {"walk", "jetpack"}
      BY <1>0, <1>1, StepAsks DEF MovementAfter, UserTyped, TickDone
    <3> QED
      BY <1>1, <3>1, <3>2 DEF TickDone, Apply, UserTyped
  <2>2. SceneTyped'
    BY <1>1 DEF TickDone, Apply, BusyAfter, CameraAfter, SceneTyped, Part
  <2>3. ScenarioTyped'
    <3>1. started' \in BOOLEAN /\ disturbed' \in BOOLEAN
      BY <1>1 DEF TickDone
    <3>2. frames' \in 0 .. MaxFrames
      BY <1>1, BoundsAssumption DEF TickDone
    <3> QED
      BY <1>1, <3>1, <3>2 DEF TickDone, ScenarioTyped
  <2>4. ChainTyped'
    <3>1. older' \in BOOLEAN
      BY <1>1 DEF TickDone
    <3> QED
      BY <1>1, <3>1 DEF TickDone, ChainTyped
  <2> QED
    BY <1>1, <2>1, <2>2, <2>3, <2>4, TypesStay DEF TickDone
<1>2. CASE TickFailed
  <2>1. scenario \in Seq(Steps)
    BY <1>2, ScriptsAssumption DEF TickFailed, Scripted, ScenarioTyped
  <2>2. Len(scenario) + 1 \in Nat \ {0}
    BY <2>1
  <2>3. ScenarioTyped'
    BY <1>2, <2>2 DEF TickFailed, ScenarioTyped
  <2> QED
    BY <1>2, <2>3, TypesStay DEF TickFailed
<1>3. CASE TickRunning
  <2>1. FramesNow \in 0 .. MaxFrames
    BY BoundsAssumption DEF FramesNow, ScenarioTyped
  <2>2. StepNow.op = "walk" => LeftNow(StepNow) \in Nat \ {0}
    <3>1. LeftNow(StepNow) \in Nat \/ StepNow.op # "walk"
      BY <1>0, <1>3, StepAsks, BoundsAssumption DEF LeftNow, ScenarioTyped, TickRunning
    <3> QED
      BY <1>3, <3>1 DEF TickRunning, StepDone, StepFails, UserTyped
  <2>3. moved' \in Nat
    BY <1>3 DEF TickRunning, MovedAgain, ScenarioTyped
  <2>4. started' \in BOOLEAN /\ disturbed' \in BOOLEAN
    BY <1>3 DEF TickRunning, ScenarioTyped
  <2>5. left' \in Nat /\ frames' \in 0 .. MaxFrames
    BY <1>3, <2>1, <2>2 DEF TickRunning
  <2>6. ScenarioTyped'
    BY <1>3, <2>3, <2>4, <2>5 DEF TickRunning, ScenarioTyped
  <2>7. ChainTyped'
    BY <1>3, BoundsAssumption DEF TickRunning, ChainTyped
  <2>8. SceneTyped'
    BY <1>3 DEF TickRunning, SceneTyped
  <2>9. capturing' \in BOOLEAN
    BY <1>3 DEF TickRunning
  <2>10. Doing({"walk"})' => left' # 0
    BY <1>3, <2>2 DEF TickRunning, Doing, StepNow
  <2> QED
    BY <1>3, <2>6, <2>7, <2>8, <2>9, <2>10, TypesStay DEF TickRunning
<1>4. CASE TickInteractive
  <2>0. started' \in BOOLEAN
    BY <1>4 DEF TickInteractive
  <2>1. ScenarioTyped'
    BY <1>4, <2>0 DEF TickInteractive, ScenarioTyped
  <2>2. ~Scripted'
    BY <1>4 DEF TickInteractive, Scripted
  <2> QED
    BY <1>4, <2>1, <2>2, TypesStay DEF TickInteractive, Doing
<1>5. CASE TickEnds
  BY <1>5, TypesStay DEF TickEnds
<1>6. CASE TickUser
  <2>1. PICK alt \in BOOLEAN : window' = [window EXCEPT !.looking = Looks(alt)]
    BY <1>6 DEF TickUser
  <2>2. Looks(alt) \in BOOLEAN
    BY DEF Looks, UserTyped
  <2>3. window' \in [minimized : BOOLEAN, focused : BOOLEAN, looking : BOOLEAN]
    BY <2>1, <2>2 DEF UserTyped
  <2>4. UserTyped'
    BY <1>6, <2>3 DEF TickUser, UserTyped
  <2>5. SceneTyped'
    BY <1>6 DEF TickUser, SceneTyped
  <2>6. ~Scripted'
    BY <1>6 DEF TickUser, Scripted, stepVars
  <2> QED
    BY <1>6, <2>4, <2>5, <2>6, TypesStay DEF TickUser, Doing
<1> QED
  BY <1>1, <1>2, <1>3, <1>4, <1>5, <1>6 DEF Tick

\* The rest of the frame.
LEMMA TypesFrame == TypeInv /\ (Updates \/ Draw) => TypeInv'
<1> SUFFICES ASSUME TypeInv, Updates \/ Draw PROVE TypeInv'
  OBVIOUS
<1> USE DEF TypeInv, TypeOK, Phase
<1>1. ASSUME NEW done \in SUBSET Part, NEW steps \in {0, 1}, Update(done, steps)
      PROVE  TypeInv'
  <2>1. pose' \in {"moved", "composed", "seen"}
    BY <1>1 DEF Update, Composed, PoseSeen, SceneTyped
  <2>2. busy' \subseteq Part
    BY <1>1 DEF Update, SceneTyped, Part
  <2>3. left' \in Nat
    BY <1>1 DEF Update, ScenarioTyped, Doing
  <2>4. moved' \in Nat
    BY <1>1 DEF Update, ScenarioTyped, MovedAgain
  <2>5. ScenarioTyped'
    BY <1>1, <2>3, <2>4 DEF Update, ScenarioTyped
  <2> QED
    BY <1>1, <2>1, <2>2, <2>5, TypesStay DEF Update, SceneTyped
<1>2. CASE DrawOk
  <2>1. history' \in 0 .. JitterCount
    BY <1>2, BoundsAssumption DEF DrawOk, Recorded, ChainTyped
  <2>2. /\ faults' \in 0 .. MaxFaults /\ frames' \in 0 .. MaxFrames
        /\ started' \in BOOLEAN /\ failed' \in BOOLEAN /\ disturbed' \in BOOLEAN
    <3>1. faults' \in 0 .. MaxFaults /\ frames' \in 0 .. MaxFrames
      BY <1>2, BoundsAssumption DEF DrawOk, FinishCapture, StepSawFrame, ChainTyped, ScenarioTyped
    <3>2. started' \in BOOLEAN /\ failed' \in BOOLEAN /\ disturbed' \in BOOLEAN
      BY <1>2 DEF DrawOk, FinishCapture, StepSawFrame, ScenarioTyped
    <3> QED
      BY <3>1, <3>2
  <2>3. step' \in Nat \ {0} /\ written' \subseteq Nat
    <3>1. Scripted => scenario \in Seq(Steps)
      BY ScriptsAssumption DEF Scripted, ScenarioTyped
    <3>2. Scripted => Len(scenario) + 1 \in Nat \ {0}
      BY <3>1
    <3>3. step' \in {step, step + 1, Len(scenario) + 1} /\ written' \subseteq written \cup {step}
      BY <1>2 DEF DrawOk, FinishCapture, StepSawFrame
    <3>5. ~Scripted => step' = step
      BY <1>2 DEF DrawOk
    <3> QED
      BY <3>2, <3>3, <3>5 DEF ScenarioTyped
  <2>4. older' \in BOOLEAN
    BY <1>2 DEF DrawOk, FinishCapture, StepSawFrame, ChainTyped
  <2>5. ChainTyped' /\ ScenarioTyped'
    BY <1>2, <2>1, <2>2, <2>3, <2>4 DEF DrawOk, ChainTyped, ScenarioTyped
  <2> QED
    BY <1>2, <2>5, TypesStay DEF DrawOk
<1>3. CASE DrawOutOfDate
  <2>1. ChainTyped'
    <3>1. os.size \in Sizes \cup {0}
      BY DEF OsTyped
    <3>2. history' \in 0 .. JitterCount
      BY <1>3, BoundsAssumption DEF DrawOutOfDate, Recorded, ChainTyped
    <3> QED
      BY <1>3, <3>1, <3>2, RebuildTyped DEF ChainTyped, DrawOutOfDate
  <2>2. OsTyped'
    BY <1>3, BoundsAssumption DEF DrawOutOfDate, OsTyped
  <2>3. ScenarioTyped'
    BY <1>3 DEF DrawOutOfDate, ScenarioTyped, Scripted
  <2> QED
    BY <1>3, <2>1, <2>2, <2>3, TypesStay DEF DrawOutOfDate
<1>4. CASE DrawError
  <2>1. ChainTyped'
    BY <1>4, BoundsAssumption DEF DrawError, ChainTyped
  <2> QED
    BY <1>4, <2>1, TypesStay DEF DrawError
<1>5. CASE DrawUndefined
  BY <1>5, TypesStay DEF DrawUndefined
<1> QED
  BY <1>1, <1>2, <1>3, <1>4, <1>5 DEF Updates, Draw

LEMMA TypesStep == TypeInv /\ [Next]_vars => TypeInv'
<1>1. TypeInv /\ UNCHANGED vars => TypeInv'
  BY TypesStay DEF TypeInv, TypeOK, vars, stepVars
<1> QED
  BY <1>1, TypesOutside, TypesPoll, TypesTick, TypesFrame DEF Next, Loop

LEMMA TypesHold == Spec => []TypeInv
BY TypesStart, TypesStep, PTL DEF Spec

-----------------------------------------------------------------------------
(* The swapchain and what follows it *)

\* A rebuild that fails is counted, or leaves everything alone.
LEMMA RebuildIsWhole ==
  ASSUME TypeOK, faults = 0 => Drawable, NEW size \in Sizes \cup {0}, NEW ok \in BOOLEAN,
         RebuildSwapchain(size, ok)
  PROVE  faults' = 0 => Drawable'
<1>1. CASE chain' = Whole(size)
  BY <1>1 DEF Whole, Drawable
<1>2. CASE UNCHANGED <<chain, faults>>
  BY <1>2 DEF Drawable
<1>3. CASE faults' = faults + 1
  BY <1>3 DEF TypeOK, ChainTyped
<1> QED
  BY <1>1, <1>2, <1>3 DEF RebuildSwapchain

LEMMA WholeStep == TypeInv /\ WholeInv /\ [Next]_vars => WholeInv'
<1> SUFFICES ASSUME TypeInv, WholeInv, [Next]_vars PROVE WholeInv'
  OBVIOUS
<1>0. TypeOK /\ os.size \in Sizes \cup {0} /\ faults \in Nat
  BY DEF TypeInv, TypeOK, OsTyped, ChainTyped
<1>1. CASE UNCHANGED <<chain, faults>> /\ (phase' # "crashed" \/ UNCHANGED phase)
  BY <1>1 DEF WholeInv, Drawable
<1>2. CASE Poll
  <2>1. phase' # "crashed"
    BY <1>2 DEF Poll
  <2>2. CASE UNCHANGED chainVars
    BY <2>1, <2>2, <1>1 DEF chainVars
  <2>3. CASE \E ok \in BOOLEAN : RebuildSwapchain(os.size, ok)
    BY <2>1, <2>3, <1>0, RebuildIsWhole DEF WholeInv
  <2> QED
    BY <1>2, <2>2, <2>3 DEF Poll
<1>3. CASE TickRunning
  BY <1>3 DEF TickRunning, WholeInv, Drawable
<1>4. CASE DrawOk
  BY <1>0, <1>4 DEF DrawOk, WholeInv, Drawable
<1>5. CASE DrawOutOfDate
  <2>1. phase' # "crashed"
    BY <1>5 DEF DrawOutOfDate
  <2> QED
    BY <2>1, <1>0, <1>5, RebuildIsWhole DEF WholeInv, DrawOutOfDate
<1>6. CASE DrawError
  BY <1>0, <1>6 DEF DrawError, WholeInv
<1>7. CASE DrawUndefined
  BY <1>7 DEF DrawUndefined, WholeInv, chainVars
<1> QED
  <2>1. Outside \/ Quit \/ Wake \/ UNCHANGED vars =>
          UNCHANGED <<chain, faults>> /\ (phase' # "crashed" \/ UNCHANGED phase)
    BY DEF Outside, Resize, Minimize, Restore, Focus, Press, Happens, Quit, Wake, vars, chainVars
  <2>2. Tick => TickRunning \/ (UNCHANGED <<chain, faults>> /\ phase' # "crashed")
    BY DEF Tick, TickDone, TickFailed, TickInteractive, TickEnds, TickUser, chainVars
  <2>3. Updates => UNCHANGED <<chain, faults>> /\ phase' # "crashed"
    BY DEF Updates, Update, chainVars
  <2> QED
    BY <1>1, <1>2, <1>3, <1>4, <1>5, <1>6, <1>7, <2>1, <2>2, <2>3 DEF Next, Loop, Draw

\* A rebuild that succeeds has the size it was asked for; one that fails is
\* counted, unless there was no size to ask for.
LEMMA RebuildFits ==
  ASSUME TypeOK, NEW size \in Sizes \cup {0}, NEW ok \in BOOLEAN, RebuildSwapchain(size, ok)
  PROVE  faults' # 0 \/ (ok /\ chain'.extent = size) \/ size = 0
<1>1. faults \in Nat
  BY DEF TypeOK, ChainTyped
<1> QED
  BY <1>1 DEF RebuildSwapchain, Whole

\* The poll reads the resizes: it rebuilds for them, or finds the window without
\* a size, or minimized, in which case restoring it is to come.
LEMMA ResizePoll == TypeInv /\ ResizeInv /\ Poll => ResizeInv'
<1> SUFFICES ASSUME TypeInv, ResizeInv, Poll PROVE ResizeInv'
  OBVIOUS
<1>1. phase = "poll" /\ posted' = {} /\ UNCHANGED os
  BY DEF Poll
<1>2. window'.minimized = MinimizedAfter
  BY DEF Poll, TypeInv, TypeOK, UserTyped
<1>3. MinimizedAfter => os.minimized
  BY <1>1 DEF MinimizedAfter, ResizeInv
<1>4. phase' \in {"tick", "update", "draw"} => ~window'.minimized
  BY <1>2 DEF Poll
<1>5. ASSUME faults' = 0, ~MinimizedAfter PROVE os.size = 0 \/ chain'.extent = os.size
  <2>1. CASE UNCHANGED chainVars /\ ~(Resized /\ os.size # chain.extent)
    <3>1. CASE Resized
      BY <2>1, <3>1 DEF chainVars
    <3>2. CASE ~Resized
      <4>1. ~(window.minimized /\ os.minimized)
        BY <1>5, <3>2 DEF MinimizedAfter
      <4> QED
        BY <1>1, <1>5, <2>1, <3>2, <4>1 DEF ResizeInv, chainVars
    <3> QED
      BY <3>1, <3>2
  <2>2. CASE \E ok \in BOOLEAN : RebuildSwapchain(os.size, ok)
    <3>1. os.size \in Sizes \cup {0} /\ TypeOK
      BY DEF TypeInv, TypeOK, OsTyped
    <3> QED
      BY <1>5, <2>2, <3>1, RebuildFits
  <2> QED
    BY <1>5, <2>1, <2>2 DEF Poll
<1> QED
  BY <1>1, <1>2, <1>3, <1>4, <1>5 DEF ResizeInv

LEMMA ResizeStep == TypeInv /\ ResizeInv /\ [Next]_vars => ResizeInv'
<1> SUFFICES ASSUME TypeInv, ResizeInv, [Next]_vars PROVE ResizeInv'
  OBVIOUS
<1>0. /\ os \in [size : Sizes \cup {0}, minimized : BOOLEAN, focused : BOOLEAN]
      /\ TypeOK /\ faults \in Nat /\ os.size \in Sizes \cup {0}
  BY DEF TypeInv, TypeOK, OsTyped, ChainTyped
<1>1. ASSUME UNCHANGED <<os, posted, chain, faults>>, window'.minimized = window.minimized,
             phase' \in {"tick", "update", "draw"} => phase \in {"tick", "update", "draw"},
             phase' # "ended" => phase # "ended"
      PROVE  ResizeInv'
  BY <1>1 DEF ResizeInv, Resized
<1>2. CASE Outside
  <2>1. UNCHANGED <<chain, faults, window, phase>> /\ phase # "ended"
    BY <1>2 DEF Outside, Stopped, Resize, Minimize, Restore, Focus, Press, Happens, chainVars, userVars
  <2>2. ASSUME NEW size \in Sizes \cup {0}, Resize(size) PROVE ResizeInv'
    <3>1. os'.minimized = os.minimized /\ posted' = posted \cup {"resized"}
      BY <1>0, <2>2 DEF Resize, Happens
    <3> QED
      BY <2>1, <3>1 DEF ResizeInv, Resized
  <2>3. CASE Minimize
    <3>1. os'.minimized /\ os'.size = os.size /\ posted' = posted \cup {"minimized"} /\ ~os.minimized
      BY <1>0, <2>3 DEF Minimize, Happens
    <3> QED
      BY <2>1, <3>1 DEF ResizeInv, Resized
  <2>4. CASE Restore
    <3>1. posted' = posted \cup {"restored"}
      BY <2>4 DEF Restore, Happens
    <3> QED
      BY <2>1, <3>1 DEF ResizeInv, Resized
  <2>5. ASSUME NEW gains \in BOOLEAN, Focus(gains) PROVE ResizeInv'
    <3>1. /\ os'.minimized = os.minimized /\ os'.size = os.size
          /\ posted' \in {posted \cup {"focus_gained"}, posted \cup {"focus_lost"}}
      BY <1>0, <2>5 DEF Focus, Happens
    <3> QED
      BY <2>1, <3>1 DEF ResizeInv, Resized
  <2>6. ASSUME NEW key \in {"quit", "freeze", "jetpack"}, Press(key) PROVE ResizeInv'
    <3>1. os' = os /\ posted' = posted \cup {key}
      BY <2>6 DEF Press, Happens
    <3> QED
      BY <2>1, <3>1 DEF ResizeInv, Resized
  <2> QED
    BY <1>2, <2>2, <2>3, <2>4, <2>5, <2>6 DEF Outside
<1>3. CASE Quit
  BY <1>3 DEF Quit, ResizeInv
<1>4. CASE Poll
  BY <1>4, ResizePoll
<1>5. CASE DrawOutOfDate
  <2>1. /\ UNCHANGED <<os, posted, window>> /\ phase = "draw" /\ phase' = "poll"
        /\ \E ok \in BOOLEAN : RebuildSwapchain(os.size, ok)
    BY <1>5 DEF DrawOutOfDate, userVars
  <2>2. faults' # 0 \/ os.size = 0 \/ chain'.extent = os.size
    BY <1>0, <2>1, RebuildFits
  <2> QED
    BY <2>1, <2>2 DEF ResizeInv
<1>6. CASE DrawOk
  <2>1. faults' = 0 => faults = 0
    BY <1>0, <1>6 DEF DrawOk, FinishCapture, StepSawFrame
  <2> QED
    BY <1>6, <2>1 DEF DrawOk, ResizeInv, Resized, osVars, userVars
<1>7. CASE TickUser
  <2>1. window'.minimized = window.minimized
    BY <1>7 DEF TickUser, TypeInv, TypeOK, UserTyped
  <2> QED
    BY <1>1, <1>7, <2>1 DEF TickUser, osVars, chainVars
<1> QED
  <2>1. Wake \/ TickDone \/ TickFailed \/ TickRunning \/ TickInteractive \/ UNCHANGED vars => ResizeInv'
    BY <1>1 DEF Wake, TickDone, TickFailed, TickRunning, TickInteractive, vars, osVars, chainVars, userVars
  <2>2. Updates => ResizeInv'
    BY <1>1 DEF Updates, Update, osVars, chainVars, userVars
  <2>3. TickEnds \/ DrawError => ResizeInv'
    BY DEF TickEnds, DrawError, ResizeInv
  <2>4. DrawUndefined => ResizeInv'
    BY <1>1 DEF DrawUndefined, osVars, chainVars, userVars
  <2> QED
    BY <1>2, <1>3, <1>4, <1>5, <1>6, <1>7, <2>1, <2>2, <2>3, <2>4 DEF Next, Loop, Tick, Draw

\* However the window is resized, minimized and restored, and whatever the driver
\* says of the swapchain, a frame is drawn only on a chain, targets and
\* semaphores that were made for it, and no change of the window's size is lost,
\* as long as what builds them succeeds.
THEOREM ChainIsWhole == Spec => []ChainFollowsTheWindow
<1>1. Init => WholeInv /\ ResizeInv
  BY DEF Init, WholeInv, Drawable, ResizeInv
<1>2. WholeInv => DrawsAWholeChain
  BY DEF WholeInv, DrawsAWholeChain
<1>3. ResizeInv => NoResizeIsLost
  BY DEF ResizeInv, NoResizeIsLost, Resized
<1> QED
  BY <1>1, <1>2, <1>3, WholeStep, ResizeStep, TypesHold, PTL DEF Spec, ChainFollowsTheWindow

-----------------------------------------------------------------------------
(* The window's events *)

LEMMA EventsStep == TypeInv /\ EventsInv /\ [Next]_vars => EventsInv'
<1> SUFFICES ASSUME TypeInv, EventsInv, [Next]_vars PROVE EventsInv'
  OBVIOUS
<1> USE DEF EventsInv, EventsAreHeeded, FrozenPoseIsFrozen, FocusIsNotMissed, MouseIsLetGo
<1> DEFINE Goes == /\ ~(phase = "ended" /\ phase' # "ended")
                   /\ phase' \in {"update", "draw"} => phase \in {"update", "draw"} \/ Scripted
<1>1. CASE UNCHANGED <<osVars, userVars, scenario>> /\ Goes
  BY <1>1 DEF osVars, userVars, Scripted
<1>2. CASE Outside
  <2>1. UNCHANGED <<userVars, scenario, phase>>
    BY <1>2 DEF Outside, Resize, Minimize, Restore, Focus, Press, Happens, stepVars
  <2>2. ASSUME NEW gains \in BOOLEAN, Focus(gains) PROVE EventsInv'
    <3>1. os'.focused = gains /\ os.focused # gains
      BY <2>2 DEF Focus, Happens, TypeInv, TypeOK, OsTyped
    <3>2. CASE gains
      <4>1. posted' = posted \cup {"focus_gained"}
        BY <2>2, <3>2 DEF Focus, Happens
      <4> QED
        BY <2>1, <3>1, <3>2, <4>1 DEF userVars, Scripted, FocusEvents
    <3>3. CASE ~gains
      <4>1. posted' = posted \cup {"focus_lost"}
        BY <2>2, <3>3 DEF Focus, Happens
      <4> QED
        BY <2>1, <3>1, <3>3, <4>1 DEF userVars, Scripted, FocusEvents
    <3> QED
      BY <3>2, <3>3
  <2>3. ASSUME NEW size, Resize(size) PROVE EventsInv'
    <3>1. os'.focused = os.focused
      BY <2>3 DEF Resize, Happens, TypeInv, TypeOK, OsTyped
    <3> QED
      BY <2>1, <2>3, <3>1 DEF Resize, Happens, userVars, Scripted, FocusEvents
  <2>4. CASE Minimize \/ Restore
    <3>1. os'.focused = os.focused
      BY <2>4 DEF Minimize, Restore, Happens, TypeInv, TypeOK, OsTyped
    <3> QED
      BY <2>1, <2>4, <3>1 DEF Minimize, Restore, Happens, userVars, Scripted, FocusEvents
  <2>5. ASSUME NEW key \in {"quit", "freeze", "jetpack"}, Press(key) PROVE EventsInv'
    BY <2>1, <2>5 DEF Press, Happens, userVars, Scripted, FocusEvents
  <2> QED
    BY <1>2, <2>2, <2>3, <2>4, <2>5 DEF Outside
<1>3. CASE Quit
  BY <1>3 DEF Quit, userVars, stepVars, Scripted
<1>4. CASE Poll
  <2>1. window'.focused = FocusedAfter
    BY <1>4 DEF Poll, TypeInv, TypeOK, UserTyped
  <2>2. UNCHANGED os /\ posted' = {} /\ phase = "poll" /\ phase' \in {"poll", "tick", "waiting"}
    BY <1>4 DEF Poll
  <2>4. FocusIsNotMissed'
    BY <2>1, <2>2 DEF FocusedAfter, FocusEvents
  <2>5. window'.focused /\ ~crossed' => os.focused
    <3>1. CASE posted \cap FocusEvents = {}
      <4>1. crossed' = crossed
        BY <1>4, <3>1 DEF Poll
      <4> QED
        BY <2>1, <2>2, <3>1, <4>1 DEF FocusedAfter, FocusEvents
    <3>2. CASE posted \cap FocusEvents # {}
      <4>1. crossed' = (FocusEvents \subseteq posted)
        BY <1>4, <3>2 DEF Poll
      <4>2. CASE "focus_gained" \in posted /\ "focus_lost" \in posted
        BY <4>1, <4>2 DEF FocusEvents
      <4>3. CASE "focus_gained" \in posted /\ "focus_lost" \notin posted
        BY <4>3
      <4>4. CASE "focus_gained" \notin posted
        BY <2>1, <3>2, <4>4 DEF FocusedAfter, FocusEvents
      <4> QED
        BY <4>2, <4>3, <4>4
    <3> QED
      BY <3>1, <3>2
  <2>6. window'.looking = window.looking /\ Scripted' = Scripted
    BY <1>4 DEF Poll, TypeInv, TypeOK, UserTyped, Scripted
  <2>3. FrozenPoseIsFrozen' /\ (Scripted' => ~frozenPose')
    BY <1>4 DEF Poll, Keys, PoseAfter, Scripted, TypeInv, TypeOK, UserTyped
  <2> QED
    BY <2>2, <2>3, <2>4, <2>5, <2>6
<1>5. CASE TickDone
  BY <1>5 DEF TickDone, osVars, Scripted
<1>6. CASE TickInteractive
  BY <1>6 DEF TickInteractive, osVars, userVars, Scripted
<1>7. CASE TickUser
  <2>1. window'.focused = window.focused /\ (window'.looking => window'.focused)
    BY <1>7 DEF TickUser, Looks, TypeInv, TypeOK, UserTyped
  <2> QED
    BY <1>7, <2>1 DEF TickUser, osVars, stepVars, Scripted
<1>8. CASE DrawOutOfDate
  BY <1>8 DEF DrawOutOfDate, userVars, Scripted
<1> QED
  <2>1. TickFailed \/ TickRunning \/ TickEnds =>
           UNCHANGED <<osVars, userVars, scenario>> /\ Goes
    BY DEF TickFailed, TickRunning, TickEnds, stepVars
  <2>2. Updates \/ Wake \/ UNCHANGED vars =>
           UNCHANGED <<osVars, userVars, scenario>> /\ Goes
    BY DEF Updates, Update, Wake, vars, stepVars
  <2>3. DrawOk \/ DrawError \/ DrawUndefined =>
           UNCHANGED <<osVars, userVars, scenario>> /\ Goes
    BY DEF DrawOk, DrawError, DrawUndefined, stepVars
  <2> QED
    BY <1>1, <1>2, <1>3, <1>4, <1>5, <1>6, <1>7, <1>8, <2>1, <2>2, <2>3 DEF Next, Loop, Tick, Draw

\* Whatever comes in one poll: F3 never places the camera for a terrain that is
\* not frozen, and a window that has the focus is not taken for one that lost it.
\* Nor does the mouse turn the camera of a window without the focus, unless the
\* poll that read of its loss read of a gain as well, which hides it.
THEOREM EventsAreAlwaysHeeded == Spec => []EventsAreHeeded
<1>1. Init => EventsInv
  BY DEF Init, EventsInv, EventsAreHeeded, FrozenPoseIsFrozen, FocusIsNotMissed, MouseIsLetGo, FocusEvents
<1>2. EventsInv => EventsAreHeeded
  BY DEF EventsInv
<1> QED
  BY <1>1, <1>2, EventsStep, TypesHold, PTL DEF Spec

-----------------------------------------------------------------------------
(* Captures *)

\* Nothing here happens to the step: the rest of the frame, or of the loop.
LEMMA CaptureStays ==
  ASSUME TypeInv, CaptureInv, UNCHANGED <<scenario, step, started, frames>>,
         UNCHANGED <<history, disturbed>> \/ disturbed' \/ ~Scripted, older' => older,
         capturing' => capturing /\ phase' \in {"update", "draw", "crashed"}
  PROVE  CaptureInv'
BY DEF CaptureInv, Doing, StepNow, Scripted

LEMMA CaptureTick == TypeInv /\ CaptureInv /\ Tick => CaptureInv'
<1> SUFFICES ASSUME TypeInv, CaptureInv, Tick PROVE CaptureInv'
  OBVIOUS
<1>0. ~capturing
  BY DEF CaptureInv, Tick, TickDone, TickFailed, TickRunning, TickInteractive, TickEnds, TickUser
<1>1. CASE TickDone
  BY <1>0, <1>1 DEF TickDone, CaptureInv
<1>2. CASE TickFailed
  <2>1. scenario \in Seq(Steps)
    BY <1>2, ScriptsAssumption DEF TickFailed, Scripted, TypeInv, TypeOK, ScenarioTyped
  <2>2. ~(step' <= Len(scenario'))
    BY <1>2, <2>1 DEF TickFailed
  <2> QED
    BY <1>0, <1>2, <2>2 DEF TickFailed, CaptureInv, Doing
<1>3. CASE TickRunning
  <2>1. UNCHANGED <<scenario, step>> /\ StepNow' = StepNow /\ Scripted' = Scripted
    BY <1>3 DEF TickRunning, StepNow, Scripted
  <2>2. frames' = FramesNow /\ FramesNow \in Nat /\ JitterCount \in Nat /\ history \in Nat
    BY <1>3, BoundsAssumption DEF TickRunning, FramesNow, TypeInv, TypeOK, ScenarioTyped, ChainTyped
  <2>3. Doing({Capture})' /\ ~disturbed' => history' >= frames' \/ history' >= JitterCount
    <3> SUFFICES ASSUME Doing({Capture})', ~disturbed' PROVE history' >= frames' \/ history' >= JitterCount
      OBVIOUS
    <3>1. Doing({Capture})
      BY <2>1 DEF Doing
    <3>2. CASE FramesNow = 0
      BY <1>3, <2>2, <3>1, <3>2 DEF TickRunning, Doing
    <3>3. CASE FramesNow # 0
      BY <1>3, <2>2, <3>1, <3>3 DEF TickRunning, FramesNow, CaptureInv
    <3> QED
      BY <3>2, <3>3
  <2>4. capturing' => Doing({Capture})' /\ started' /\ frames' >= JitterCount /\ phase' = "update"
    BY <1>3, <2>1, <2>2 DEF TickRunning, Doing, SettleFrames
  <2>5. Doing({Capture})' => ~older'
    <3> SUFFICES ASSUME Doing({Capture})' PROVE ~older'
      OBVIOUS
    <3>1. Doing({Capture}) /\ StepNow.op = Capture
      BY <2>1 DEF Doing
    <3>2. started => ~older
      BY <3>1 DEF CaptureInv
    <3> QED
      BY <1>3, <3>1, <3>2 DEF TickRunning, FramesNow
  <2> QED
    BY <2>3, <2>4, <2>5 DEF CaptureInv
<1>4. CASE TickInteractive
  BY <1>4 DEF TickInteractive, CaptureInv, Doing, Scripted
<1>5. CASE TickEnds
  BY <1>0, <1>5, CaptureStays DEF TickEnds, stepVars, chainVars
<1>6. CASE TickUser
  BY <1>0, <1>6, CaptureStays DEF TickUser, stepVars, chainVars
<1> QED
  BY <1>1, <1>2, <1>3, <1>4, <1>5, <1>6 DEF Tick

\* A frame that is drawn is one more in the history; one that is lost disturbs.
LEMMA CaptureDraw == TypeInv /\ CaptureInv /\ Draw => CaptureInv'
<1> SUFFICES ASSUME TypeInv, CaptureInv, Draw PROVE CaptureInv'
  OBVIOUS
<1>1. CASE DrawOk
  <2>0. ~capturing'
    BY <1>1 DEF DrawOk
  <2>1. CASE Scripted /\ started /\ capturing
    <3>1. CASE ~started'
      BY <2>0, <3>1 DEF CaptureInv
    <3>2. CASE step' = Len(scenario) + 1
      <4>1. scenario \in Seq(Steps)
        BY <2>1, ScriptsAssumption DEF Scripted, TypeInv, TypeOK, ScenarioTyped
      <4>2. ~(step' <= Len(scenario'))
        BY <1>1, <3>2, <4>1 DEF DrawOk
      <4> QED
        BY <2>0, <4>2 DEF CaptureInv, Doing
    <3> QED
      BY <1>1, <2>1, <3>1, <3>2 DEF DrawOk, FinishCapture
  <2>2. CASE Scripted /\ started /\ ~capturing
    <3>1. UNCHANGED <<scenario, step, started, disturbed>>
      BY <1>1, <2>2 DEF DrawOk, StepSawFrame
    <3>2. Doing({Capture})' => Doing({Capture})
      BY <3>1 DEF Doing, StepNow, Scripted
    <3>3. frames' <= frames + 1 /\ frames \in Nat /\ history \in Nat /\ JitterCount \in Nat
      BY <1>1, <2>2, BoundsAssumption
      DEF DrawOk, StepSawFrame, TypeInv, TypeOK, ScenarioTyped, ChainTyped
    <3>4. frames' \in Nat /\ history' = Recorded
      BY <1>1, <2>2, <3>3 DEF DrawOk, StepSawFrame
    <3>5. UNCHANGED older
      BY <1>1, <2>2 DEF DrawOk, StepSawFrame
    <3> QED
      BY <2>0, <3>1, <3>2, <3>3, <3>4, <3>5 DEF CaptureInv, Recorded
  <2>3. CASE ~(Scripted /\ started)
    BY <1>1, <2>0, <2>3 DEF DrawOk, CaptureInv, Doing, Scripted
  <2> QED
    BY <2>1, <2>2, <2>3
<1>2. CASE DrawOutOfDate
  BY <1>2, CaptureStays DEF DrawOutOfDate
<1>3. CASE DrawError
  BY <1>3, CaptureStays DEF DrawError, stepVars
<1>4. CASE DrawUndefined
  BY <1>4, CaptureStays DEF DrawUndefined, stepVars, chainVars
<1> QED
  BY <1>1, <1>2, <1>3, <1>4 DEF Draw

LEMMA CaptureStep == TypeInv /\ CaptureInv /\ [Next]_vars => CaptureInv'
<1> SUFFICES ASSUME TypeInv, CaptureInv, [Next]_vars PROVE CaptureInv'
  OBVIOUS
<1>1. CASE Outside \/ UNCHANGED vars
  <2>1. UNCHANGED <<scenario, step, started, frames, history, older, disturbed, capturing, phase>>
    BY <1>1 DEF Outside, Resize, Minimize, Restore, Focus, Press, Happens, vars, stepVars, chainVars
  <2> QED
    BY <2>1, CaptureStays DEF CaptureInv
<1>2. CASE Quit \/ Wake
  <2>1. UNCHANGED <<scenario, step, started, frames, history, older, disturbed, capturing>> /\ ~capturing
    BY <1>2 DEF Quit, Wake, stepVars, chainVars, CaptureInv
  <2> QED
    BY <2>1, CaptureStays
<1>3. CASE Poll
  <2>1. ~capturing
    BY <1>3 DEF Poll, CaptureInv
  <2>2. UNCHANGED <<history, disturbed>> \/ disturbed' \/ ~Scripted
    BY <1>3 DEF Poll, chainVars
  <2>3. UNCHANGED older \/ older' = (older /\ chain' = chain)
    BY <1>3 DEF Poll, chainVars
  <2>4. older' => older
    BY <2>3
  <2> QED
    BY <1>3, <2>1, <2>2, <2>4, CaptureStays DEF Poll
<1>4. CASE Updates
  <2>1. PICK done \in SUBSET Part, steps \in {0, 1} : Update(done, steps)
    BY <1>4 DEF Updates
  <2> QED
    BY <2>1, CaptureStays DEF Update, chainVars
<1> QED
  BY <1>1, <1>2, <1>3, <1>4, CaptureTick, CaptureDraw DEF Next, Loop

\* Captures are written one step after the other, each by the frame that ends it.
LEMMA WrittenStep ==
  TypeInv /\ CaptureInv /\ CapturesAreWritten /\ [Next]_vars => CapturesAreWritten'
<1> SUFFICES ASSUME TypeInv, CaptureInv, CapturesAreWritten, [Next]_vars
             PROVE  CapturesAreWritten'
  OBVIOUS
<1>1. CASE ~Scripted'
  BY <1>1 DEF CapturesAreWritten
<1>2. CASE UNCHANGED <<scenario, step, failed, written>>
  BY <1>2 DEF CapturesAreWritten, CaptureSteps, Scripted
<1>3. ASSUME Scripted, step <= Len(scenario)
      PROVE  /\ scenario \in Seq(Steps) /\ step \in DOMAIN scenario
             /\ CaptureSteps \subseteq Nat
  <2>1. scenario \in Seq(Steps) /\ step \in Nat \ {0}
    BY <1>3, ScriptsAssumption DEF Scripted, TypeInv, TypeOK, ScenarioTyped
  <2>2. DOMAIN scenario = 1 .. Len(scenario) /\ Len(scenario) \in Nat
    BY <2>1
  <2> QED
    BY <1>3, <2>1, <2>2 DEF CaptureSteps
<1>4. CASE TickDone
  <2>1. StepNow.op # Capture
    BY <1>4 DEF TickDone, StepDone, Capture
  <2>2. step \notin CaptureSteps /\ CaptureSteps \subseteq Nat
    BY <1>3, <1>4, <2>1 DEF CaptureSteps, StepNow, TickDone
  <2>3. \A k \in CaptureSteps : k < step + 1 <=> k < step
    BY <2>2 DEF TypeInv, TypeOK, ScenarioTyped
  <2>4. /\ step' = step + 1 /\ UNCHANGED <<scenario, failed, written>>
        /\ CaptureSteps' = CaptureSteps /\ Scripted' = Scripted
    BY <1>4 DEF TickDone, CaptureSteps, Scripted
  <2> QED
    BY <2>3, <2>4 DEF CapturesAreWritten
<1>5. CASE TickFailed
  BY <1>5 DEF TickFailed, CapturesAreWritten, CaptureSteps, Scripted
<1>6. CASE DrawOk /\ Scripted /\ started /\ capturing
  <2>1. Doing({Capture})
    BY <1>6 DEF CaptureInv
  <2>2. step \in CaptureSteps /\ CaptureSteps \subseteq Nat
    BY <1>3, <2>1 DEF Doing, CaptureSteps, StepNow
  <2>3. UNCHANGED scenario /\ CaptureSteps' = CaptureSteps /\ Scripted' = Scripted
    BY <1>6 DEF DrawOk, CaptureSteps, Scripted
  <2>4. CASE written' = written \cup {step} /\ step' = step + 1 /\ UNCHANGED failed
    <3>1. \A k \in CaptureSteps : k < step + 1 <=> k < step \/ k = step
      BY <2>2 DEF TypeInv, TypeOK, ScenarioTyped
    <3> QED
      BY <1>6, <2>2, <2>3, <2>4, <3>1 DEF CapturesAreWritten
  <2>5. CASE failed' = TRUE /\ UNCHANGED written
    BY <1>6, <2>3, <2>5 DEF CapturesAreWritten
  <2> QED
    BY <1>6, <2>4, <2>5 DEF DrawOk, FinishCapture
<1>7. CASE DrawOk /\ ~(Scripted /\ started /\ capturing)
  BY <1>2, <1>7 DEF DrawOk, StepSawFrame
<1> QED
  <2>1. Outside \/ Quit \/ Poll \/ Wake \/ Updates \/ UNCHANGED vars =>
          UNCHANGED <<scenario, step, failed, written>>
    BY DEF Outside, Resize, Minimize, Restore, Focus, Press, Happens, Quit, Poll, Wake,
           Updates, Update, vars, stepVars
  <2>2. TickRunning \/ TickEnds \/ TickUser => UNCHANGED <<scenario, step, failed, written>>
    BY DEF TickRunning, TickEnds, TickUser, stepVars
  <2>3. TickInteractive => ~Scripted'
    BY DEF TickInteractive, Scripted
  <2>4. DrawOutOfDate \/ DrawError \/ DrawUndefined =>
          UNCHANGED <<scenario, step, failed, written>>
    BY DEF DrawOutOfDate, DrawError, DrawUndefined, stepVars
  <2> QED
    BY <1>1, <1>2, <1>4, <1>5, <1>6, <1>7, <2>1, <2>2, <2>3, <2>4 DEF Next, Loop, Tick, Draw

\* Whatever happens to the window, no capture of a scenario is of a frame that
\* depends on those before its step.  Before it TAA has had its whole jitter
\* cycle, if no frame of the step was lost and the swapchain was not rebuilt in
\* it, after which the code captures too early.  And a scenario that has not
\* failed has written each capture that is behind it, once and in its turn.
THEOREM CapturesAlwaysHold == Spec => []CapturesHold
<1> DEFINE Inv == CaptureInv /\ CapturesAreWritten
<1>1. Init => CaptureInv
  BY DEF Init, CaptureInv
<1>2. Init => CapturesAreWritten
  <2> SUFFICES ASSUME Init PROVE CapturesAreWritten
    OBVIOUS
  <2>1. Scripted => scenario \in Seq(Steps)
    BY ScriptsAssumption DEF Init, Scripted
  <2>2. Scripted => \A k \in CaptureSteps : ~(k < step)
    BY <2>1 DEF CaptureSteps, Init
  <2> QED
    BY <2>2 DEF Init, CapturesAreWritten
<1>3. TypeInv /\ Inv => CapturesHold
  <2> SUFFICES ASSUME TypeInv, CaptureInv PROVE CapturesForget /\ CapturesConverge
    BY DEF CapturesHold, TypeInv
  <2>1. frames \in Nat /\ history \in Nat /\ JitterCount \in Nat
    BY BoundsAssumption DEF TypeInv, TypeOK, ScenarioTyped, ChainTyped
  <2> QED
    BY <2>1 DEF CaptureInv, CapturesForget, CapturesConverge
<1>4. TypeInv /\ Inv /\ [Next]_vars => Inv'
  BY CaptureStep, WrittenStep
<1> QED
  BY <1>1, <1>2, <1>3, <1>4, TypesHold, PTL DEF Spec

-----------------------------------------------------------------------------
(* Where a step ends *)

\* Nothing here moves the camera or brings it nearer to the octree.
LEMMA PoseStays ==
  ASSUME PoseInv, ~Scripted \/ UNCHANGED frozen, Updated' <= Updated, Updated \in Nat,
         Updated' \in Nat, UNCHANGED <<scenario, step, started, pose, busy>>
  PROVE  PoseInv'
BY DEF PoseInv, Doing, StepNow, Scripted

\* A settle step's first frame composes the pose; a later one shows it.
LEMMA PoseUpdate == TypeInv /\ PoseInv /\ Updates => PoseInv'
<1> SUFFICES ASSUME TypeInv, PoseInv, Updates PROVE PoseInv'
  OBVIOUS
<1> PICK done \in SUBSET Part, steps \in {0, 1} : Update(done, steps)
  BY DEF Updates
<1> SUFFICES ASSUME Doing({"settle"})', started', ~frozen'
             PROVE  /\ Updated' >= 1 => pose' # "moved"
                    /\ Updated' >= 2 /\ "bodies" \notin busy' => pose' = "seen"
  BY DEF PoseInv
<1> DEFINE walks == movement = "walk" /\ steps = 1 /\ "bodies" \in busy \ done
<1>1. Doing({"settle"}) /\ started /\ ~frozen
  BY DEF Update, Doing, StepNow, Scripted, userVars
<1>2. frames \in Nat /\ pose \in {"moved", "composed", "seen"}
  BY DEF TypeInv, TypeOK, ScenarioTyped, SceneTyped
<1>3. pose' = Composed(PoseSeen, walks) /\ UNCHANGED frames
  BY DEF Update
<1>4. Updated = frames /\ Updated' = frames + 1
  BY <1>3 DEF Update, Updated
<1>5. pose' # "moved"
  BY <1>2, <1>3 DEF Composed
<1>6. walks => "bodies" \in busy'
  BY DEF Update
<1>7. ASSUME frames + 1 >= 2, ~walks PROVE pose' = "seen"
  <2>1. pose # "moved"
    BY <1>1, <1>2, <1>4, <1>7 DEF PoseInv
  <2> QED
    BY <1>1, <1>2, <1>3, <1>7, <2>1 DEF Composed, PoseSeen
<1> QED
  BY <1>4, <1>5, <1>6, <1>7

LEMMA PoseStep == TypeInv /\ PoseInv /\ [Next]_vars => PoseInv'
<1> SUFFICES ASSUME TypeInv, PoseInv, [Next]_vars PROVE PoseInv'
  OBVIOUS
<1>0. frames \in Nat /\ Updated \in Nat
  BY DEF TypeInv, TypeOK, ScenarioTyped, Updated
<1>1. CASE Outside \/ UNCHANGED vars
  <2>1. UNCHANGED <<scenario, step, started, frames, frozen, pose, busy, phase>>
    BY <1>1 DEF Outside, Resize, Minimize, Restore, Focus, Press, Happens,
                vars, stepVars, userVars, sceneVars
  <2> QED
    BY <1>0, <2>1, PoseStays DEF Updated
<1>2. CASE Quit \/ Wake
  <2>1. UNCHANGED <<scenario, step, started, frames, frozen, pose, busy>> /\ phase' # "draw"
    BY <1>2 DEF Quit, Wake, stepVars, userVars, sceneVars
  <2> QED
    BY <1>0, <2>1, PoseStays DEF Updated
<1>3. CASE Poll
  <2>1. UNCHANGED <<scenario, step, started, frames, pose, busy>> /\ phase' # "draw"
    BY <1>3 DEF Poll, sceneVars
  <2>2. ~Scripted \/ UNCHANGED frozen
    BY <1>3 DEF Poll, Keys
  <2> QED
    BY <1>0, <2>1, <2>2, PoseStays DEF Updated
<1>4. CASE TickDone
  BY <1>4 DEF TickDone, PoseInv
<1>5. CASE TickFailed
  <2>1. scenario \in Seq(Steps)
    BY <1>5, ScriptsAssumption DEF TickFailed, Scripted, TypeInv, TypeOK, ScenarioTyped
  <2>2. ~(step' <= Len(scenario'))
    BY <1>5, <2>1 DEF TickFailed
  <2> QED
    BY <2>2 DEF PoseInv, Doing
<1>6. CASE TickRunning
  <2>1. UNCHANGED <<scenario, step, frozen, busy>> /\ Updated' = FramesNow /\ Updated = frames
    BY <1>6 DEF TickRunning, Updated, userVars
  <2>2. Doing({"settle"})' => Doing({"settle"}) /\ UNCHANGED pose
    BY <1>6, <2>1 DEF TickRunning, Doing, StepNow, Scripted
  <2> QED
    BY <2>1, <2>2 DEF FramesNow, PoseInv
<1>7. CASE TickInteractive
  BY <1>7 DEF TickInteractive, PoseInv, Doing, Scripted
<1>8. CASE TickEnds
  <2>1. UNCHANGED <<scenario, step, started, frames, frozen, pose, busy>> /\ phase' # "draw"
    BY <1>8 DEF TickEnds, stepVars, userVars, sceneVars
  <2> QED
    BY <1>0, <2>1, PoseStays DEF Updated
<1>9. CASE TickUser
  BY <1>9 DEF TickUser, PoseInv, Doing, Scripted, stepVars
<1>10. CASE DrawOk
  <2>1. CASE UNCHANGED <<step, started>>
    <3>1. frames' \in Nat /\ frames' <= frames + 1 /\ (~started => frames' = frames)
      BY <1>0, <1>10, <2>1 DEF DrawOk, StepSawFrame, FinishCapture, TypeInv, TypeOK, ScenarioTyped
    <3>2. Updated = frames + 1 /\ Updated' = frames'
      BY <1>10 DEF DrawOk, Updated
    <3> QED
      BY <1>0, <1>10, <2>1, <3>1, <3>2, PoseStays DEF DrawOk, userVars, sceneVars
  <2>2. CASE ~started'
    BY <2>2 DEF PoseInv
  <2>3. CASE Scripted /\ step' = Len(scenario) + 1
    <3>1. scenario \in Seq(Steps)
      BY <2>3, ScriptsAssumption DEF Scripted, TypeInv, TypeOK, ScenarioTyped
    <3>2. ~(step' <= Len(scenario'))
      BY <1>10, <2>3, <3>1 DEF DrawOk
    <3> QED
      BY <3>2 DEF PoseInv, Doing
  <2> QED
    BY <1>10, <2>1, <2>2, <2>3 DEF DrawOk, StepSawFrame, FinishCapture
<1>11. CASE DrawOutOfDate \/ DrawError \/ DrawUndefined
  <2>1. UNCHANGED <<scenario, step, started, frames, frozen, pose, busy>> /\ phase' # "draw"
    BY <1>11 DEF DrawOutOfDate, DrawError, DrawUndefined, stepVars, userVars, sceneVars
  <2> QED
    BY <1>0, <2>1, PoseStays DEF Updated
<1> QED
  BY <1>1, <1>2, <1>3, <1>4, <1>5, <1>6, <1>7, <1>8, <1>9, <1>10, <1>11, PoseUpdate
  DEF Next, Loop, Tick, Draw

\* Nothing here moves the camera, or it disturbs the step.
LEMMA DistanceStays ==
  ASSUME DistanceInv, UNCHANGED <<scenario, step, started, frames, left, moved>>,
         Stopped => Stopped', Ticked' => Ticked, disturbed => disturbed',
         Stopped' \/ disturbed' \/ (Ticked => Ticked')
  PROVE  DistanceInv'
BY DEF DistanceInv, Doing, StepNow, Scripted

\* The frame's steps of the character are those the walk has less of.
LEMMA DistanceUpdate == TypeInv /\ DistanceInv /\ Updates => DistanceInv'
<1> SUFFICES ASSUME TypeInv, DistanceInv, Updates PROVE DistanceInv'
  OBVIOUS
<1> PICK done \in SUBSET Part, steps \in {0, 1} : Update(done, steps)
  BY DEF Updates
<1>0. /\ phase = "update" /\ phase' = "draw"
      /\ UNCHANGED <<scenario, step, started, frames, disturbed>>
  BY DEF Update
<1>1. CASE UNCHANGED <<left, moved>>
  BY <1>0, <1>1, DistanceStays DEF Ticked, Stopped
<1>2. CASE ~UNCHANGED <<left, moved>>
  <2>1. Doing({"walk"}) /\ steps = 1 /\ left' = left - 1 /\ moved' = MovedAgain
    BY <1>2 DEF Update, Doing
  <2>2. started
    BY <1>0, <2>1 DEF DistanceInv, Doing, Ticked
  <2>3. /\ left \in Nat /\ left # 0 /\ moved \in Nat /\ StepNow.frames \in 0 .. MaxFrames
        /\ MaxFrames \in Nat
    BY <1>0, <2>1, StepAsks, BoundsAssumption DEF TypeInv, TypeOK, ScenarioTyped, Doing
  <2>4. UNCHANGED StepNow /\ Scripted' = Scripted
    BY <1>0 DEF StepNow, Scripted
  <2>5. ~Stopped /\ Ticked'
    BY <1>0 DEF Stopped, Ticked
  <2>6. ASSUME ~disturbed'
        PROVE  moved' + left' = StepNow'.frames /\ StepNow'.frames # 0
    <3>1. moved + left = StepNow.frames /\ StepNow.frames # 0
      BY <1>0, <2>1, <2>2, <2>5, <2>6 DEF DistanceInv
    <3>2. moved' = moved + 1
      BY <2>1, <2>3, <3>1 DEF MovedAgain
    <3> QED
      BY <2>1, <2>3, <2>4, <3>1, <3>2
  <2>7. StepNow'.op = "walk"
    BY <2>1, <2>4 DEF Doing
  <2> QED
    BY <1>0, <2>2, <2>5, <2>6, <2>7 DEF DistanceInv, Doing
<1> QED
  BY <1>1, <1>2

LEMMA DistanceTick == TypeInv /\ TypeInv' /\ DistanceInv /\ Tick => DistanceInv'
<1> SUFFICES ASSUME TypeInv, TypeInv', DistanceInv, Tick PROVE DistanceInv'
  OBVIOUS
<1>1. CASE TickDone
  BY <1>1 DEF TickDone, DistanceInv, Ticked
<1>2. CASE TickFailed
  <2>1. scenario \in Seq(Steps)
    BY <1>2, ScriptsAssumption DEF TickFailed, Scripted, TypeInv, TypeOK, ScenarioTyped
  <2>2. ~(step' <= Len(scenario'))
    BY <1>2, <2>1 DEF TickFailed
  <2> QED
    BY <1>2, <2>2 DEF TickFailed, DistanceInv, Doing, Ticked
<1>3. CASE TickRunning
  <2>1. /\ UNCHANGED <<scenario, step, StepNow, Scripted>> /\ Scripted /\ step <= Len(scenario)
        /\ started' /\ Ticked' /\ ~Ticked /\ ~Stopped
    BY <1>3 DEF TickRunning, StepNow, Scripted, Ticked, Stopped
  <2>2. /\ frames' = FramesNow /\ FramesNow \in Nat /\ frames \in Nat
        /\ moved \in Nat /\ left \in Nat
    BY <1>3, BoundsAssumption DEF TickRunning, FramesNow, TypeInv, TypeOK, ScenarioTyped
  <2>3. ~disturbed' => ~started \/ ~disturbed
    BY <1>3 DEF TickRunning
  <2>4. ~(StepNow.op \in {"fly", "walk"}) => moved' = 0
    BY <1>3, <2>1 DEF TickRunning, DistanceInv
  <2>5. ASSUME StepNow.op = "fly", ~disturbed'
        PROVE  moved' = frames' + 1 /\ moved' <= StepNow.frames
    <3>1. StepNow.frames \in Nat
      BY <2>1, <2>5, StepAsks, BoundsAssumption DEF TypeInv, TypeOK
    <3>2. FramesNow < StepNow.frames
      BY <1>3, <2>2, <2>5, <3>1 DEF TickRunning, StepDone, Capture
    <3>3. moved = FramesNow
      BY <2>1, <2>3, <2>5 DEF DistanceInv, Doing, FramesNow
    <3>4. moved' = MovedAgain
      BY <1>3, <2>5 DEF TickRunning
    <3> QED
      BY <2>2, <3>1, <3>2, <3>3, <3>4 DEF MovedAgain
  <2>6. ASSUME StepNow.op = "walk", ~disturbed'
        PROVE  moved' + left' = StepNow.frames /\ StepNow.frames # 0
    <3>1. StepNow.frames \in Nat /\ left' = LeftNow(StepNow) /\ moved' = moved
      BY <1>3, <2>1, <2>6, StepAsks, BoundsAssumption DEF TypeInv, TypeOK, TickRunning
    <3>2. left' \in Nat /\ left' # 0
      BY <1>3, <2>1, <2>6 DEF TypeInv, TypeOK, ScenarioTyped, Doing, TickRunning
    <3>3. CASE started
      <4>1. moved + left = StepNow.frames /\ StepNow.frames # 0 /\ frames >= 1
        BY <2>1, <2>3, <2>6, <3>3 DEF DistanceInv, Doing
      <4> QED
        BY <2>2, <3>1, <3>3, <4>1 DEF LeftNow, FramesNow
    <3>4. CASE ~started
      <4>1. moved = 0 /\ LeftNow(StepNow) = StepNow.frames
        BY <2>1, <3>4 DEF DistanceInv, LeftNow, FramesNow
      <4> QED
        BY <3>1, <3>2, <4>1
    <3> QED
      BY <3>3, <3>4
  <2> QED
    BY <2>1, <2>4, <2>5, <2>6 DEF DistanceInv, Doing
<1>4. CASE TickInteractive
  BY <1>4 DEF TickInteractive, DistanceInv, Doing, Scripted
<1>5. CASE TickEnds
  BY <1>5, DistanceStays DEF TickEnds, stepVars, Ticked, Stopped
<1>6. CASE TickUser
  BY <1>6 DEF TickUser, DistanceInv, Doing, Scripted, stepVars
<1> QED
  BY <1>1, <1>2, <1>3, <1>4, <1>5, <1>6 DEF Tick

LEMMA DistanceDraw == TypeInv /\ CaptureInv /\ DistanceInv /\ Draw => DistanceInv'
<1> SUFFICES ASSUME TypeInv, CaptureInv, DistanceInv, Draw PROVE DistanceInv'
  OBVIOUS
<1>1. CASE DrawOk /\ Scripted /\ capturing
  <2>1. Doing({Capture}) /\ started /\ scenario \in Seq(Steps)
    BY <1>1, ScriptsAssumption DEF CaptureInv, Scripted, TypeInv, TypeOK, ScenarioTyped
  <2>2. moved = 0 /\ moved' = moved /\ scenario' = scenario /\ ~Ticked'
    BY <1>1, <2>1 DEF DistanceInv, Doing, Capture, DrawOk, Ticked
  <2>3. CASE ~started'
    BY <2>2, <2>3 DEF DistanceInv
  <2>4. CASE step' = Len(scenario) + 1
    <3>1. ~(step' <= Len(scenario'))
      BY <2>1, <2>2, <2>4
    <3> QED
      BY <2>2, <3>1 DEF DistanceInv, Doing
  <2> QED
    BY <1>1, <2>1, <2>3, <2>4 DEF DrawOk, FinishCapture
<1>2. CASE DrawOk /\ Scripted /\ ~capturing
  <2>1. started /\ Ticked /\ ~Ticked' /\ ~Stopped
    BY <1>2 DEF DrawOk, DistanceInv, Ticked, Stopped
  <2>2. UNCHANGED <<scenario, step, started, disturbed, left, moved>>
    BY <1>2, <2>1 DEF DrawOk, StepSawFrame
  <2>3. UNCHANGED <<StepNow, Scripted>>
    BY <2>2 DEF StepNow, Scripted
  <2>4. frames' = IF frames < MaxFrames THEN frames + 1 ELSE frames
    BY <1>2, <2>1 DEF DrawOk, StepSawFrame
  <2>5. /\ frames \in 0 .. MaxFrames /\ MaxFrames \in Nat /\ moved \in Nat /\ left \in Nat
        /\ Doing({"fly", "walk"}) => StepNow.frames \in 0 .. MaxFrames
    BY StepAsks, BoundsAssumption DEF TypeInv, TypeOK, ScenarioTyped, Doing
  <2>6. ASSUME Doing({"fly"}), ~disturbed
        PROVE  moved = frames' /\ moved <= StepNow.frames
    <3>1. moved = frames + 1 /\ moved <= StepNow.frames
      BY <2>1, <2>6 DEF DistanceInv
    <3> QED
      BY <2>4, <2>5, <2>6, <3>1 DEF Doing
  <2>7. ASSUME Doing({"walk"}), ~disturbed
        PROVE  moved + left = StepNow.frames /\ StepNow.frames # 0 /\ frames' >= 1
    <3>1. moved + left = StepNow.frames /\ StepNow.frames # 0
      BY <2>1, <2>7 DEF DistanceInv
    <3> QED
      BY <2>4, <2>5, <2>7, <3>1 DEF Doing
  <2> QED
    BY <2>1, <2>2, <2>3, <2>6, <2>7 DEF DistanceInv, Doing
<1>3. CASE DrawOk /\ ~Scripted
  BY <1>3 DEF DrawOk, DistanceInv, Doing, Scripted
<1>4. CASE DrawOutOfDate
  BY <1>4, DistanceStays DEF DrawOutOfDate, Ticked, Stopped, DistanceInv, Doing, Scripted
<1>5. CASE DrawError \/ DrawUndefined
  BY <1>5, DistanceStays DEF DrawError, DrawUndefined, stepVars, Ticked, Stopped
<1> QED
  BY <1>1, <1>2, <1>3, <1>4, <1>5 DEF Draw

LEMMA DistanceStep ==
  TypeInv /\ TypeInv' /\ CaptureInv /\ DistanceInv /\ [Next]_vars => DistanceInv'
<1> SUFFICES ASSUME TypeInv, TypeInv', CaptureInv, DistanceInv, [Next]_vars PROVE DistanceInv'
  OBVIOUS
<1>1. CASE Outside \/ UNCHANGED vars
  <2>1. UNCHANGED <<scenario, step, started, frames, left, moved, disturbed, phase>>
    BY <1>1 DEF Outside, Resize, Minimize, Restore, Focus, Press, Happens, vars, stepVars
  <2> QED
    BY <2>1, DistanceStays DEF Ticked, Stopped
<1>2. CASE Quit \/ Wake
  BY <1>2, DistanceStays DEF Quit, Wake, stepVars, Ticked, Stopped
<1>3. CASE Poll /\ Scripted
  <2>1. UNCHANGED <<scenario, step, started, frames, left, moved>> /\ ~Stopped /\ ~Ticked'
    BY <1>3 DEF Poll, Stopped, Ticked
  <2>2. UNCHANGED disturbed \/ disturbed' = TRUE
    BY <1>3 DEF Poll, chainVars
  <2>3. ~Ticked
    BY <1>3 DEF Poll, Ticked
  <2> QED
    BY <2>1, <2>2, <2>3, DistanceStays
<1>4. CASE Poll /\ ~Scripted
  BY <1>4 DEF Poll, DistanceInv, Doing, Scripted
<1> QED
  BY <1>1, <1>2, <1>3, <1>4, DistanceTick, DistanceUpdate, DistanceDraw DEF Next, Loop

\* scenario.cpp refuses no number of frames for a settle step: one that asks for
\* fewer than two ends before the pose reaches the octree.
SettlesLate ==
  \A script \in Scripts :
    \A k \in DOMAIN script : script[k].op = "settle" => script[k].min >= 2

\* A settle step that waits for two frames or more ends on what the octree chose
\* for the camera's pose, and a walk or a flight none of whose frames was lost has
\* gone exactly as far as its script says, however the terrain, the assets, the
\* bodies, the window and the driver keep it waiting.
THEOREM StepsEndOnTheirWord == ASSUME SettlesLate PROVE Spec => StepsEndWhereTheySay
<1> DEFINE Settles == TickDone /\ StepNow.op = "settle" => frozen \/ pose = "seen"
<1> DEFINE Goes ==
      TickDone /\ StepNow.op \in {"walk", "fly"} /\ ~disturbed => moved = StepNow.frames
<1> DEFINE Inv == TypeInv /\ CaptureInv /\ PoseInv /\ DistanceInv
<1>1. Init => Inv
  <2>1. Init => CaptureInv /\ PoseInv
    BY DEF Init, CaptureInv, PoseInv
  <2>2. Init => DistanceInv
    BY DEF Init, DistanceInv, Ticked
  <2> QED
    BY <2>1, <2>2, TypesStart
<1>2. Inv /\ [Next]_vars => Inv'
  BY TypesStep, CaptureStep, PoseStep, DistanceStep
<1>3. Inv => Settles
  <2> SUFFICES ASSUME Inv, TickDone, StepNow.op = "settle", ~frozen PROVE pose = "seen"
    OBVIOUS
  <2>1. scenario \in Scripts /\ scenario \in Seq(Steps) /\ step \in DOMAIN scenario
    BY ScriptsAssumption DEF TickDone, Scripted, TypeInv, TypeOK, ScenarioTyped
  <2>2. StepNow.min >= 2 /\ StepNow.min \in Nat
    BY <2>1, StepAsks DEF SettlesLate, StepNow, TickDone, TypeInv, TypeOK
  <2>3. FramesNow >= StepNow.min /\ busy = {}
    BY DEF TickDone, StepDone, Settled, Idle
  <2>4. frames \in Nat
    BY DEF TypeInv, TypeOK, ScenarioTyped
  <2>5. started /\ frames >= 2
    BY <2>2, <2>3, <2>4 DEF FramesNow
  <2>6. Updated = frames /\ Doing({"settle"})
    BY DEF TickDone, Updated, Doing
  <2> QED
    BY <2>3, <2>5, <2>6 DEF PoseInv
<1>4. Inv => Goes
  <2> SUFFICES ASSUME Inv, TickDone, StepNow.op \in {"walk", "fly"}, ~disturbed
               PROVE  moved = StepNow.frames
    OBVIOUS
  <2>1. Scripted /\ step <= Len(scenario) /\ ~Stopped /\ ~Ticked
    BY DEF TickDone, Stopped, Ticked
  <2>2. StepNow.frames \in Nat /\ frames \in Nat /\ left \in Nat /\ moved \in Nat
    BY <2>1, StepAsks, BoundsAssumption DEF TypeInv, TypeOK, ScenarioTyped
  <2>3. CASE StepNow.op = "fly"
    <3>1. FramesNow >= StepNow.frames
      BY <2>3 DEF TickDone, StepDone, Capture
    <3>2. moved = FramesNow /\ (started => moved <= StepNow.frames)
      BY <2>1, <2>3 DEF DistanceInv, Doing, FramesNow
    <3> QED
      BY <2>2, <3>1, <3>2 DEF FramesNow
  <2>4. CASE StepNow.op = "walk"
    <3>1. LeftNow(StepNow) = 0
      BY <2>4 DEF TickDone, StepDone, Capture
    <3>2. CASE started
      <4>1. moved + left = StepNow.frames /\ frames >= 1
        BY <2>1, <2>4, <3>2 DEF DistanceInv, Doing
      <4> QED
        BY <2>2, <3>1, <3>2, <4>1 DEF LeftNow, FramesNow
    <3>3. CASE ~started
      BY <2>1, <3>1, <3>3 DEF DistanceInv, LeftNow, FramesNow
    <3> QED
      BY <3>2, <3>3
  <2> QED
    BY <2>3, <2>4
<1>5. Spec => []Inv
  BY <1>1, <1>2, PTL DEF Spec
<1> QED
  BY <1>3, <1>4, <1>5, PTL DEF StepsEndWhereTheySay, SettlesOnThePose, GoesAsFar

-----------------------------------------------------------------------------
(* Lifetime: what the engine makes, and unmakes *)

\* The two steps a plan takes with a handle.
MakeOf(h) == [op |-> "make", handle |-> h]
DropOf(h) == [op |-> "drop", handle |-> h]

\* Made by the steps before the k-th, and not taken apart by them since; or the
\* other way round.
MadeBy(P, h, k) ==
  \E j \in 1 .. k - 1 : P[j] = MakeOf(h) /\ \A i \in j + 1 .. k - 1 : P[i] # DropOf(h)
DroppedBy(P, h, k) ==
  \E j \in 1 .. k - 1 : P[j] = DropOf(h) /\ \A i \in j + 1 .. k - 1 : P[i] # MakeOf(h)

\* What stays to the end once it is made.
Firm(h) ==
  /\ h[2] \notin Passing \cup {"view", "ui_view", "image"}
  /\ h \notin {<<"chain", "handle">>, <<"render_finished", "handle">>}

\* All that a plan's steps are about.
Handled(P) == {P[k].handle : k \in DOMAIN P}
Loader == <<"loader", "handle">>

\* Whatever is alive the destructors will take apart; but for what a call makes
\* for its own use, and the loader.
LiveInv ==
  \A h \in live : h[2] \in Passing \/ h = Loader \/ h \in Handled(Members)

\* While a plan is followed: what its steps so far made is alive, what they took
\* apart is not, and during init() nothing else is.
PlanInv ==
  Building => \A h \in Handles :
    /\ MadeBy(Plan, h, at) /\ ~Missing(h) => h \in live
    /\ DroppedBy(Plan, h, at) => h \notin live
    /\ h \in live /\ (h[2] \in Passing \/ (stage = "init" /\ h \notin Constructed))
         => MadeBy(Plan, h, at)

\* What a rebuild does not replace is alive from the end of init() to the last
\* turn of the loop, whatever failed since.
RunInv ==
  /\ stage \in {"init", "run", "rebuild"} => Constructed \subseteq live
  /\ stage \in {"run", "rebuild"} => \A h \in Handles :
       Firm(h) /\ MakeOf(h) \in Range(Startup) /\ ~Missing(h) => h \in live

\* Frames are in flight in the loop alone, and jobs of the pool never before it;
\* the pool ends before what its jobs read.
UsersInv ==
  /\ inFlight > 0 => stage = "run" /\ used \subseteq live
  /\ JobsKeepTheirs
  /\ stage = "init" => "pool" \notin jobs
  /\ <<"pool", "threads">> \in live => <<"terrain", "octree">> \in live

\* LifeTypes, but for its last part, which follows from the plans (TypesFollow).
BasicTypes ==
  /\ live \subseteq Handles
  /\ stage \in {"init", "run", "rebuild", "ending", "gone"}
  /\ at \in Nat
  /\ inFlight \in 0 .. FramesInFlight /\ used \subseteq Handles
  /\ jobs \subseteq DOMAIN JobUses /\ builds \in 0 .. MaxBuilds
  /\ Building => at \in 1 .. Len(Plan) + 1

LifeInv ==
  BasicTypes /\ UsesAreAlive /\ LiveInv /\ PlanInv /\ NothingLeftBehind /\ RunInv /\ UsersInv

-----------------------------------------------------------------------------
\* What a handle, a step and a plan are.
IsPair(h) == h = <<h[1], h[2]>>
IsCommand(c) == c = [op |-> c.op, handle |-> c.handle] /\ IsPair(c.handle)
IsPlan(P) == P \in Seq(Range(P)) /\ \A k \in 1 .. Len(P) : IsCommand(P[k])

\* What a step makes is taken apart by one of its owner's later steps, with none
\* of another owner's in between.
Ends(P, k) ==
  \E m \in k + 1 .. Len(P) :
    P[m] = DropOf(P[k].handle) /\ \A i \in k .. m : P[i].handle[1] = P[k].handle[1]

\* Right whatever comes before and after.
SoundAt(P, k, base) ==
  LET h == P[k].handle
  IN  /\ P[k].op = "make" =>
           /\ \A u \in Uses(h) : u \in base \/ MadeBy(P, u, k)
           /\ h[2] \in Passing => Ends(P, k)
           /\ h[2] \in Passing \/ h = Loader \/ h \in Handled(Members)
           /\ h \notin Constructed
      /\ P[k].op = "drop" =>
           /\ ~Firm(h)
           /\ h[2] = "image" => DroppedBy(P, <<h[1], "view">>, k)
           /\ h = <<"chain", "handle">> =>
                DroppedBy(P, <<"chain", "view">>, k) /\ DroppedBy(P, <<"chain", "ui_view">>, k)

\* Every step of the plan is, with base alive all along.
Sound(P, base) == IsPlan(P) /\ \A k \in 1 .. Len(P) : SoundAt(P, k, base)

\* Nothing is made over what is there, if what is there to begin with is of
\* these owners.
New(owners, P) ==
  \A k \in 1 .. Len(P) : P[k].op = "make" =>
    \/ DroppedBy(P, P[k].handle, k)
    \/ P[k].handle[1] \notin owners /\ \A j \in 1 .. k - 1 : P[j] # P[k]

\* Whose steps these are, and whose the handles they make.
OwnersIn(P, owners) == \A k \in 1 .. Len(P) : P[k].handle[1] \in owners
Makers(P, owners) == \A k \in 1 .. Len(P) : P[k].op = "make" => P[k].handle[1] \in owners

RebuildOwners == Range(Targets) \cup {"chain", "surface", "render_finished"}

\* What a rebuild, a frame and a job need of init().
Relied ==
  {<<"device", "handle">>, <<"allocator", "handle">>, <<"upload_pool", "handle">>,
   <<"surface", "handle">>, <<"sdl", "handle">>, <<"bindless", "pool">>, <<"ui", "backend">>,
   <<"physics", "world">>}

\* What the UI's textures and its parts are, of all that is taken apart.
Known(v) ==
  /\ IsPair(v)
  /\ v[1] = "ui_texture" => v[2] \in {"image", "view"}
  /\ v[2] \in {"platform", "backend"} => v[1] = "ui"

\* Before a handle goes, so did all that was made from it, here or before.
InOrder(P, before) ==
  \A k \in 1 .. Len(P), v \in Handled(Members) :
    Known(v) /\ P[k].handle \in Uses(v) => v \in before \/ \E j \in 1 .. k - 1 : P[j].handle = v

\* What things are made from.
Bases ==
  {<<"device", "handle">>, <<"allocator", "handle">>, <<"upload_pool", "handle">>,
   <<"bindless", "pool">>, <<"ui", "backend">>, <<"ui", "context">>, <<"instance", "handle">>,
   <<"sdl", "handle">>, <<"window", "handle">>, <<"loader", "handle">>, <<"surface", "handle">>,
   <<"assets", "manager">>}

\* The one thing that is no base and has something made from it is an image, or
\* the chain.
LEMMA UsedOnes ==
  ASSUME NEW v, NEW h \in Uses(v)
  PROVE  h \in Bases \/ (h = <<v[1], "image">> /\ v[2] = "view")
                     \/ (h = <<"chain", "handle">> /\ v[2] \in {"view", "ui_view"} /\ v[1] = "chain")
BY DEF Uses, Bases, OfInstance, OfSdl

LEMMA BasesStay == \A h \in Bases : Firm(h) /\ ~Missing(h)
BY DEF Bases, Firm, Passing, Missing, Optionals

\* What a rebuild replaces is used by its own views alone.
LEMMA WhoUses ==
  ASSUME NEW v, IsPair(v), NEW h \in Uses(v), ~Firm(h)
  PROVE  \/ h[2] = "image" /\ v = <<h[1], "view">>
         \/ h = <<"chain", "handle">> /\ v \in {<<"chain", "view">>, <<"chain", "ui_view">>}
<1>1. v = <<v[1], v[2]>>
  BY DEF IsPair
<1>2. \/ h = <<v[1], "image">> /\ v[2] = "view"
      \/ h = <<"chain", "handle">> /\ v[2] \in {"view", "ui_view"} /\ v[1] = "chain"
  BY UsedOnes, BasesStay
<1>3. CASE h = <<v[1], "image">> /\ v[2] = "view"
  <2>1. h[1] = v[1] /\ h[2] = "image"
    BY <1>3
  <2> QED
    BY <1>1, <1>3, <2>1
<1>4. CASE h = <<"chain", "handle">> /\ v[2] \in {"view", "ui_view"} /\ v[1] = "chain"
  BY <1>1, <1>4
<1> QED
  BY <1>2, <1>3, <1>4

\* What others need is on every machine.
LEMMA UsedAreThere == \A v : \A h \in Uses(v) : ~Missing(h)
<1> SUFFICES ASSUME NEW v, NEW h \in Uses(v) PROVE ~Missing(h)
  OBVIOUS
<1>1. CASE h \in Bases
  BY <1>1, BasesStay
<1>2. CASE h = <<v[1], "image">>
  BY <1>2 DEF Missing, Optionals
<1>3. CASE h = <<"chain", "handle">>
  BY <1>3 DEF Missing, Optionals
<1> QED
  BY <1>1, <1>2, <1>3, UsedOnes

-----------------------------------------------------------------------------
(* Plans put together *)

LEMMA JoinPlans ==
  ASSUME NEW A, NEW B, IsPlan(A), IsPlan(B)
  PROVE  /\ IsPlan(A \o B) /\ Len(A) \in Nat /\ Len(B) \in Nat /\ Len(A \o B) = Len(A) + Len(B)
         /\ \A j \in 1 .. Len(A) : (A \o B)[j] = A[j]
         /\ \A j \in 1 .. Len(B) : (A \o B)[Len(A) + j] = B[j]
         /\ Handled(A \o B) = Handled(A) \cup Handled(B)
<1> DEFINE P == A \o B
<1>1. A \in Seq(Range(A) \cup Range(B)) /\ B \in Seq(Range(A) \cup Range(B))
  BY DEF IsPlan
<1>2. /\ Len(A) \in Nat /\ Len(B) \in Nat /\ Len(P) = Len(A) + Len(B) /\ DOMAIN P = 1 .. Len(P)
      /\ P \in Seq(Range(A) \cup Range(B))
      /\ \A j \in 1 .. Len(A) : P[j] = A[j]
      /\ \A j \in 1 .. Len(B) : P[Len(A) + j] = B[j]
      /\ DOMAIN A = 1 .. Len(A) /\ DOMAIN B = 1 .. Len(B)
  BY <1>1
<1>3. \A k \in 1 .. Len(P) : k \in 1 .. Len(A) \/ \E j \in 1 .. Len(B) : k = Len(A) + j
  <2> SUFFICES ASSUME NEW k \in 1 .. Len(P), k \notin 1 .. Len(A)
               PROVE  \E j \in 1 .. Len(B) : k = Len(A) + j
    OBVIOUS
  <2>1. k - Len(A) \in 1 .. Len(B) /\ k = Len(A) + (k - Len(A))
    BY <1>2
  <2> QED
    BY <2>1
<1> HIDE DEF P
<1>4. \A k \in 1 .. Len(P) : IsCommand(P[k])
  BY <1>2, <1>3 DEF IsPlan
<1>5. P \in Seq(Range(P))
  <2>1. \A k \in 1 .. Len(P) : P[k] \in Range(P)
    BY <1>2 DEF Range
  <2> QED
    BY <1>2, <2>1
<1>6. Handled(P) = Handled(A) \cup Handled(B)
  <2>1. \A j \in 1 .. Len(B) : Len(A) + j \in 1 .. Len(P)
    BY <1>2
  <2>2. \A j \in 1 .. Len(A) : j \in 1 .. Len(P)
    BY <1>2
  <2>3. Handled(P) \subseteq Handled(A) \cup Handled(B)
    <3> SUFFICES ASSUME NEW k \in 1 .. Len(P)
                 PROVE  P[k].handle \in Handled(A) \cup Handled(B)
      BY <1>2 DEF Handled
    <3>1. CASE k \in 1 .. Len(A)
      BY <1>2, <3>1 DEF Handled
    <3>2. ASSUME NEW j \in 1 .. Len(B), k = Len(A) + j PROVE P[k].handle \in Handled(B)
      BY <1>2, <3>2 DEF Handled
    <3> QED
      BY <1>3, <3>1, <3>2
  <2>4. Handled(A) \subseteq Handled(P)
    BY <1>2, <2>2 DEF Handled
  <2>5. Handled(B) \subseteq Handled(P)
    BY <1>2, <2>1 DEF Handled
  <2> QED
    BY <2>3, <2>4, <2>5
<1> QED
  BY <1>2, <1>4, <1>5, <1>6 DEF P, IsPlan

\* What is so in a part of a plan is so in the plan.
PartOf(Q, P, off) ==
  /\ off \in Nat /\ Len(P) \in Nat /\ Len(Q) \in Nat /\ off + Len(Q) <= Len(P)
  /\ \A j \in 1 .. Len(Q) : P[off + j] = Q[j]

\* What is made, and not dropped, in a piece of a plan is so in the plan.
LEMMA PartMade ==
  ASSUME NEW P, NEW Q, NEW off, PartOf(Q, P, off), NEW k \in 1 .. Len(Q), NEW h
  PROVE  /\ MadeBy(Q, h, k) => MadeBy(P, h, off + k)
         /\ DroppedBy(Q, h, k) => DroppedBy(P, h, off + k)
<1>1. ASSUME NEW j \in 1 .. k - 1
      PROVE  /\ off + j \in 1 .. (off + k) - 1 /\ P[off + j] = Q[j]
             /\ \A i \in off + j + 1 .. (off + k) - 1 : i - off \in j + 1 .. k - 1 /\ P[i] = Q[i - off]
  <2>1. off \in Nat /\ off + j \in 1 .. (off + k) - 1 /\ P[off + j] = Q[j]
    BY DEF PartOf
  <2>2. ASSUME NEW i \in off + j + 1 .. (off + k) - 1
        PROVE  i - off \in j + 1 .. k - 1 /\ P[i] = Q[i - off]
    <3>1. i - off \in j + 1 .. k - 1 /\ i - off \in 1 .. Len(Q) /\ i = off + (i - off)
      BY <2>1 DEF PartOf
    <3> QED
      BY <3>1 DEF PartOf
  <2> QED
    BY <2>1, <2>2
<1>2. ASSUME MadeBy(Q, h, k) PROVE MadeBy(P, h, off + k)
  <2>1. PICK j \in 1 .. k - 1 : Q[j] = MakeOf(h) /\ \A i \in j + 1 .. k - 1 : Q[i] # DropOf(h)
    BY <1>2 DEF MadeBy
  <2> QED
    BY <1>1, <2>1 DEF MadeBy
<1>3. ASSUME DroppedBy(Q, h, k) PROVE DroppedBy(P, h, off + k)
  <2>1. PICK j \in 1 .. k - 1 : Q[j] = DropOf(h) /\ \A i \in j + 1 .. k - 1 : Q[i] # MakeOf(h)
    BY <1>3 DEF DroppedBy
  <2> QED
    BY <1>1, <2>1 DEF DroppedBy
<1> QED
  BY <1>2, <1>3

\* So is what ends in it.
LEMMA PartEnds ==
  ASSUME NEW P, NEW Q, NEW off, PartOf(Q, P, off), NEW k \in 1 .. Len(Q), Ends(Q, k)
  PROVE  Ends(P, off + k)
<1>1. PICK m \in k + 1 .. Len(Q) :
        Q[m] = DropOf(Q[k].handle) /\ \A i \in k .. m : Q[i].handle[1] = Q[k].handle[1]
  BY DEF Ends
<1>2. off \in Nat /\ off + m \in off + k + 1 .. Len(P) /\ P[off + m] = Q[m] /\ P[off + k] = Q[k]
  BY DEF PartOf
<1>3. ASSUME NEW i \in off + k .. off + m PROVE P[i].handle[1] = P[off + k].handle[1]
  <2>1. i - off \in k .. m /\ i - off \in 1 .. Len(Q) /\ i = off + (i - off)
    BY <1>2 DEF PartOf
  <2>2. P[i] = Q[i - off]
    BY <2>1 DEF PartOf
  <2> QED
    BY <1>1, <1>2, <2>1, <2>2
<1> QED
  BY <1>1, <1>2, <1>3 DEF Ends

\* A piece that is sound alone is sound where it is.
LEMMA PartSound ==
  ASSUME NEW P, NEW Q, NEW off, PartOf(Q, P, off), NEW k \in 1 .. Len(Q), NEW base,
         SoundAt(Q, k, base)
  PROVE  SoundAt(P, off + k, base)
<1>1. P[off + k] = Q[k]
  BY DEF PartOf
<1> QED
  BY <1>1, PartMade, PartEnds DEF SoundAt

LEMMA JoinParts ==
  ASSUME NEW A, NEW B, IsPlan(A), IsPlan(B)
  PROVE  /\ PartOf(A, A \o B, 0) /\ PartOf(B, A \o B, Len(A))
         /\ \A k \in 1 .. Len(A \o B) : k \in 1 .. Len(A) \/ k - Len(A) \in 1 .. Len(B)
<1>1. /\ Len(A) \in Nat /\ Len(B) \in Nat /\ Len(A \o B) = Len(A) + Len(B)
      /\ \A j \in 1 .. Len(A) : (A \o B)[j] = A[j]
      /\ \A j \in 1 .. Len(B) : (A \o B)[Len(A) + j] = B[j]
  BY JoinPlans
<1>2. \A j \in 1 .. Len(A) : 0 + j = j
  BY <1>1
<1> QED
  BY <1>1, <1>2 DEF PartOf

\* What the first part makes, and nothing takes apart, the second may use.
LEMMA JoinSound ==
  ASSUME NEW A, NEW B, NEW base, NEW more, Sound(A, base), Sound(B, base \cup more),
         \A u \in more : Firm(u) /\ \E j \in 1 .. Len(A) : A[j] = MakeOf(u)
  PROVE  Sound(A \o B, base)
<1> DEFINE P == A \o B
<1>1. IsPlan(A) /\ IsPlan(B)
  BY DEF Sound
<1>2. /\ PartOf(A, P, 0) /\ PartOf(B, P, Len(A)) /\ IsPlan(P) /\ Len(P) = Len(A) + Len(B)
      /\ Len(A) \in Nat /\ Len(B) \in Nat
      /\ \A k \in 1 .. Len(P) : k \in 1 .. Len(A) \/ k - Len(A) \in 1 .. Len(B)
  BY <1>1, JoinPlans, JoinParts
<1> HIDE DEF P
<1>3. ASSUME NEW k \in 1 .. Len(A) PROVE SoundAt(P, k, base)
  <2>1. SoundAt(P, 0 + k, base)
    BY <1>2, PartSound DEF Sound
  <2> QED
    BY <2>1
<1>4. ASSUME NEW j \in 1 .. Len(B) PROVE SoundAt(P, Len(A) + j, base \cup more)
  BY <1>2, PartSound DEF Sound
<1>5. ASSUME NEW u \in more, NEW k \in 1 .. Len(P), k > Len(A) PROVE MadeBy(P, u, k)
  <2>1. PICK j \in 1 .. Len(A) : A[j] = MakeOf(u)
    OBVIOUS
  <2>2. P[j] = MakeOf(u) /\ j \in 1 .. k - 1
    <3>1. P[0 + j] = A[j]
      BY <1>2 DEF PartOf
    <3> QED
      BY <1>2, <1>5, <2>1, <3>1
  <2>3. ASSUME NEW i \in 1 .. k - 1, P[i] = DropOf(u) PROVE FALSE
    <3>1. P[i].op = "drop" /\ P[i].handle = u
      BY <2>3 DEF DropOf
    <3>2. i \in 1 .. Len(A) \/ i - Len(A) \in 1 .. Len(B)
      BY <1>2
    <3>3. i \in 1 .. Len(A) => SoundAt(P, i, base)
      BY <1>3
    <3>4. i - Len(A) \in 1 .. Len(B) => SoundAt(P, Len(A) + (i - Len(A)), base \cup more)
      BY <1>4
    <3>5. Len(A) + (i - Len(A)) = i
      BY <1>2
    <3> QED
      BY <3>1, <3>2, <3>3, <3>4, <3>5 DEF SoundAt
  <2> QED
    BY <1>2, <2>2, <2>3 DEF MadeBy
<1>6. ASSUME NEW k \in 1 .. Len(P), k > Len(A) PROVE SoundAt(P, k, base)
  <2>1. k - Len(A) \in 1 .. Len(B) /\ Len(A) + (k - Len(A)) = k
    BY <1>2, <1>6
  <2>2. SoundAt(P, k, base \cup more)
    <3>1. SoundAt(P, Len(A) + (k - Len(A)), base \cup more)
      BY <1>4, <2>1
    <3> QED
      BY <2>1, <3>1
  <2> QED
    BY <1>5, <1>6, <2>2 DEF SoundAt
<1>7. \A k \in 1 .. Len(P) : SoundAt(P, k, base)
  BY <1>2, <1>3, <1>6
<1> QED
  BY <1>2, <1>7 DEF Sound, P

\* The owners of what two plans make.
LEMMA MakersJoin ==
  ASSUME NEW A, NEW B, IsPlan(A), IsPlan(B), NEW S, NEW T, Makers(A, S), Makers(B, T)
  PROVE  Makers(A \o B, S \cup T)
<1> DEFINE P == A \o B
<1>1. /\ PartOf(A, P, 0) /\ PartOf(B, P, Len(A)) /\ Len(A) \in Nat
      /\ \A k \in 1 .. Len(P) : k \in 1 .. Len(A) \/ k - Len(A) \in 1 .. Len(B)
  BY JoinPlans, JoinParts
<1>2. ASSUME NEW k \in 1 .. Len(P), P[k].op = "make" PROVE P[k].handle[1] \in S \cup T
  <2>1. CASE k \in 1 .. Len(A)
    <3>1. P[0 + k] = A[k]
      BY <1>1, <2>1 DEF PartOf
    <3> QED
      BY <1>2, <2>1, <3>1 DEF Makers
  <2>2. CASE k - Len(A) \in 1 .. Len(B)
    <3>1. P[Len(A) + (k - Len(A))] = B[k - Len(A)]
      BY <1>1, <2>2 DEF PartOf
    <3>2. Len(A) + (k - Len(A)) = k
      BY <1>1
    <3> QED
      BY <1>2, <2>2, <3>1, <3>2 DEF Makers
  <2> QED
    BY <1>1, <2>1, <2>2
<1> QED
  BY <1>2 DEF Makers

\* Two plans, the second of which makes nothing over what the first leaves.
LEMMA NewJoin ==
  ASSUME NEW A, NEW B, IsPlan(A), IsPlan(B), NEW before, NEW S,
         New(before, A), Makers(A, S), New(before \cup S, B)
  PROVE  New(before, A \o B)
<1> DEFINE P == A \o B
<1>1. /\ PartOf(A, P, 0) /\ PartOf(B, P, Len(A)) /\ Len(A) \in Nat /\ Len(B) \in Nat
      /\ \A k \in 1 .. Len(P) : k \in 1 .. Len(A) \/ k - Len(A) \in 1 .. Len(B)
  BY JoinPlans, JoinParts
<1> HIDE DEF P
<1>2. \A j \in 1 .. Len(A) : P[j] = A[j]
  <2>1. \A j \in 1 .. Len(A) : P[0 + j] = A[j] /\ 0 + j = j
    BY <1>1 DEF PartOf
  <2> QED
    BY <2>1
<1>3. \A j \in 1 .. Len(B) : P[Len(A) + j] = B[j]
  BY <1>1 DEF PartOf
<1>4. ASSUME NEW k \in 1 .. Len(A), P[k].op = "make"
      PROVE  \/ DroppedBy(P, P[k].handle, k)
             \/ P[k].handle[1] \notin before /\ \A j \in 1 .. k - 1 : P[j] # P[k]
  <2>1. CASE DroppedBy(A, A[k].handle, k)
    <3>1. DroppedBy(P, A[k].handle, 0 + k)
      BY <1>1, <2>1, PartMade
    <3> QED
      BY <1>2, <3>1
  <2>2. CASE A[k].handle[1] \notin before /\ \A j \in 1 .. k - 1 : A[j] # A[k]
    BY <1>1, <1>2, <2>2
  <2> QED
    BY <1>2, <1>4, <2>1, <2>2 DEF New
<1>5. ASSUME NEW i \in 1 .. Len(B), B[i].op = "make"
      PROVE  \/ DroppedBy(P, B[i].handle, Len(A) + i)
             \/ B[i].handle[1] \notin before /\ \A j \in 1 .. (Len(A) + i) - 1 : P[j] # B[i]
  <2>1. CASE DroppedBy(B, B[i].handle, i)
    BY <1>1, <2>1, PartMade
  <2>2. CASE B[i].handle[1] \notin before \cup S /\ \A j \in 1 .. i - 1 : B[j] # B[i]
    <3> SUFFICES ASSUME NEW j \in 1 .. (Len(A) + i) - 1 PROVE P[j] # B[i]
      BY <2>2
    <3>1. CASE j \in 1 .. Len(A)
      BY <1>2, <1>5, <2>2, <3>1 DEF Makers
    <3>2. CASE j > Len(A)
      <4>1. j - Len(A) \in 1 .. i - 1 /\ j - Len(A) \in 1 .. Len(B) /\ Len(A) + (j - Len(A)) = j
        BY <1>1, <3>2
      <4>2. P[Len(A) + (j - Len(A))] = B[j - Len(A)]
        BY <1>3, <4>1
      <4> QED
        BY <2>2, <4>1, <4>2
    <3> QED
      BY <1>1, <3>1, <3>2
  <2> QED
    BY <1>5, <2>1, <2>2 DEF New
<1>6. ASSUME NEW k \in 1 .. Len(P), P[k].op = "make"
      PROVE  \/ DroppedBy(P, P[k].handle, k)
             \/ P[k].handle[1] \notin before /\ \A j \in 1 .. k - 1 : P[j] # P[k]
  <2>1. CASE k - Len(A) \in 1 .. Len(B)
    <3> DEFINE i == k - Len(A)
    <3>1. i \in 1 .. Len(B) /\ Len(A) + i = k
      BY <1>1, <2>1
    <3>2. P[Len(A) + i] = B[i]
      BY <1>3, <3>1
    <3> HIDE DEF i
    <3> QED
      BY <1>5, <1>6, <3>1, <3>2
  <2> QED
    BY <1>1, <1>4, <1>6, <2>1
<1> QED
  BY <1>6 DEF New, P

\* Two destructors, the second of which comes after the first.
LEMMA OrderJoin ==
  ASSUME NEW A, NEW B, IsPlan(A), IsPlan(B), NEW before,
         InOrder(A, before), InOrder(B, before \cup Handled(A))
  PROVE  InOrder(A \o B, before)
<1> DEFINE P == A \o B
<1>1. /\ PartOf(A, P, 0) /\ PartOf(B, P, Len(A)) /\ Len(A) \in Nat /\ Len(B) \in Nat
      /\ \A k \in 1 .. Len(P) : k \in 1 .. Len(A) \/ k - Len(A) \in 1 .. Len(B)
      /\ DOMAIN A = 1 .. Len(A)
  BY JoinPlans, JoinParts DEF IsPlan
<1> HIDE DEF P
<1>2. \A j \in 1 .. Len(A) : P[j] = A[j]
  <2>1. \A j \in 1 .. Len(A) : P[0 + j] = A[j] /\ 0 + j = j
    BY <1>1 DEF PartOf
  <2> QED
    BY <2>1
<1>3. \A j \in 1 .. Len(B) : P[Len(A) + j] = B[j]
  BY <1>1 DEF PartOf
<1>4. ASSUME NEW k \in 1 .. Len(P), NEW v \in Handled(Members), Known(v),
             P[k].handle \in Uses(v), v \notin before
      PROVE  \E j \in 1 .. k - 1 : P[j].handle = v
  <2>1. CASE k \in 1 .. Len(A)
    <3>1. PICK j \in 1 .. k - 1 : A[j].handle = v
      BY <1>2, <1>4, <2>1 DEF InOrder
    <3>2. j \in 1 .. Len(A)
      BY <1>1, <2>1
    <3> QED
      BY <1>2, <3>1, <3>2
  <2>2. CASE k - Len(A) \in 1 .. Len(B)
    <3> DEFINE i == k - Len(A)
    <3>1. i \in 1 .. Len(B) /\ Len(A) + i = k
      BY <1>1, <2>2
    <3> HIDE DEF i
    <3>2. v \in Handled(A) \/ \E j \in 1 .. i - 1 : B[j].handle = v
      BY <1>3, <1>4, <3>1 DEF InOrder
    <3>3. CASE v \in Handled(A)
      <4>1. PICK j \in 1 .. Len(A) : A[j].handle = v
        BY <1>1, <3>3 DEF Handled
      <4>2. j \in 1 .. k - 1
        BY <1>1, <3>1
      <4> QED
        BY <1>2, <4>1, <4>2
    <3>4. ASSUME NEW j \in 1 .. i - 1, B[j].handle = v PROVE \E m \in 1 .. k - 1 : P[m].handle = v
      <4>1. j \in 1 .. Len(B) /\ Len(A) + j \in 1 .. k - 1
        BY <1>1, <3>1
      <4> QED
        BY <1>3, <3>4, <4>1
    <3> QED
      BY <3>2, <3>3, <3>4
  <2> QED
    BY <1>1, <2>1, <2>2
<1> QED
  BY <1>4 DEF InOrder, P

LEMMA RangeJoin ==
  ASSUME NEW A, NEW B, IsPlan(A), IsPlan(B), NEW c \in Range(A) \cup Range(B)
  PROVE  c \in Range(A \o B)
<1> DEFINE P == A \o B
<1>1. /\ Len(A) \in Nat /\ Len(B) \in Nat /\ Len(P) = Len(A) + Len(B) /\ DOMAIN P = 1 .. Len(P)
      /\ \A j \in 1 .. Len(A) : P[j] = A[j]
      /\ \A j \in 1 .. Len(B) : P[Len(A) + j] = B[j]
      /\ DOMAIN A = 1 .. Len(A) /\ DOMAIN B = 1 .. Len(B)
  BY JoinPlans DEF IsPlan
<1> HIDE DEF P
<1>2. CASE c \in Range(A)
  <2>1. PICK j \in 1 .. Len(A) : A[j] = c
    BY <1>1, <1>2 DEF Range
  <2>2. j \in DOMAIN P /\ P[j] = c
    BY <1>1, <2>1
  <2> QED
    BY <2>2 DEF Range, P
<1>3. CASE c \in Range(B)
  <2>1. PICK j \in 1 .. Len(B) : B[j] = c
    BY <1>1, <1>3 DEF Range
  <2>2. Len(A) + j \in DOMAIN P /\ P[Len(A) + j] = c
    BY <1>1, <2>1
  <2> QED
    BY <2>2 DEF Range, P
<1> QED
  BY <1>2, <1>3

-----------------------------------------------------------------------------
(* The same steps for each owner *)

LEMMA CommandIs ==
  \A t, o : /\ Command(t, o).op = t[1] /\ Command(t, o).handle = <<o, t[2]>>
            /\ Command(t, o).handle[1] = o /\ IsCommand(Command(t, o))
BY DEF Command, IsCommand, IsPair

Place(T, i, s) == (i - 1) * Len(T) + s

\* Where a step of Each comes from: which owner's, and which of the template's.
LEMMA EachAt ==
  ASSUME NEW T, NEW O, Len(T) \in Nat \ {0}, Len(O) \in Nat
  PROVE  /\ Len(Each(T, O)) = Len(O) * Len(T) /\ Len(Each(T, O)) \in Nat
         /\ DOMAIN Each(T, O) = 1 .. Len(Each(T, O))
         /\ \A i \in 1 .. Len(O), s \in 1 .. Len(T) :
              /\ Place(T, i, s) \in 1 .. Len(Each(T, O))
              /\ Each(T, O)[Place(T, i, s)] = Command(T[s], O[i])
         /\ \A k \in 1 .. Len(Each(T, O)) : \E i \in 1 .. Len(O), s \in 1 .. Len(T) :
              k = Place(T, i, s)
<1> DEFINE n == Len(T)
           m == Len(O)
           At(k) == Command(T[((k - 1) % n) + 1], O[((k - 1) \div n) + 1])
<1>1. n \in Nat \ {0} /\ m \in Nat /\ m * n \in Nat
  BY SMT
<1>2. Each(T, O) = [k \in 1 .. m * n |-> At(k)]
  BY DEF Each
<1>3. \A k \in 1 .. m * n : Each(T, O)[k] = At(k)
  BY <1>2
<1>4. Len(Each(T, O)) = m * n /\ DOMAIN Each(T, O) = 1 .. m * n
  <2> DEFINE F == [k \in 1 .. m * n |-> At(k)]
  <2>1. DOMAIN F = 1 .. m * n
    OBVIOUS
  <2>2. F \in Seq(Range(F))
    <3> HIDE DEF At
    <3> QED
      BY <1>1, <2>1 DEF Range
  <2> HIDE DEF F
  <2>3. Len(F) = m * n
    BY <1>1, <2>1, <2>2
  <2> QED
    BY <1>2, <2>1, <2>3 DEF F
<1>5. ASSUME NEW i \in 1 .. m, NEW s \in 1 .. n
      PROVE  /\ (i - 1) * n \in Nat /\ (i - 1) * n + n <= m * n
             /\ (i - 1) * n + s \in 1 .. m * n
             /\ (((i - 1) * n + s) - 1) % n = s - 1 /\ (((i - 1) * n + s) - 1) \div n = i - 1
  <2> DEFINE q == i - 1
             r == s - 1
  <2>1. q \in Nat /\ r \in 0 .. n - 1 /\ m - 1 - q \in Nat
    BY <1>1
  <2>2. (q * n + r) % n = r /\ (q * n + r) \div n = q /\ q * n \in Nat
    <3> HIDE DEF q, r, n
    <3> QED
      BY <1>1, <2>1, SMT
  <2>3. (m - 1 - q) * n \in Nat /\ (m - 1 - q) * n = m * n - n - q * n
    <3> HIDE DEF q, r, n, m
    <3> QED
      BY <1>1, <2>1, SMT
  <2> HIDE DEF n, m
  <2> QED
    BY <1>1, <2>1, <2>2, <2>3
<1>6. ASSUME NEW i \in 1 .. m, NEW s \in 1 .. n
      PROVE  Each(T, O)[(i - 1) * n + s] = Command(T[s], O[i])
  <2>1. Each(T, O)[(i - 1) * n + s] = At((i - 1) * n + s)
    BY <1>3, <1>5
  <2>2. ((((i - 1) * n + s) - 1) % n) + 1 = s /\ ((((i - 1) * n + s) - 1) \div n) + 1 = i
    <3> HIDE DEF n, m
    <3> QED
      BY <1>1, <1>5
  <2> HIDE DEF n, m
  <2> QED
    BY <2>1, <2>2 DEF At
<1>7. ASSUME NEW k \in 1 .. m * n PROVE \E i \in 1 .. m, s \in 1 .. n : k = (i - 1) * n + s
  <2> DEFINE i == ((k - 1) \div n) + 1
             s == ((k - 1) % n) + 1
  <2>1. i \in 1 .. m /\ s \in 1 .. n /\ k = (i - 1) * n + s
    <3> DEFINE d == (k - 1) \div n
               r == (k - 1) % n
    <3>1. k - 1 = d * n + r /\ r \in 0 .. n - 1 /\ d \in Nat
      <4> HIDE DEF n, m
      <4> QED
        BY <1>1, SMT
    <3>2. d < m
      <4> HIDE DEF n, m, d, r
      <4> SUFFICES ASSUME d - m \in Nat PROVE FALSE
        BY <1>1, <3>1
      <4>1. (d - m) * n \in Nat /\ (d - m) * n = d * n - m * n
        BY <1>1, <3>1, SMT
      <4> QED
        BY <1>1, <3>1, <4>1
    <3> HIDE DEF d, r, n, m
    <3>3. d + 1 \in 1 .. m /\ r + 1 \in 1 .. n /\ k = ((d + 1) - 1) * n + (r + 1)
      BY <1>1, <3>1, <3>2
    <3> QED
      BY <3>3 DEF d, r
  <2> QED
    BY <2>1
<1> HIDE DEF At, n, m
<1>8. ASSUME NEW i \in 1 .. m, NEW s \in 1 .. n
      PROVE  /\ Place(T, i, s) \in 1 .. Len(Each(T, O))
             /\ Each(T, O)[Place(T, i, s)] = Command(T[s], O[i])
  <2>1. Place(T, i, s) = (i - 1) * n + s
    BY DEF Place, n
  <2>2. (i - 1) * n + s \in 1 .. m * n
    BY <1>5
  <2>3. Each(T, O)[(i - 1) * n + s] = Command(T[s], O[i])
    BY <1>6
  <2> QED
    BY <1>4, <2>1, <2>2, <2>3
<1>9. ASSUME NEW k \in 1 .. Len(Each(T, O))
      PROVE  \E i \in 1 .. m, s \in 1 .. n : k = Place(T, i, s)
  <2>1. k \in 1 .. m * n
    BY <1>4
  <2>2. PICK i \in 1 .. m, s \in 1 .. n : k = (i - 1) * n + s
    BY <1>7, <2>1
  <2>3. k = Place(T, i, s)
    BY <2>2 DEF Place, n
  <2> QED
    BY <2>3
<1>10. /\ Len(Each(T, O)) = m * n /\ Len(Each(T, O)) \in Nat
       /\ DOMAIN Each(T, O) = 1 .. Len(Each(T, O))
  BY <1>1, <1>4
<1> QED
  BY <1>8, <1>9, <1>10 DEF n, m

\* And where each owner's steps are.
LEMMA EachFrom ==
  ASSUME NEW T, NEW O, Len(T) \in Nat \ {0}, Len(O) \in Nat, NEW i \in 1 .. Len(O)
  PROVE  /\ Place(T, i, 0) \in Nat /\ Place(T, i, 0) + Len(T) <= Len(Each(T, O))
         /\ \A s \in 1 .. Len(T) : Place(T, i, 0) + s = Place(T, i, s)
<1> DEFINE n == Len(T)
           p == i - 1
<1>1. n \in Nat \ {0} /\ p \in Nat
  OBVIOUS
<1>2. p * n \in Nat
  <2> HIDE DEF n, p
  <2> QED
    BY <1>1, SMT
<1>3. \A s \in 0 .. n : Place(T, i, s) = p * n + s
  BY DEF Place
<1>4. Place(T, i, n) \in 1 .. Len(Each(T, O))
  BY <1>1, EachAt
<1>5. Len(Each(T, O)) \in Nat
  BY EachAt
<1> HIDE DEF n, p
<1>6. /\ Place(T, i, 0) \in Nat /\ Place(T, i, 0) + n <= Len(Each(T, O))
      /\ \A s \in 1 .. n : Place(T, i, 0) + s = Place(T, i, s)
  BY <1>1, <1>2, <1>3, <1>4, <1>5
<1> QED
  BY <1>6 DEF n

One(T, o) == Each(T, <<o>>)

LEMMA EachOne ==
  ASSUME NEW T, Len(T) \in Nat \ {0}, NEW o
  PROVE  /\ Len(One(T, o)) = Len(T) /\ DOMAIN One(T, o) = 1 .. Len(T)
         /\ \A s \in 1 .. Len(T) : One(T, o)[s] = Command(T[s], o)
<1>1. ASSUME NEW O, Len(O) = 1, O[1] = o
      PROVE  /\ Len(Each(T, O)) = Len(T) /\ DOMAIN Each(T, O) = 1 .. Len(T)
             /\ \A s \in 1 .. Len(T) : Each(T, O)[s] = Command(T[s], o)
  <2>1. Len(O) \in Nat
    BY <1>1
  <2>2. /\ Len(Each(T, O)) = Len(O) * Len(T) /\ DOMAIN Each(T, O) = 1 .. Len(Each(T, O))
        /\ \A i \in 1 .. Len(O), s \in 1 .. Len(T) : Each(T, O)[Place(T, i, s)] = Command(T[s], O[i])
    BY <2>1, EachAt
  <2>3. \A s \in 1 .. Len(T) : Place(T, 1, s) = s
    BY DEF Place
  <2>4. Len(O) * Len(T) = Len(T)
    BY <1>1
  <2> QED
    BY <1>1, <2>2, <2>3, <2>4
<1>2. Len(<<o>>) = 1 /\ <<o>>[1] = o
  OBVIOUS
<1> QED
  BY <1>1, <1>2 DEF One

LEMMA EachPart ==
  ASSUME NEW T, NEW O, Len(T) \in Nat \ {0}, Len(O) \in Nat, NEW i \in 1 .. Len(O)
  PROVE  PartOf(One(T, O[i]), Each(T, O), Place(T, i, 0))
<1>1. /\ Len(Each(T, O)) \in Nat
      /\ \A s \in 1 .. Len(T) :
           Each(T, O)[Place(T, i, s)] = Command(T[s], O[i])
  BY EachAt
<1>2. /\ Len(One(T, O[i])) = Len(T)
      /\ \A s \in 1 .. Len(T) : One(T, O[i])[s] = Command(T[s], O[i])
  BY EachOne
<1> QED
  BY <1>1, <1>2, EachFrom DEF PartOf

LEMMA EachPlan ==
  ASSUME NEW T, NEW O, Len(T) \in Nat \ {0}, Len(O) \in Nat
  PROVE  /\ IsPlan(Each(T, O))
         /\ \A i \in 1 .. Len(O), s \in 1 .. Len(T) : <<O[i], T[s][2]>> \in Handled(Each(T, O))
<1> DEFINE P == Each(T, O)
<1>1. /\ DOMAIN P = 1 .. Len(P) /\ Len(P) \in Nat
      /\ \A i \in 1 .. Len(O), s \in 1 .. Len(T) :
           /\ Place(T, i, s) \in 1 .. Len(P)
           /\ P[Place(T, i, s)] = Command(T[s], O[i])
      /\ \A k \in 1 .. Len(P) : \E i \in 1 .. Len(O), s \in 1 .. Len(T) : k = Place(T, i, s)
  BY EachAt
<1>2. P = [k \in 1 .. Len(P) |-> P[k]]
  BY <1>1 DEF Each
<1> HIDE DEF P
<1>3. P \in Seq(Range(P))
  <2>1. \A k \in 1 .. Len(P) : P[k] \in Range(P)
    BY <1>1 DEF Range
  <2> QED
    BY <1>1, <1>2, <2>1
<1>4. \A k \in 1 .. Len(P) : IsCommand(P[k])
  BY <1>1, CommandIs
<1>5. ASSUME NEW i \in 1 .. Len(O), NEW s \in 1 .. Len(T) PROVE <<O[i], T[s][2]>> \in Handled(P)
  <2>1. /\ Place(T, i, s) \in DOMAIN P
        /\ P[Place(T, i, s)].handle = <<O[i], T[s][2]>>
    BY <1>1, CommandIs
  <2> QED
    BY <2>1 DEF Handled
<1> QED
  BY <1>3, <1>4, <1>5 DEF IsPlan, P

\* If the steps of each owner are sound alone, all are.
LEMMA EachSound ==
  ASSUME NEW T, NEW O, Len(T) \in Nat \ {0}, Len(O) \in Nat, NEW base,
         \A i \in 1 .. Len(O) : Sound(One(T, O[i]), base)
  PROVE  Sound(Each(T, O), base)
<1>1. ASSUME NEW k \in 1 .. Len(Each(T, O)) PROVE SoundAt(Each(T, O), k, base)
  <2>1. PICK i \in 1 .. Len(O), s \in 1 .. Len(T) : k = Place(T, i, s)
    BY EachAt
  <2>2. PartOf(One(T, O[i]), Each(T, O), Place(T, i, 0)) /\ s \in 1 .. Len(One(T, O[i]))
    BY EachPart, EachOne
  <2>3. SoundAt(One(T, O[i]), s, base)
    BY <2>2 DEF Sound
  <2>4. SoundAt(Each(T, O), Place(T, i, 0) + s, base)
    BY <2>2, <2>3, PartSound
  <2> QED
    BY <2>1, <2>4, EachFrom
<1> QED
  BY <1>1, EachPlan DEF Sound

LEMMA EachOwners ==
  ASSUME NEW T, NEW O, Len(T) \in Nat \ {0}, Len(O) \in Nat, NEW owners,
         \A i \in 1 .. Len(O) : O[i] \in owners
  PROVE  OwnersIn(Each(T, O), owners)
<1> SUFFICES ASSUME NEW k \in 1 .. Len(Each(T, O)) PROVE Each(T, O)[k].handle[1] \in owners
  BY DEF OwnersIn
<1>1. PICK i \in 1 .. Len(O), s \in 1 .. Len(T) : k = Place(T, i, s)
  BY EachAt
<1>2. Each(T, O)[k] = Command(T[s], O[i])
  BY <1>1, EachAt
<1> QED
  BY <1>2, CommandIs

LEMMA EachNew ==
  ASSUME NEW T, NEW O, Len(T) \in Nat \ {0}, Len(O) \in Nat, NEW before,
         \A i \in 1 .. Len(O) : New({}, One(T, O[i])) /\ O[i] \notin before,
         \A i, j \in 1 .. Len(O) : O[i] = O[j] => i = j
  PROVE  New(before, Each(T, O))
<1> DEFINE P == Each(T, O)
<1>1. /\ Len(P) \in Nat
      /\ \A i \in 1 .. Len(O), s \in 1 .. Len(T) :
           P[Place(T, i, s)] = Command(T[s], O[i])
      /\ \A k \in 1 .. Len(P) : \E i \in 1 .. Len(O), s \in 1 .. Len(T) : k = Place(T, i, s)
  BY EachAt
<1>2. \A i \in 1 .. Len(O) : PartOf(One(T, O[i]), P, Place(T, i, 0))
  BY EachPart
<1> HIDE DEF P
<1>3. ASSUME NEW k \in 1 .. Len(P), P[k].op = "make"
      PROVE  \/ DroppedBy(P, P[k].handle, k)
             \/ P[k].handle[1] \notin before /\ \A j \in 1 .. k - 1 : P[j] # P[k]
  <2>1. PICK i \in 1 .. Len(O), s \in 1 .. Len(T) : k = Place(T, i, s)
    BY <1>1
  <2> DEFINE Q == One(T, O[i])
             off == Place(T, i, 0)
  <2>2. Len(Q) = Len(T) /\ \A r \in 1 .. Len(T) : Q[r] = Command(T[r], O[i])
    BY EachOne
  <2>3. P[k] = Q[s] /\ P[k].handle[1] = O[i]
    <3>1. P[k] = Command(T[s], O[i]) /\ Q[s] = Command(T[s], O[i])
      BY <1>1, <2>1, <2>2
    <3> QED
      BY <3>1, CommandIs
  <2>4. PartOf(Q, P, off) /\ New({}, Q) /\ k = off + s
    BY <1>2, <2>1, EachFrom
  <2> HIDE DEF Q, off
  <2>5. CASE DroppedBy(Q, Q[s].handle, s)
    BY <2>2, <2>3, <2>4, <2>5, PartMade
  <2>6. CASE \A r \in 1 .. s - 1 : Q[r] # Q[s]
    <3> SUFFICES ASSUME NEW j \in 1 .. k - 1 PROVE P[j] # P[k]
      BY <2>3
    <3>1. PICK e \in 1 .. Len(O), r \in 1 .. Len(T) : j = Place(T, e, r)
      <4>1. j \in 1 .. Len(P)
        BY <1>1
      <4> QED
        BY <1>1, <4>1
    <3>2. P[j] = Command(T[r], O[e])
      BY <1>1, <3>1
    <3>3. CASE e = i
      <4>1. r \in 1 .. s - 1
        BY <2>1, <3>1, <3>3 DEF Place
      <4>2. Q[r] = P[j]
        BY <2>2, <3>2, <3>3
      <4> QED
        BY <2>3, <2>6, <4>1, <4>2
    <3>4. CASE e # i
      <4>1. P[j].handle[1] = O[e]
        BY <3>2, CommandIs
      <4> QED
        BY <2>3, <3>4, <4>1
    <3> QED
      BY <3>3, <3>4
  <2> QED
    BY <1>3, <2>2, <2>3, <2>4, <2>5, <2>6 DEF New
<1> QED
  BY <1>3 DEF New, P

LEMMA EachOrder ==
  ASSUME NEW T, NEW O, Len(T) \in Nat \ {0}, Len(O) \in Nat, NEW before,
         \A i \in 1 .. Len(O) : InOrder(One(T, O[i]), before)
  PROVE  InOrder(Each(T, O), before)
<1>1. ASSUME NEW k \in 1 .. Len(Each(T, O)), NEW v \in Handled(Members), Known(v),
             Each(T, O)[k].handle \in Uses(v), v \notin before
      PROVE  \E j \in 1 .. k - 1 : Each(T, O)[j].handle = v
  <2>1. PICK i \in 1 .. Len(O), s \in 1 .. Len(T) : k = Place(T, i, s)
    BY EachAt
  <2> DEFINE Q == One(T, O[i])
             off == Place(T, i, 0)
  <2>2. PartOf(Q, Each(T, O), off) /\ s \in 1 .. Len(Q) /\ k = off + s
    BY <2>1, EachPart, EachOne, EachFrom
  <2> HIDE DEF Q, off
  <2>3. Each(T, O)[k] = Q[s]
    BY <2>2 DEF PartOf
  <2>4. PICK r \in 1 .. s - 1 : Q[r].handle = v
    BY <1>1, <2>2, <2>3 DEF InOrder, Q
  <2>5. r \in 1 .. Len(Q) /\ off + r \in 1 .. k - 1 /\ Each(T, O)[off + r] = Q[r]
    BY <2>2 DEF PartOf
  <2> QED
    BY <2>4, <2>5
<1> QED
  BY <1>1 DEF InOrder

-----------------------------------------------------------------------------
(* One owner *)

LEMMA OnePlan ==
  ASSUME NEW T, Len(T) \in Nat \ {0}, NEW o
  PROVE  /\ IsPlan(One(T, o)) /\ Len(One(T, o)) = Len(T)
         /\ \A s \in 1 .. Len(T) :
              /\ One(T, o)[s] = Command(T[s], o) /\ One(T, o)[s].op = T[s][1]
              /\ One(T, o)[s].handle = <<o, T[s][2]>> /\ One(T, o)[s].handle[1] = o
<1>1. \A O : Len(O) \in Nat => IsPlan(Each(T, O))
  BY EachPlan
<1>2. IsPlan(One(T, o))
  <2>1. Len(<<o>>) \in Nat
    OBVIOUS
  <2> QED
    BY <1>1, <2>1 DEF One
<1> QED
  BY <1>2, EachOne, CommandIs

LEMMA CommandMakes ==
  \A o, p : /\ Command(<<"make", p>>, o) = MakeOf(<<o, p>>)
            /\ Command(<<"drop", p>>, o) = DropOf(<<o, p>>)
BY DEF Command, MakeOf, DropOf

\* An owner whose parts are made on the device alone.
Plain(o) == o \notin Undevised \cup {"chain", "ui_texture"}

\* What everything on the device is made from.
Floor == {<<"device", "handle">>, <<"allocator", "handle">>, <<"upload_pool", "handle">>}

\* What the destructors take apart, or the call itself.
Taken(o, parts) == \A p \in parts : <<o, p>> \in Handled(Members)

LEMMA PlainUses ==
  ASSUME NEW o, Plain(o)
  PROVE  /\ \A p \in {"handle", "layout", "pipeline", "module", "pool"} : Uses(<<o, p>>) \subseteq Floor
         /\ \A p \in {"image", "buffer", "staging", "command"} : Uses(<<o, p>>) \subseteq Floor
         /\ Uses(<<o, "view">>) \subseteq Floor \cup {<<o, "image">>}
BY DEF Plain, Uses, Floor, Undevised, OfInstance, OfSdl

\* A step that makes, right where it is.
MakesWell(P, k, base) ==
  LET h == P[k].handle
  IN  /\ P[k].op = "make"
      /\ \A u \in Uses(h) : u \in base \/ MadeBy(P, u, k)
      /\ h[2] \in Passing => Ends(P, k)
      /\ h[2] \in Passing \/ h = Loader \/ h \in Handled(Members)
      /\ h \notin Constructed

LEMMA MakesSound == \A P, k, base : MakesWell(P, k, base) => SoundAt(P, k, base)
BY DEF MakesWell, SoundAt

LEMMA ChecksSound == \A P, k, base : P[k].op = "check" => SoundAt(P, k, base)
BY DEF SoundAt

LEMMA DropsSound ==
  \A P, k, base : P[k].op = "drop" /\ P[k].handle[2] \in Passing \cup {"view", "ui_view"}
                    => SoundAt(P, k, base)
BY DEF SoundAt, Passing, Firm

LEMMA PartsNotConstructed ==
  \A o : \A p \in {"handle", "layout", "pipeline", "module", "pool", "image", "buffer", "staging",
                   "command", "view"} : <<o, p>> \notin Constructed
BY DEF Constructed

\* A step of a template that is right for any owner on the device.
StepWell(T, s, o) ==
  \/ T[s][1] = "check"
  \/ \E p \in {"handle", "layout", "pipeline", "pool", "image", "buffer"} :
       T[s] = <<"make", p>> /\ Taken(o, {p})
  \/ /\ T[s] = <<"make", "view">> /\ Taken(o, {"view"})
     /\ s > 1 /\ T[s - 1] = <<"make", "image">>
  \/ \E p \in Passing :
       T[s] = <<"make", p>> /\ \E m \in s + 1 .. Len(T) : T[m] = <<"drop", p>>
  \/ \E p \in Passing \cup {"view"} : T[s] = <<"drop", p>>
  \/ T[s] = <<"drop", "image">> /\ s > 1 /\ T[s - 1] = <<"drop", "view">>

LEMMA OneStep ==
  ASSUME NEW T, Len(T) \in Nat \ {0}, NEW o, Plain(o), NEW base, Floor \subseteq base,
         NEW s \in 1 .. Len(T), StepWell(T, s, o)
  PROVE  SoundAt(One(T, o), s, base)
<1> DEFINE P == One(T, o)
<1>1. /\ Len(P) = Len(T)
      /\ \A r \in 1 .. Len(T) : P[r] = Command(T[r], o) /\ P[r].op = T[r][1]
                                /\ P[r].handle = <<o, T[r][2]>> /\ P[r].handle[1] = o
  BY OnePlan
<1> HIDE DEF P
<1>2. s > 1 => s - 1 \in 1 .. Len(T)
  OBVIOUS
<1>3. CASE T[s][1] = "check"
  BY <1>1, <1>3, ChecksSound DEF P
<1>4. ASSUME NEW p \in {"handle", "layout", "pipeline", "pool", "image", "buffer"},
             T[s] = <<"make", p>>, Taken(o, {p})
      PROVE  SoundAt(P, s, base)
  <2>1. P[s].op = "make" /\ P[s].handle = <<o, p>>
    BY <1>1, <1>4
  <2>2. Uses(<<o, p>>) \subseteq base /\ <<o, p>> \in Handled(Members) /\ <<o, p>> \notin Constructed
    BY <1>4, PlainUses, PartsNotConstructed DEF Taken
  <2>3. <<o, p>>[2] \notin Passing
    BY DEF Passing
  <2> QED
    BY <2>1, <2>2, <2>3, MakesSound DEF MakesWell
<1>5. CASE /\ T[s] = <<"make", "view">> /\ Taken(o, {"view"})
           /\ s > 1 /\ T[s - 1] = <<"make", "image">>
  <2>1. P[s].op = "make" /\ P[s].handle = <<o, "view">> /\ P[s - 1] = MakeOf(<<o, "image">>)
    BY <1>1, <1>2, <1>5, CommandMakes
  <2>2. MadeBy(P, <<o, "image">>, s)
    <3>1. s - 1 \in 1 .. s - 1 /\ (s - 1) + 1 .. s - 1 = {}
      BY <1>5
    <3> QED
      BY <2>1, <3>1 DEF MadeBy
  <2>3. /\ Uses(<<o, "view">>) \subseteq base \cup {<<o, "image">>}
        /\ <<o, "view">> \in Handled(Members) /\ <<o, "view">> \notin Constructed
    BY <1>5, PlainUses, PartsNotConstructed DEF Taken
  <2>4. <<o, "view">>[2] \notin Passing
    BY DEF Passing
  <2> QED
    BY <2>1, <2>2, <2>3, <2>4, MakesSound DEF MakesWell, P
<1>6. ASSUME NEW p \in Passing, T[s] = <<"make", p>>,
             NEW m \in s + 1 .. Len(T), T[m] = <<"drop", p>>
      PROVE  SoundAt(P, s, base)
  <2>1. m \in 1 .. Len(T) /\ s .. m \subseteq 1 .. Len(T)
    BY <1>6
  <2>2. P[s].op = "make" /\ P[s].handle = <<o, p>> /\ P[m] = DropOf(<<o, p>>)
    BY <1>1, <1>6, <2>1, CommandMakes
  <2>3. Ends(P, s)
    BY <1>1, <2>1, <2>2 DEF Ends
  <2>4. Uses(<<o, p>>) \subseteq base /\ <<o, p>> \notin Constructed /\ <<o, p>>[2] \in Passing
    BY PlainUses, PartsNotConstructed DEF Passing
  <2> QED
    BY <2>2, <2>3, <2>4, MakesSound DEF MakesWell
<1>7. ASSUME NEW p \in Passing \cup {"view"}, T[s] = <<"drop", p>> PROVE SoundAt(P, s, base)
  <2>1. P[s].op = "drop" /\ P[s].handle[2] = p
    BY <1>1, <1>7
  <2> QED
    BY <2>1, DropsSound
<1>8. CASE T[s] = <<"drop", "image">> /\ s > 1 /\ T[s - 1] = <<"drop", "view">>
  <2>1. P[s].op = "drop" /\ P[s].handle = <<o, "image">> /\ P[s - 1] = DropOf(<<o, "view">>)
    BY <1>1, <1>2, <1>8, CommandMakes
  <2>2. DroppedBy(P, <<o, "view">>, s)
    <3>1. s - 1 \in 1 .. s - 1 /\ (s - 1) + 1 .. s - 1 = {}
      BY <1>8
    <3> QED
      BY <2>1, <3>1 DEF DroppedBy
  <2>3. <<o, "image">>[2] = "image" /\ <<o, "image">>[1] = o
    OBVIOUS
  <2>4. ~Firm(<<o, "image">>) /\ <<o, "image">> # <<"chain", "handle">>
    BY DEF Firm
  <2> QED
    BY <2>1, <2>2, <2>3, <2>4 DEF SoundAt, P
<1> QED
  BY <1>3, <1>4, <1>5, <1>6, <1>7, <1>8 DEF StepWell, P

\* A template whose steps are right for an owner is sound for it.
LEMMA OneSound ==
  ASSUME NEW T, Len(T) \in Nat \ {0}, NEW o, Plain(o), NEW base, Floor \subseteq base,
         \A s \in 1 .. Len(T) : StepWell(T, s, o)
  PROVE  Sound(One(T, o), base)
BY OnePlan, OneStep DEF Sound

\* No part is made twice, but for one that has gone in between.
NewSteps(T) ==
  \A s \in 1 .. Len(T) : T[s][1] = "make" =>
    \/ \A r \in 1 .. s - 1 : T[r][1] # "make" \/ T[r][2] # T[s][2]
    \/ \E r \in 1 .. s - 1 : /\ T[r] = <<"drop", T[s][2]>>
                             /\ \A i \in r + 1 .. s - 1 : T[i][2] # T[s][2]

\* A template that makes no part over another is new for any owner.
LEMMA OneNew ==
  ASSUME NEW T, Len(T) \in Nat \ {0}, NEW o,
         NewSteps(T)
  PROVE  New({}, One(T, o))
<1> DEFINE P == One(T, o)
<1>1. /\ Len(P) = Len(T)
      /\ \A r \in 1 .. Len(T) : P[r] = Command(T[r], o) /\ P[r].op = T[r][1]
                                /\ P[r].handle = <<o, T[r][2]>>
  BY OnePlan
<1> HIDE DEF P
<1> SUFFICES ASSUME NEW s \in 1 .. Len(T), T[s][1] = "make"
             PROVE  DroppedBy(P, P[s].handle, s) \/ \A j \in 1 .. s - 1 : P[j] # P[s]
  BY <1>1 DEF New, P
<1>2. 1 .. s - 1 \subseteq 1 .. Len(T)
  OBVIOUS
<1>3. \A r \in 1 .. Len(T) : P[r].handle[2] = T[r][2]
  BY <1>1
<1>4. CASE \A r \in 1 .. s - 1 : T[r][1] # "make" \/ T[r][2] # T[s][2]
  <2>1. \A r \in 1 .. s - 1 : P[r].op # P[s].op \/ P[r].handle[2] # P[s].handle[2]
    BY <1>1, <1>2, <1>3, <1>4
  <2> QED
    BY <2>1
<1>5. ASSUME NEW r \in 1 .. s - 1, T[r] = <<"drop", T[s][2]>>,
             \A i \in r + 1 .. s - 1 : T[i][2] # T[s][2]
      PROVE  DroppedBy(P, P[s].handle, s)
  <2>1. P[r] = DropOf(P[s].handle)
    <3>1. Command(T[r], o) = DropOf(<<o, T[s][2]>>)
      BY <1>5, CommandMakes
    <3>2. r \in 1 .. Len(T)
      BY <1>2
    <3> QED
      BY <1>1, <3>1, <3>2
  <2>2. ASSUME NEW i \in r + 1 .. s - 1 PROVE P[i] # MakeOf(P[s].handle)
    <3>1. i \in 1 .. Len(T) /\ P[i].handle[2] # P[s].handle[2]
      BY <1>3, <1>5
    <3> QED
      BY <3>1 DEF MakeOf
  <2> QED
    BY <2>1, <2>2 DEF DroppedBy
<1> QED
  BY <1>4, <1>5 DEF NewSteps

\* A template that makes these parts of its owner.
MakesParts(T, parts) ==
  /\ Len(T) \in Nat \ {0} /\ NewSteps(T)
  /\ \A o : Taken(o, parts) => \A s \in 1 .. Len(T) : StepWell(T, s, o)

\* Lists of owners.
Distinct(O) == \A i, j \in 1 .. Len(O) : O[i] = O[j] => i = j
Owners(O) == {O[i] : i \in 1 .. Len(O)}

\* A template and a list of different owners: what it makes of them.
LEMMA EachMade ==
  ASSUME NEW T, NEW parts, MakesParts(T, parts), NEW O, Len(O) \in Nat, Distinct(O),
         NEW before, NEW base, Floor \subseteq base,
         \A o \in Owners(O) : Plain(o) /\ Taken(o, parts) /\ o \notin before
  PROVE  /\ Sound(Each(T, O), base) /\ New(before, Each(T, O)) /\ OwnersIn(Each(T, O), Owners(O))
         /\ IsPlan(Each(T, O))
<1>1. Len(T) \in Nat \ {0}
  BY DEF MakesParts
<1>2. \A i \in 1 .. Len(O) : O[i] \in Owners(O)
  BY DEF Owners
<1>3. ASSUME NEW i \in 1 .. Len(O) PROVE Sound(One(T, O[i]), base) /\ New({}, One(T, O[i]))
  <2>1. Plain(O[i]) /\ \A s \in 1 .. Len(T) : StepWell(T, s, O[i])
    BY <1>2 DEF MakesParts
  <2> QED
    BY <1>1, <2>1, OneSound, OneNew DEF MakesParts
<1>4. Sound(Each(T, O), base)
  BY <1>1, <1>3, EachSound
<1>5. New(before, Each(T, O))
  BY <1>1, <1>2, <1>3, EachNew DEF Distinct
<1>6. OwnersIn(Each(T, O), Owners(O))
  BY <1>1, <1>2, EachOwners
<1> QED
  BY <1>4, <1>5, <1>6 DEF Sound

\* The templates, one by one.
LEMMA HandleParts == MakesParts(Handle, {"handle"})
BY DEF MakesParts, NewSteps, StepWell, Taken, Handle

LEMMA BufferParts == MakesParts(Buffer, {"buffer"})
BY DEF MakesParts, NewSteps, StepWell, Taken, Buffer

LEMMA ImageParts == MakesParts(Image, {"image", "view"})
BY DEF MakesParts, NewSteps, StepWell, Taken, Image

LEMMA PipelineParts == MakesParts(Pipeline, {"layout", "pipeline"})
BY DEF MakesParts, NewSteps, StepWell, Taken, Pipeline, Passing

LEMMA ResizeParts == MakesParts(ResizeTarget, {"image", "view"})
BY DEF MakesParts, NewSteps, StepWell, Taken, ResizeTarget, Passing

LEMMA DeviceBufferParts == MakesParts(DeviceBuffer, {"buffer"})
BY DEF MakesParts, NewSteps, StepWell, Taken, DeviceBuffer, Uploaded, Buffer, Passing

LEMMA TextureParts == MakesParts(Texture, {"image", "view"})
BY DEF MakesParts, NewSteps, StepWell, Taken, Texture, Uploaded, Image, Passing

-----------------------------------------------------------------------------
(* The destructors *)

\* A template that takes these parts of its owner apart, a view before its
\* image.
UnmakesParts(T, parts) ==
  /\ Len(T) \in Nat \ {0}
  /\ \A s \in 1 .. Len(T) :
       \/ T[s][2] \in {"handle", "buffer", "pipeline", "layout", "view"}
       \/ T[s][2] = "image" /\ s > 1 /\ T[s - 1][2] = "view"
  /\ \A p \in parts : \E s \in 1 .. Len(T) : T[s][2] = p

\* A plan that takes apart, in order.
Ordered(P, before) == IsPlan(P) /\ InOrder(P, before) /\ \A h \in Handled(P) : Known(h)

\* What no other handle is made from.
LEMMA Nobody ==
  ASSUME NEW h, h \notin Bases, h[2] # "image", h # <<"chain", "handle">>
  PROVE  \A v : h \notin Uses(v)
<1> SUFFICES ASSUME NEW v, h \in Uses(v) PROVE FALSE
  OBVIOUS
<1>1. h = <<v[1], "image">>
  BY UsedOnes
<1> QED
  BY <1>1

\* Nothing is made of an owner's parts but a view of its image.
Unneeded(o) == o \notin Undevised \cup {"chain", "allocator", "upload_pool", "bindless"}

LEMMA BasesOwners == \A b \in Bases : ~Unneeded(b[1])
BY DEF Bases, Unneeded, Undevised

\* A template that takes apart is in order for an owner nothing else is made
\* from.
LEMMA OneOrder ==
  ASSUME NEW T, NEW parts, UnmakesParts(T, parts), NEW o, Unneeded(o), NEW before
  PROVE  InOrder(One(T, o), before)
<1> DEFINE P == One(T, o)
<1>1. /\ Len(P) = Len(T) /\ Len(T) \in Nat \ {0}
      /\ \A r \in 1 .. Len(T) : P[r].handle = <<o, T[r][2]>>
  BY OnePlan DEF UnmakesParts
<1> HIDE DEF P
<1>2. ASSUME NEW s \in 1 .. Len(T), NEW v, IsPair(v), P[s].handle \in Uses(v)
      PROVE  \E j \in 1 .. s - 1 : P[j].handle = v
  <2>1. CASE T[s][2] \in {"handle", "buffer", "pipeline", "layout", "view"}
    <3>1. <<o, T[s][2]>> \notin Bases
      <4>1. <<o, T[s][2]>>[1] = o
        OBVIOUS
      <4> QED
        BY <4>1, BasesOwners
    <3>2. <<o, T[s][2]>>[2] # "image" /\ <<o, T[s][2]>> # <<"chain", "handle">>
      <4>1. o # "chain"
        BY DEF Unneeded
      <4>2. <<o, T[s][2]>>[1] = o /\ <<"chain", "handle">>[1] = "chain"
        OBVIOUS
      <4> QED
        BY <2>1, <4>1, <4>2
    <3> QED
      BY <1>1, <1>2, <3>1, <3>2, Nobody
  <2>2. CASE T[s][2] = "image" /\ s > 1 /\ T[s - 1][2] = "view"
    <3>1. ~Firm(<<o, "image">>) /\ <<o, "image">> # <<"chain", "handle">>
      BY DEF Firm
    <3>2. <<o, "image">>[1] = o
      OBVIOUS
    <3>3. P[s].handle = <<o, "image">>
      BY <1>1, <2>2
    <3>4. v = <<o, "view">>
      BY <1>2, <3>1, <3>2, <3>3, WhoUses
    <3>5. s - 1 \in 1 .. s - 1 /\ s - 1 \in 1 .. Len(T) /\ P[s - 1].handle = <<o, "view">>
      BY <1>1, <2>2
    <3> QED
      BY <3>4, <3>5
  <2> QED
    BY <2>1, <2>2 DEF UnmakesParts
<1> QED
  BY <1>1, <1>2 DEF InOrder, P, Known

LEMMA EachUnmade ==
  ASSUME NEW T, NEW parts, UnmakesParts(T, parts), NEW O, Len(O) \in Nat,
         \A o \in Owners(O) : Unneeded(o) /\ (o = "ui_texture" => T = UnmakeImage)
  PROVE  Ordered(Each(T, O), {}) /\ Owners(O) \X parts \subseteq Handled(Each(T, O))
<1>1. Len(T) \in Nat \ {0}
  BY DEF UnmakesParts
<1>2. \A i \in 1 .. Len(O) : O[i] \in Owners(O)
  BY DEF Owners
<1>3. \A i \in 1 .. Len(O) : InOrder(One(T, O[i]), {})
  BY <1>2, OneOrder
<1>4. InOrder(Each(T, O), {})
  BY <1>1, <1>3, EachOrder
<1>5. ASSUME NEW o \in Owners(O), NEW p \in parts PROVE <<o, p>> \in Handled(Each(T, O))
  <2>1. PICK i \in 1 .. Len(O) : O[i] = o
    BY DEF Owners
  <2>2. PICK s \in 1 .. Len(T) : T[s][2] = p
    BY DEF UnmakesParts
  <2>3. <<O[i], T[s][2]>> \in Handled(Each(T, O))
    BY <1>1, EachPlan
  <2> QED
    BY <2>1, <2>2, <2>3
<1>6. ASSUME NEW h \in Handled(Each(T, O)) PROVE Known(h)
  <2>1. PICK i \in 1 .. Len(O), s \in 1 .. Len(T) : h = Command(T[s], O[i]).handle
    BY <1>1, EachAt DEF Handled
  <2>2. h = <<O[i], T[s][2]>>
    BY <2>1, CommandIs
  <2>3. O[i] = "ui_texture" => T[s][2] \in {"image", "view"}
    BY <1>2 DEF UnmakeImage
  <2>4. T[s][2] \in {"handle", "buffer", "pipeline", "layout", "view", "image"}
    BY DEF UnmakesParts
  <2>5. h[1] = O[i] /\ h[2] = T[s][2]
    BY <2>2
  <2> QED
    BY <2>2, <2>3, <2>4, <2>5 DEF Known, IsPair
<1>7. Owners(O) \X parts \subseteq Handled(Each(T, O))
  BY <1>5
<1> QED
  BY <1>1, <1>4, <1>6, <1>7, EachPlan DEF Ordered

\* The destructors' templates, one by one.
LEMMA UnmakeParts ==
  /\ UnmakesParts(UnmakeHandle, {"handle"}) /\ UnmakesParts(UnmakeBuffer, {"buffer"})
  /\ UnmakesParts(UnmakePipeline, {"layout", "pipeline"})
  /\ UnmakesParts(UnmakeImage, {"image", "view"})
<1>1. UnmakesParts(UnmakeHandle, {"handle"}) /\ UnmakesParts(UnmakeBuffer, {"buffer"})
  BY DEF UnmakesParts, UnmakeHandle, UnmakeBuffer
<1>2. UnmakesParts(UnmakePipeline, {"layout", "pipeline"})
  BY DEF UnmakesParts, UnmakePipeline
<1>3. UnmakesParts(UnmakeImage, {"image", "view"})
  BY DEF UnmakesParts, UnmakeImage
<1> QED
  BY <1>1, <1>2, <1>3

LEMMA OrderedJoin ==
  ASSUME NEW A, NEW B, NEW before, NEW more, Ordered(A, before), Ordered(B, more),
         more \subseteq before \cup Handled(A)
  PROVE  /\ Ordered(A \o B, before) /\ Handled(A \o B) = Handled(A) \cup Handled(B)
         /\ IsPlan(A \o B)
<1>1. InOrder(B, before \cup Handled(A))
  BY DEF Ordered, InOrder
<1> QED
  BY <1>1, OrderJoin, JoinPlans DEF Ordered

\* In order after what went before, and these are among what it takes apart.
Unmade(P, before, taken) == Ordered(P, before) /\ taken \subseteq Handled(P)

\* Two destructors, one after the other.
LEMMA UnmadeJoin ==
  ASSUME NEW A, NEW B, NEW before, NEW more, NEW S, NEW T,
         Unmade(A, before, S), Unmade(B, more, T), more \subseteq before \cup S
  PROVE  Unmade(A \o B, before, S \cup T)
<1>1. more \subseteq before \cup Handled(A)
  BY DEF Unmade
<1> QED
  BY <1>1, OrderedJoin DEF Unmade

\* A list of owners.
Lists(O, owners) == Len(O) \in Nat /\ Owners(O) = owners

LEMMA KindsUnmade ==
  ASSUME NEW O, NEW owners, Lists(O, owners),
         \A o \in owners : Unneeded(o) /\ o # "ui_texture"
  PROVE  /\ Unmade(Each(UnmakeHandle, O), {}, owners \X {"handle"})
         /\ Unmade(Each(UnmakeBuffer, O), {}, owners \X {"buffer"})
         /\ Unmade(Each(UnmakePipeline, O), {}, owners \X {"layout", "pipeline"})
         /\ Unmade(Each(UnmakeImage, O), {}, owners \X {"image", "view"})
BY UnmakeParts, EachUnmade DEF Lists, Unmade

\* Who uses what the destructors take apart.
LEMMA UsersOf ==
  ASSUME NEW v, Known(v)
  PROVE  /\ <<"bindless", "pool">> \in Uses(v) \/ <<"ui", "backend">> \in Uses(v)
              => v \in {<<"ui_texture", "image">>, <<"ui_texture", "view">>}
         /\ <<"ui", "context">> \in Uses(v) => v \in {<<"ui", "platform">>, <<"ui", "backend">>}
         /\ <<"chain", "handle">> \in Uses(v) => v \in {<<"chain", "view">>, <<"chain", "ui_view">>}
         /\ <<"surface", "handle">> \in Uses(v) => v = <<"chain", "handle">>
         /\ <<"instance", "handle">> \in Uses(v) => v \in OfInstance
         /\ <<"sdl", "handle">> \in Uses(v) => v \in OfSdl
         /\ <<"window", "handle">> \in Uses(v) => v \in {<<"surface", "handle">>, <<"ui", "platform">>}
         /\ <<"assets", "manager">> \in Uses(v) => v = <<"assets", "thread">>
<1>1. v = <<v[1], v[2]>>
  BY DEF Known, IsPair
<1>2. <<"bindless", "pool">> \in Uses(v) \/ <<"ui", "backend">> \in Uses(v) => v[1] = "ui_texture"
  BY DEF Uses
<1>3. <<"ui", "context">> \in Uses(v) => v[2] \in {"platform", "backend"}
  BY DEF Uses
<1>4. <<"chain", "handle">> \in Uses(v) => v[2] \in {"view", "ui_view"} /\ v[1] = "chain"
  BY DEF Uses
<1>5. /\ <<"surface", "handle">> \in Uses(v) => v = <<"chain", "handle">>
      /\ <<"instance", "handle">> \in Uses(v) => v \in OfInstance
      /\ <<"sdl", "handle">> \in Uses(v) => v \in OfSdl
      /\ <<"window", "handle">> \in Uses(v) => v \in {<<"surface", "handle">>, <<"ui", "platform">>}
      /\ <<"assets", "manager">> \in Uses(v) => v = <<"assets", "thread">>
  BY DEF Uses
<1> QED
  BY <1>1, <1>2, <1>3, <1>4, <1>5 DEF Known

\* The owners, kind by kind.
PassOwners == Owners(DrawPasses) \cup Owners(LightPasses) \cup Owners(AirPasses)

LEMMA ListOf == \A a : Lists(<<a>>, {a})
BY DEF Lists, Owners

LEMMA ListsOf ==
  /\ Lists(Targets, Owners(Targets)) /\ Lists(ClusterBuffers, Owners(ClusterBuffers))
  /\ Lists(FrameBuffers, Owners(FrameBuffers)) /\ Lists(PoolBuffers, Owners(PoolBuffers))
  /\ Lists(PoolBlocks, Owners(PoolBlocks)) /\ Lists(Whites, Owners(Whites))
  /\ Lists(Luts, Owners(Luts)) /\ Lists(AirPasses, Owners(AirPasses))
  /\ Lists(DrawPasses, Owners(DrawPasses)) /\ Lists(LightPasses, Owners(LightPasses))
BY DEF Lists, Targets, ClusterBuffers, FrameBuffers, PoolBuffers, PoolBlocks, Whites, Luts,
       AirPasses, DrawPasses, LightPasses

\* Who is in the lists the code goes through.
LEMMA OwnersAre ==
  /\ Owners(Targets) =
       {"debug", "history", "albedo", "normal", "material", "motion", "depth", "hdr"}
  /\ Owners(ClusterBuffers) = {"cluster_counts", "cluster_lights"}
  /\ Owners(FrameBuffers) =
       {"frame", "objects", "lights", "shadow_views", "shadow_matrices", "draws",
        "atmosphere", "terrain_palette", "debug_lines"}
  /\ Owners(PoolBuffers) = {"vertices", "indices", "terrain_vertices"}
  /\ Owners(PoolBlocks) = {"vertex_block", "index_block"}
  /\ Owners(Whites) = {"white_srgb", "white_unorm"}
  /\ Owners(Luts) = {"transmittance", "multiscatter", "sky_view"}
  /\ Owners(AirPasses) =
       {"transmittance_pass", "multiscatter_pass", "sky_ambient_pass", "sky_view_pass", "taa_pass",
        "atmosphere_pass"}
  /\ Owners(DrawPasses) =
       {"gbuffer_pass", "impostor_pass", "wire_pass", "line_pass", "shadow_pass", "tonemap_pass"}
  /\ Owners(LightPasses) =
       {"cluster_pass", "lighting_pass", "debug_pass", "histogram_pass", "adapt_pass"}
<1>1. Owners(Targets) =
        {"debug", "history", "albedo", "normal", "material", "motion", "depth", "hdr"}
  BY DEF Owners, Targets
<1>2. Owners(ClusterBuffers) = {"cluster_counts", "cluster_lights"}
  BY DEF Owners, ClusterBuffers
<1>3. Owners(FrameBuffers) =
       {"frame", "objects", "lights", "shadow_views", "shadow_matrices", "draws",
        "atmosphere", "terrain_palette", "debug_lines"}
  BY DEF Owners, FrameBuffers
<1>4. Owners(PoolBuffers) = {"vertices", "indices", "terrain_vertices"}
  BY DEF Owners, PoolBuffers
<1>5. Owners(PoolBlocks) = {"vertex_block", "index_block"}
  BY DEF Owners, PoolBlocks
<1>6. Owners(Whites) = {"white_srgb", "white_unorm"}
  BY DEF Owners, Whites
<1>7. Owners(Luts) = {"transmittance", "multiscatter", "sky_view"}
  BY DEF Owners, Luts
<1>8. Owners(AirPasses) =
       {"transmittance_pass", "multiscatter_pass", "sky_ambient_pass", "sky_view_pass", "taa_pass",
        "atmosphere_pass"}
  BY DEF Owners, AirPasses
<1>9. Owners(DrawPasses) =
       {"gbuffer_pass", "impostor_pass", "wire_pass", "line_pass", "shadow_pass", "tonemap_pass"}
  BY DEF Owners, DrawPasses
<1>10. Owners(LightPasses) =
       {"cluster_pass", "lighting_pass", "debug_pass", "histogram_pass", "adapt_pass"}
  BY DEF Owners, LightPasses
<1> QED
  BY <1>1, <1>2, <1>3, <1>4, <1>5, <1>6, <1>7, <1>8, <1>9, <1>10

LEMMA ListJoin ==
  ASSUME NEW A, NEW B, A \in Seq(Owners(A)), B \in Seq(Owners(B))
  PROVE  Lists(A \o B, Owners(A) \cup Owners(B)) /\ A \o B \in Seq(Owners(A \o B))
<1>1. /\ Len(A) \in Nat /\ Len(B) \in Nat /\ Len(A \o B) = Len(A) + Len(B)
      /\ A \o B \in Seq(Owners(A) \cup Owners(B))
      /\ \A i \in 1 .. Len(A) : (A \o B)[i] = A[i]
      /\ \A i \in 1 .. Len(B) : (A \o B)[Len(A) + i] = B[i]
  <2>1. A \in Seq(Owners(A) \cup Owners(B)) /\ B \in Seq(Owners(A) \cup Owners(B))
    OBVIOUS
  <2> QED
    BY <2>1
<1> DEFINE P == A \o B
<1> HIDE DEF P
<1>2. \A i \in 1 .. Len(P) : P[i] \in Owners(A) \cup Owners(B)
  BY <1>1 DEF P
<1>3. ASSUME NEW i \in 1 .. Len(A) PROVE A[i] \in Owners(P)
  BY <1>1, <1>3 DEF Owners, P
<1>4. ASSUME NEW i \in 1 .. Len(B) PROVE B[i] \in Owners(P)
  <2>1. Len(A) + i \in 1 .. Len(P) /\ P[Len(A) + i] = B[i]
    BY <1>1 DEF P
  <2> QED
    BY <2>1 DEF Owners
<1>5. Owners(P) = Owners(A) \cup Owners(B)
  BY <1>2, <1>3, <1>4 DEF Owners
<1> QED
  BY <1>1, <1>5 DEF P, Lists

LEMMA JoinedLists ==
  /\ Lists(DrawPasses \o LightPasses \o AirPasses, PassOwners)
  /\ Lists(<<"streamed">> \o Whites, {"streamed", "white_srgb", "white_unorm"})
  /\ Lists(Reverse(PoolBuffers), Owners(PoolBuffers))
<1>1. /\ DrawPasses \in Seq(Owners(DrawPasses)) /\ LightPasses \in Seq(Owners(LightPasses))
      /\ AirPasses \in Seq(Owners(AirPasses))
  BY OwnersAre DEF DrawPasses, LightPasses, AirPasses
<1>2. Lists(DrawPasses \o LightPasses \o AirPasses, PassOwners)
  <2>1. /\ Lists(DrawPasses \o LightPasses, Owners(DrawPasses) \cup Owners(LightPasses))
        /\ DrawPasses \o LightPasses \in Seq(Owners(DrawPasses \o LightPasses))
    BY <1>1, ListJoin
  <2> DEFINE A == DrawPasses \o LightPasses
  <2> HIDE DEF A
  <2>2. Lists(A \o AirPasses, Owners(A) \cup Owners(AirPasses))
    BY <1>1, <2>1, ListJoin DEF A
  <2> QED
    BY <2>1, <2>2 DEF A, PassOwners, Lists
<1>3. Lists(<<"streamed">> \o Whites, {"streamed", "white_srgb", "white_unorm"})
  <2> DEFINE A == <<"streamed">>
  <2>1. A \in Seq(Owners(A)) /\ Owners(A) = {"streamed"}
    BY DEF Owners
  <2>2. Whites \in Seq(Owners(Whites))
    BY OwnersAre DEF Whites
  <2> HIDE DEF A
  <2>3. Lists(A \o Whites, Owners(A) \cup Owners(Whites))
    BY <2>1, <2>2, ListJoin
  <2> QED
    BY <2>1, <2>3, OwnersAre DEF A, Lists
<1>4. Lists(Reverse(PoolBuffers), Owners(PoolBuffers))
  <2>1. Reverse(PoolBuffers) = <<"terrain_vertices", "indices", "vertices">>
    BY DEF Reverse, PoolBuffers
  <2>2. Owners(<<"terrain_vertices", "indices", "vertices">>) = Owners(PoolBuffers)
    <3>1. Owners(<<"terrain_vertices", "indices", "vertices">>)
            = {"vertices", "indices", "terrain_vertices"}
      BY DEF Owners
    <3> QED
      BY <3>1, OwnersAre
  <2>3. Len(<<"terrain_vertices", "indices", "vertices">>) \in Nat
    OBVIOUS
  <2> QED
    BY <2>1, <2>2, <2>3 DEF Lists
<1> QED
  BY <1>2, <1>3, <1>4

LEMMA SingleUnmade ==
  \A a : Unneeded(a) /\ a # "ui_texture" =>
    /\ Unmade(One(UnmakeHandle, a), {}, {a} \X {"handle"})
    /\ Unmade(One(UnmakeBuffer, a), {}, {a} \X {"buffer"})
    /\ Unmade(One(UnmakePipeline, a), {}, {a} \X {"layout", "pipeline"})
    /\ Unmade(One(UnmakeImage, a), {}, {a} \X {"image", "view"})
<1> SUFFICES ASSUME NEW a, Unneeded(a), a # "ui_texture"
             PROVE  /\ Unmade(One(UnmakeHandle, a), {}, {a} \X {"handle"})
                    /\ Unmade(One(UnmakeBuffer, a), {}, {a} \X {"buffer"})
                    /\ Unmade(One(UnmakePipeline, a), {}, {a} \X {"layout", "pipeline"})
                    /\ Unmade(One(UnmakeImage, a), {}, {a} \X {"image", "view"})
  OBVIOUS
<1> DEFINE O == <<a>>
<1>1. Lists(O, {a})
  BY ListOf
<1> HIDE DEF O
<1>2. /\ Unmade(Each(UnmakeHandle, O), {}, {a} \X {"handle"})
      /\ Unmade(Each(UnmakeBuffer, O), {}, {a} \X {"buffer"})
      /\ Unmade(Each(UnmakePipeline, O), {}, {a} \X {"layout", "pipeline"})
      /\ Unmade(Each(UnmakeImage, O), {}, {a} \X {"image", "view"})
  BY <1>1, KindsUnmade
<1> QED
  BY <1>2 DEF O, One

\* Nothing of the owners in these lists is used but the images.
LEMMA ListsUnneeded ==
  \A o \in PassOwners \cup Owners(Luts) \cup Owners(PoolBlocks) \cup Owners(PoolBuffers)
           \cup Owners(Whites) \cup Owners(FrameBuffers) \cup Owners(ClusterBuffers)
           \cup Owners(Targets) :
    Unneeded(o) /\ o # "ui_texture" /\ Plain(o)
BY OwnersAre DEF PassOwners, Unneeded, Plain, Undevised

\* What each part of the renderer's destructor takes apart.
TexturesTaken == {<<"ui_texture", "image">>, <<"ui_texture", "view">>}

PassesTaken ==
  ({"staging"} \X {"buffer"}) \cup ({"queries"} \X {"handle"})
    \cup (PassOwners \X {"layout", "pipeline"})

AirTaken ==
  (Owners(Luts) \X {"image", "view"}) \cup ({"ambient"} \X {"buffer"})
    \cup ({"lut_sampler"} \X {"handle"}) \cup ({"histogram"} \X {"buffer"})
    \cup ({"exposure"} \X {"image", "view"}) \cup ({"capture"} \X {"buffer"})

PoolTaken ==
  (Owners(PoolBlocks) \X {"handle"}) \cup (Owners(PoolBuffers) \X {"buffer"})

MaterialsTaken ==
  ({"streamed", "white_srgb", "white_unorm"} \X {"image", "view"})
    \cup ({"material_sampler"} \X {"handle"})

FrameOwners ==
  {"frame", "objects", "lights", "shadow_views", "shadow_matrices", "atmosphere",
   "terrain_palette", "debug_lines"}

TargetsTaken ==
  (FrameOwners \X {"buffer"}) \cup ({"shadow_map"} \X {"image", "view"})
    \cup ({"shadow_sampler"} \X {"handle"}) \cup (Owners(ClusterBuffers) \X {"buffer"})
    \cup (Owners(Targets) \X {"image", "view"})

SlotOwners == {"render_finished", "image_available", "in_flight", "command_pool"}

SlotsTaken ==
  {<<"bindless", "pool">>, <<"bindless", "layout">>} \cup (SlotOwners \X {"handle"})
    \cup ({"draws"} \X {"buffer"})

RendererTaken ==
  PassesTaken \cup AirTaken \cup PoolTaken \cup MaterialsTaken \cup TargetsTaken \cup SlotsTaken

LEMMA SinglesUnneeded ==
  \A o \in {"staging", "queries", "ambient", "lut_sampler", "histogram", "exposure", "capture",
            "streamed", "white_srgb", "white_unorm", "material_sampler", "shadow_map",
            "shadow_sampler", "draws", "ui_pass", "linear", "nearest"}
           \cup FrameOwners \cup SlotOwners :
    Unneeded(o) /\ o # "ui_texture"
BY DEF FrameOwners, SlotOwners, Unneeded, Undevised

LEMMA MaterialsUnmade == Unmade(MaterialsUnmake, {}, MaterialsTaken)
<1>1. Unmade(Each(UnmakeImage, <<"streamed">> \o Whites), {},
             {"streamed", "white_srgb", "white_unorm"} \X {"image", "view"})
  BY JoinedLists, KindsUnmade, SinglesUnneeded
<1>2. Unmade(One(UnmakeHandle, "material_sampler"), {}, {"material_sampler"} \X {"handle"})
  BY SingleUnmade, SinglesUnneeded
<1> QED
  BY <1>1, <1>2, UnmadeJoin DEF MaterialsUnmake, MaterialsTaken, One

LEMMA FrameBuffersUnmade == Unmade(FrameBuffersUnmake, {}, FrameOwners \X {"buffer"})
<1> DEFINE O == <<"frame", "objects", "lights", "shadow_views", "shadow_matrices",
                  "atmosphere", "terrain_palette", "debug_lines">>
<1>1. Lists(O, FrameOwners)
  BY DEF Lists, Owners, FrameOwners
<1> HIDE DEF O
<1>2. Unmade(Each(UnmakeBuffer, O), {}, FrameOwners \X {"buffer"})
  BY <1>1, KindsUnmade, SinglesUnneeded
<1> QED
  BY <1>2 DEF FrameBuffersUnmake, O

LEMMA SlotsUnmade ==
  Unmade(Each(UnmakeHandle, <<"render_finished", "image_available", "in_flight", "command_pool">>),
         {}, SlotOwners \X {"handle"})
<1> DEFINE O == <<"render_finished", "image_available", "in_flight", "command_pool">>
<1>1. Lists(O, SlotOwners)
  BY DEF Lists, Owners, SlotOwners
<1> HIDE DEF O
<1>2. Unmade(Each(UnmakeHandle, O), {}, SlotOwners \X {"handle"})
  BY <1>1, KindsUnmade, SinglesUnneeded
<1> QED
  BY <1>2 DEF O

LEMMA BindlessUnmade ==
  Unmade(<<Drop("bindless", "pool"), Drop("bindless", "layout")>>, TexturesTaken,
         {<<"bindless", "pool">>, <<"bindless", "layout">>})
<1> DEFINE P == <<Drop("bindless", "pool"), Drop("bindless", "layout")>>
<1>1. Len(P) = 2 /\ P[1].handle = <<"bindless", "pool">> /\ P[2].handle = <<"bindless", "layout">>
  BY DEF Drop
<1>2. IsPlan(P)
  BY DEF IsPlan, IsCommand, IsPair, Drop, Range
<1> HIDE DEF P
<1>3. \A v : <<"bindless", "layout">> \notin Uses(v)
  BY DEF Uses
<1>4. InOrder(P, TexturesTaken)
  BY <1>1, <1>3, UsersOf DEF InOrder, TexturesTaken
<1>5. Handled(P) = {<<"bindless", "pool">>, <<"bindless", "layout">>}
  <2>1. DOMAIN P = 1 .. 2
    BY DEF P
  <2> QED
    BY <1>1, <2>1 DEF Handled
<1>6. \A h \in Handled(P) : Known(h)
  BY <1>5 DEF Known, IsPair
<1> QED
  BY <1>2, <1>4, <1>5, <1>6 DEF Unmade, Ordered, P

LEMMA RendererUnmade == Unmade(RendererUnmakes, TexturesTaken, RendererTaken)
<1> DEFINE R1 == One(UnmakeBuffer, "staging")
           R2 == One(UnmakeHandle, "queries")
           R3 == Each(UnmakePipeline, DrawPasses \o LightPasses \o AirPasses)
           R4 == Each(UnmakeImage, Luts)
           R5 == One(UnmakeBuffer, "ambient")
           R6 == One(UnmakeHandle, "lut_sampler")
           R7 == One(UnmakeBuffer, "histogram")
           R8 == One(UnmakeImage, "exposure")
           R9 == One(UnmakeBuffer, "capture")
           R10 == Each(UnmakeHandle, PoolBlocks)
           R11 == Each(UnmakeBuffer, Reverse(PoolBuffers))
           R12 == MaterialsUnmake
           R13 == FrameBuffersUnmake
           R14 == One(UnmakeImage, "shadow_map")
           R15 == One(UnmakeHandle, "shadow_sampler")
           R16 == Each(UnmakeBuffer, ClusterBuffers)
           R17 == Each(UnmakeImage, Targets)
           R18 == <<Drop("bindless", "pool"), Drop("bindless", "layout")>>
           R19 == Each(UnmakeHandle, <<"render_finished", "image_available", "in_flight", "command_pool">>)
           R20 == One(UnmakeBuffer, "draws")
           P2 == R1 \o R2
           P3 == P2 \o R3
           P4 == P3 \o R4
           P5 == P4 \o R5
           P6 == P5 \o R6
           P7 == P6 \o R7
           P8 == P7 \o R8
           P9 == P8 \o R9
           P10 == P9 \o R10
           P11 == P10 \o R11
           P12 == P11 \o R12
           P13 == P12 \o R13
           P14 == P13 \o R14
           P15 == P14 \o R15
           P16 == P15 \o R16
           P17 == P16 \o R17
           P18 == P17 \o R18
           P19 == P18 \o R19
           P20 == P19 \o R20
           S1 == {"staging"} \X {"buffer"}
           S2 == {"queries"} \X {"handle"}
           S3 == PassOwners \X {"layout", "pipeline"}
           S4 == Owners(Luts) \X {"image", "view"}
           S5 == {"ambient"} \X {"buffer"}
           S6 == {"lut_sampler"} \X {"handle"}
           S7 == {"histogram"} \X {"buffer"}
           S8 == {"exposure"} \X {"image", "view"}
           S9 == {"capture"} \X {"buffer"}
           S10 == Owners(PoolBlocks) \X {"handle"}
           S11 == Owners(PoolBuffers) \X {"buffer"}
           S12 == MaterialsTaken
           S13 == FrameOwners \X {"buffer"}
           S14 == {"shadow_map"} \X {"image", "view"}
           S15 == {"shadow_sampler"} \X {"handle"}
           S16 == Owners(ClusterBuffers) \X {"buffer"}
           S17 == Owners(Targets) \X {"image", "view"}
           S18 == {<<"bindless", "pool">>, <<"bindless", "layout">>}
           S19 == SlotOwners \X {"handle"}
           S20 == {"draws"} \X {"buffer"}
           T2 == S1 \cup S2
           T3 == T2 \cup S3
           T4 == T3 \cup S4
           T5 == T4 \cup S5
           T6 == T5 \cup S6
           T7 == T6 \cup S7
           T8 == T7 \cup S8
           T9 == T8 \cup S9
           T10 == T9 \cup S10
           T11 == T10 \cup S11
           T12 == T11 \cup S12
           T13 == T12 \cup S13
           T14 == T13 \cup S14
           T15 == T14 \cup S15
           T16 == T15 \cup S16
           T17 == T16 \cup S17
           T18 == T17 \cup S18
           T19 == T18 \cup S19
           T20 == T19 \cup S20
<1>1. Unmade(R1, {}, S1)
  BY SingleUnmade, SinglesUnneeded
<1>2. Unmade(R2, {}, S2)
  BY SingleUnmade, SinglesUnneeded
<1>3. Unmade(R3, {}, S3)
  BY KindsUnmade, JoinedLists, ListsUnneeded
<1>4. Unmade(R4, {}, S4)
  BY KindsUnmade, ListsOf, ListsUnneeded
<1>5. Unmade(R5, {}, S5)
  BY SingleUnmade, SinglesUnneeded
<1>6. Unmade(R6, {}, S6)
  BY SingleUnmade, SinglesUnneeded
<1>7. Unmade(R7, {}, S7)
  BY SingleUnmade, SinglesUnneeded
<1>8. Unmade(R8, {}, S8)
  BY SingleUnmade, SinglesUnneeded
<1>9. Unmade(R9, {}, S9)
  BY SingleUnmade, SinglesUnneeded
<1>10. Unmade(R10, {}, S10)
  BY KindsUnmade, ListsOf, ListsUnneeded
<1>11. Unmade(R11, {}, S11)
  BY KindsUnmade, JoinedLists, ListsUnneeded
<1>12. Unmade(R12, {}, S12)
  BY MaterialsUnmade
<1>13. Unmade(R13, {}, S13)
  BY FrameBuffersUnmade
<1>14. Unmade(R14, {}, S14)
  BY SingleUnmade, SinglesUnneeded
<1>15. Unmade(R15, {}, S15)
  BY SingleUnmade, SinglesUnneeded
<1>16. Unmade(R16, {}, S16)
  BY KindsUnmade, ListsOf, ListsUnneeded
<1>17. Unmade(R17, {}, S17)
  BY KindsUnmade, ListsOf, ListsUnneeded
<1>18. Unmade(R18, TexturesTaken, S18)
  BY BindlessUnmade
<1>19. Unmade(R19, {}, S19)
  BY SlotsUnmade
<1>20. Unmade(R20, {}, S20)
  BY SingleUnmade, SinglesUnneeded
<1> HIDE DEF R1, R2, R3, R4, R5, R6, R7, R8, R9, R10, R11, R12, R13, R14, R15, R16, R17, R18, R19, R20, S1, S2, S3, S4, S5, S6, S7, S8, S9, S10, S11, S12, S13, S14, S15, S16, S17, S18, S19, S20
<1> HIDE DEF P2, P3, P4, P5, P6, P7, P8, P9, P10, P11, P12, P13, P14, P15, P16, P17, P18, P19, P20, T2, T3, T4, T5, T6, T7, T8, T9, T10, T11, T12, T13, T14, T15, T16, T17, T18, T19, T20
<1>21. Unmade(R1, TexturesTaken, S1)
  BY <1>1 DEF Unmade, Ordered, InOrder
<1>22. Unmade(P2, TexturesTaken, T2)
  BY <1>21, <1>2, UnmadeJoin DEF P2, T2
<1>23. Unmade(P3, TexturesTaken, T3)
  BY <1>22, <1>3, UnmadeJoin DEF P3, T3
<1>24. Unmade(P4, TexturesTaken, T4)
  BY <1>23, <1>4, UnmadeJoin DEF P4, T4
<1>25. Unmade(P5, TexturesTaken, T5)
  BY <1>24, <1>5, UnmadeJoin DEF P5, T5
<1>26. Unmade(P6, TexturesTaken, T6)
  BY <1>25, <1>6, UnmadeJoin DEF P6, T6
<1>27. Unmade(P7, TexturesTaken, T7)
  BY <1>26, <1>7, UnmadeJoin DEF P7, T7
<1>28. Unmade(P8, TexturesTaken, T8)
  BY <1>27, <1>8, UnmadeJoin DEF P8, T8
<1>29. Unmade(P9, TexturesTaken, T9)
  BY <1>28, <1>9, UnmadeJoin DEF P9, T9
<1>30. Unmade(P10, TexturesTaken, T10)
  BY <1>29, <1>10, UnmadeJoin DEF P10, T10
<1>31. Unmade(P11, TexturesTaken, T11)
  BY <1>30, <1>11, UnmadeJoin DEF P11, T11
<1>32. Unmade(P12, TexturesTaken, T12)
  BY <1>31, <1>12, UnmadeJoin DEF P12, T12
<1>33. Unmade(P13, TexturesTaken, T13)
  BY <1>32, <1>13, UnmadeJoin DEF P13, T13
<1>34. Unmade(P14, TexturesTaken, T14)
  BY <1>33, <1>14, UnmadeJoin DEF P14, T14
<1>35. Unmade(P15, TexturesTaken, T15)
  BY <1>34, <1>15, UnmadeJoin DEF P15, T15
<1>36. Unmade(P16, TexturesTaken, T16)
  BY <1>35, <1>16, UnmadeJoin DEF P16, T16
<1>37. Unmade(P17, TexturesTaken, T17)
  BY <1>36, <1>17, UnmadeJoin DEF P17, T17
<1>38. Unmade(P18, TexturesTaken, T18)
  BY <1>37, <1>18, UnmadeJoin DEF P18, T18
<1>39. Unmade(P19, TexturesTaken, T19)
  BY <1>38, <1>19, UnmadeJoin DEF P19, T19
<1>40. Unmade(P20, TexturesTaken, T20)
  BY <1>39, <1>20, UnmadeJoin DEF P20, T20
<1> USE DEF P2, P3, P4, P5, P6, P7, P8, P9, P10, P11, P12, P13, P14, P15, P16, P17, P18, P19, P20, T2, T3, T4, T5, T6, T7, T8, T9, T10, T11, T12, T13, T14, T15, T16, T17, T18, T19, T20
<1>41. RendererTaken = T20
  BY DEF RendererTaken, PassesTaken, AirTaken, PoolTaken, MaterialsTaken, TargetsTaken, SlotsTaken,
         S1, S2, S3, S4, S5, S6, S7, S8, S9, S10, S11, S12, S13, S14, S15, S16, S17, S18, S19, S20
<1> QED
  BY <1>40, <1>41 DEF RendererUnmakes, One, R1, R2, R3, R4, R5, R6, R7, R8, R9, R10, R11, R12, R13, R14, R15, R16, R17, R18, R19, R20

\* What the UI takes apart.
UiTaken ==
  TexturesTaken \cup ({"ui_pass"} \X {"layout", "pipeline"}) \cup ({"linear", "nearest"} \X {"handle"})
    \cup {<<"ui", "backend">>, <<"ui", "platform">>, <<"ui", "context">>}

LEMMA UiBackendUnmade ==
  /\ Unmade(<<Drop("ui", "backend")>>, TexturesTaken, {<<"ui", "backend">>})
  /\ Unmade(<<Drop("ui", "platform"), Drop("ui", "context")>>, {<<"ui", "backend">>},
            {<<"ui", "platform">>, <<"ui", "context">>})
<1>1. Unmade(<<Drop("ui", "backend")>>, TexturesTaken, {<<"ui", "backend">>})
  <2> DEFINE P == <<Drop("ui", "backend")>>
  <2>1. IsPlan(P) /\ Len(P) = 1 /\ DOMAIN P = 1 .. 1 /\ P[1].handle = <<"ui", "backend">>
    BY DEF IsPlan, IsCommand, IsPair, Drop, Range
  <2> HIDE DEF P
  <2>2. InOrder(P, TexturesTaken)
    BY <2>1, UsersOf DEF InOrder, TexturesTaken
  <2>3. Handled(P) = {<<"ui", "backend">>}
    BY <2>1 DEF Handled
  <2> QED
    BY <2>1, <2>2, <2>3 DEF Unmade, Ordered, Known, IsPair, P
<1>2. Unmade(<<Drop("ui", "platform"), Drop("ui", "context")>>, {<<"ui", "backend">>},
             {<<"ui", "platform">>, <<"ui", "context">>})
  <2> DEFINE P == <<Drop("ui", "platform"), Drop("ui", "context")>>
  <2>1. /\ IsPlan(P) /\ Len(P) = 2 /\ DOMAIN P = 1 .. 2
        /\ P[1].handle = <<"ui", "platform">> /\ P[2].handle = <<"ui", "context">>
    BY DEF IsPlan, IsCommand, IsPair, Drop, Range
  <2> HIDE DEF P
  <2>2. \A v : <<"ui", "platform">> \notin Uses(v)
    BY DEF Uses
  <2>3. InOrder(P, {<<"ui", "backend">>})
    BY <2>1, <2>2, UsersOf DEF InOrder
  <2>4. Handled(P) = {<<"ui", "platform">>, <<"ui", "context">>}
    BY <2>1 DEF Handled
  <2> QED
    BY <2>1, <2>3, <2>4 DEF Unmade, Ordered, Known, IsPair, P
<1> QED
  BY <1>1, <1>2

LEMMA UiUnmade == Unmade(UiUnmakes, {}, UiTaken)
<1> DEFINE O == <<"linear", "nearest">>
           U == <<"ui_texture">>
           B == <<Drop("ui", "backend")>>
           L == <<Drop("ui", "platform"), Drop("ui", "context")>>
<1>1. Unmade(Each(UnmakeImage, U), {}, TexturesTaken)
  <2>1. Len(U) \in Nat /\ Owners(U) = {"ui_texture"} /\ Unneeded("ui_texture")
    BY DEF Owners, Unneeded, Undevised
  <2> HIDE DEF U
  <2>2. Ordered(Each(UnmakeImage, U), {}) /\ {"ui_texture"} \X {"image", "view"} \subseteq Handled(Each(UnmakeImage, U))
    BY <2>1, UnmakeParts, EachUnmade
  <2> QED
    BY <2>2 DEF Unmade, TexturesTaken
<1>2. Unmade(One(UnmakePipeline, "ui_pass"), {}, {"ui_pass"} \X {"layout", "pipeline"})
  BY SingleUnmade, SinglesUnneeded
<1>3. Unmade(Each(UnmakeHandle, O), {}, {"linear", "nearest"} \X {"handle"})
  <2>1. Lists(O, {"linear", "nearest"})
    BY DEF Lists, Owners
  <2> HIDE DEF O
  <2> QED
    BY <2>1, KindsUnmade, SinglesUnneeded
<1>4. /\ Unmade(B, TexturesTaken, {<<"ui", "backend">>})
      /\ Unmade(L, {<<"ui", "backend">>}, {<<"ui", "platform">>, <<"ui", "context">>})
  BY UiBackendUnmade
<1> HIDE DEF O, U, B, L
<1> DEFINE S2 == TexturesTaken \cup ({"ui_pass"} \X {"layout", "pipeline"})
           S3 == S2 \cup ({"linear", "nearest"} \X {"handle"})
           S4 == S3 \cup {<<"ui", "backend">>}
           P2 == Each(UnmakeImage, U) \o One(UnmakePipeline, "ui_pass")
           P3 == P2 \o Each(UnmakeHandle, O)
           P4 == P3 \o B
<1>5. Unmade(P2, {}, S2)
  BY <1>1, <1>2, UnmadeJoin
<1> HIDE DEF P2, S2
<1>6. Unmade(P3, {}, S3)
  BY <1>3, <1>5, UnmadeJoin
<1>7. TexturesTaken \subseteq S3
  BY DEF S2
<1> HIDE DEF P3, S3
<1>8. Unmade(P4, {}, S4)
  BY <1>4, <1>6, <1>7, UnmadeJoin
<1>9. {<<"ui", "backend">>} \subseteq S4
  OBVIOUS
<1> HIDE DEF P4, S4
<1>10. Unmade(P4 \o L, {}, S4 \cup {<<"ui", "platform">>, <<"ui", "context">>})
  BY <1>4, <1>8, <1>9, UnmadeJoin
<1>11. UiTaken = S4 \cup {<<"ui", "platform">>, <<"ui", "context">>}
  BY DEF UiTaken, S2, S3, S4
<1> QED
  BY <1>10, <1>11 DEF UiUnmakes, UiBackendUnmakes, One, P2, P3, P4, O, U, B, L

ChainTaken == {<<"chain", "view">>, <<"chain", "ui_view">>, <<"chain", "handle">>}

LEMMA SwapchainUnmade == Unmade(SwapchainUnmakes, {}, ChainTaken)
<1> DEFINE P == SwapchainUnmakes
<1>1. /\ IsPlan(P) /\ Len(P) = 3 /\ DOMAIN P = 1 .. 3
      /\ P[1].handle = <<"chain", "view">> /\ P[2].handle = <<"chain", "ui_view">>
      /\ P[3].handle = <<"chain", "handle">>
  BY DEF IsPlan, IsCommand, IsPair, Drop, Range, SwapchainUnmakes
<1> HIDE DEF P
<1>2. \A v : <<"chain", "view">> \notin Uses(v) /\ <<"chain", "ui_view">> \notin Uses(v)
  BY DEF Uses
<1>3. InOrder(P, {})
  BY <1>1, <1>2, UsersOf DEF InOrder
<1>4. Handled(P) = ChainTaken
  BY <1>1 DEF Handled, ChainTaken
<1>5. \A h \in Handled(P) : Known(h)
  BY <1>4 DEF ChainTaken, Known, IsPair
<1> QED
  BY <1>1, <1>3, <1>4, <1>5 DEF Unmade, Ordered, P

\* App's own members, the first to go.
FirstMembers ==
  <<Drop("pool", "threads"), Drop("physics", "world"), Drop("terrain", "octree"),
    Drop("scene", "registry"), Drop("assets", "thread"), Drop("assets", "manager"),
    Drop("joystick", "device")>>

FirstTaken ==
  {<<"pool", "threads">>, <<"physics", "world">>, <<"terrain", "octree">>,
   <<"scene", "registry">>, <<"assets", "thread">>, <<"assets", "manager">>,
   <<"joystick", "device">>}

LEMMA FirstUnmade == Unmade(FirstMembers, {}, FirstTaken)
<1> DEFINE P == FirstMembers
<1>1. /\ Len(P) = 7 /\ DOMAIN P = 1 .. 7
      /\ P[1].handle = <<"pool", "threads">> /\ P[2].handle = <<"physics", "world">>
      /\ P[3].handle = <<"terrain", "octree">> /\ P[4].handle = <<"scene", "registry">>
      /\ P[5].handle = <<"assets", "thread">> /\ P[6].handle = <<"assets", "manager">>
      /\ P[7].handle = <<"joystick", "device">>
  BY DEF Drop, FirstMembers
<1>2. IsPlan(P)
  BY DEF IsPlan, IsCommand, IsPair, Drop, Range, FirstMembers
<1> HIDE DEF P
<1>3. \A v : \A h \in FirstTaken \ {<<"assets", "manager">>} : h \notin Uses(v)
  BY DEF Uses, FirstTaken
<1>4. InOrder(P, {})
  BY <1>1, <1>3, UsersOf DEF InOrder, FirstTaken
<1>5. Handled(P) = FirstTaken
  BY <1>1 DEF Handled, FirstTaken
<1>6. \A h \in Handled(P) : Known(h)
  BY <1>5 DEF FirstTaken, Known, IsPair
<1> QED
  BY <1>2, <1>4, <1>5, <1>6 DEF Unmade, Ordered, P

\* What goes last: what all the rest is made from.
LateTaken ==
  {<<"allocator", "handle">>, <<"upload_pool", "handle">>, <<"device", "handle">>,
   <<"surface", "handle">>, <<"messenger", "handle">>, <<"instance", "handle">>,
   <<"window", "handle">>, <<"sdl", "handle">>}

\* Who uses what goes last, of what is taken apart.
LEMMA LateUses ==
  \A v \in LateTaken :
    /\ <<"allocator", "handle">> \notin Uses(v) /\ <<"upload_pool", "handle">> \notin Uses(v)
    /\ <<"device", "handle">> \in Uses(v)
         => v \in {<<"allocator", "handle">>, <<"upload_pool", "handle">>}
    /\ <<"surface", "handle">> \notin Uses(v) /\ <<"messenger", "handle">> \notin Uses(v)
    /\ <<"instance", "handle">> \in Uses(v)
         => v \in {<<"device", "handle">>, <<"surface", "handle">>, <<"messenger", "handle">>}
    /\ <<"window", "handle">> \in Uses(v) => v = <<"surface", "handle">>
    /\ <<"sdl", "handle">> \in Uses(v)
         => v \in {<<"surface", "handle">>, <<"window", "handle">>}
<1>1. \A v \in LateTaken : v[2] \notin {"image", "buffer", "staging", "command"} /\ v # <<"chain", "handle">>
  BY DEF LateTaken
<1>2. \A v \in LateTaken :
        v[1] \notin Undevised => v \in {<<"allocator", "handle">>, <<"upload_pool", "handle">>}
  BY DEF LateTaken, Undevised
<1>3. /\ <<"joystick", "device">> \notin LateTaken /\ <<"ui", "platform">> \notin LateTaken
  BY DEF LateTaken
<1>4. \A v : /\ <<"allocator", "handle">> \in Uses(v) => v[2] \in {"image", "buffer", "staging"}
             /\ <<"upload_pool", "handle">> \in Uses(v) => v[2] = "command"
             /\ <<"device", "handle">> \in Uses(v) => v[1] \notin Undevised
             /\ <<"surface", "handle">> \in Uses(v) => v = <<"chain", "handle">>
             /\ <<"messenger", "handle">> \notin Uses(v)
             /\ <<"instance", "handle">> \in Uses(v) => v \in OfInstance
             /\ <<"window", "handle">> \in Uses(v) => v \in {<<"surface", "handle">>, <<"ui", "platform">>}
             /\ <<"sdl", "handle">> \in Uses(v) => v \in OfSdl
  BY DEF Uses
<1> QED
  BY <1>1, <1>2, <1>3, <1>4 DEF OfInstance, OfSdl

LEMMA LateAre ==
  /\ IsPlan(AllocatorUnmakes) /\ Handled(AllocatorUnmakes) = {<<"allocator", "handle">>}
  /\ IsPlan(DeviceUnmakes)
  /\ Handled(DeviceUnmakes) = {<<"upload_pool", "handle">>, <<"device", "handle">>}
  /\ IsPlan(ContextUnmakes)
  /\ Handled(ContextUnmakes)
       = {<<"surface", "handle">>, <<"messenger", "handle">>, <<"instance", "handle">>}
  /\ IsPlan(WindowUnmakes)
  /\ Handled(WindowUnmakes) = {<<"window", "handle">>, <<"sdl", "handle">>}
<1>1. IsPlan(AllocatorUnmakes) /\ Handled(AllocatorUnmakes) = {<<"allocator", "handle">>}
  BY DEF Handled, IsPlan, IsCommand, IsPair, Drop, Range, AllocatorUnmakes
<1>2. /\ IsPlan(DeviceUnmakes)
      /\ Handled(DeviceUnmakes) = {<<"upload_pool", "handle">>, <<"device", "handle">>}
  BY DEF Handled, IsPlan, IsCommand, IsPair, Drop, Range, DeviceUnmakes
<1>3. /\ IsPlan(ContextUnmakes)
      /\ Handled(ContextUnmakes)
           = {<<"surface", "handle">>, <<"messenger", "handle">>, <<"instance", "handle">>}
  BY DEF Handled, IsPlan, IsCommand, IsPair, Drop, Range, ContextUnmakes
<1>4. /\ IsPlan(WindowUnmakes)
      /\ Handled(WindowUnmakes) = {<<"window", "handle">>, <<"sdl", "handle">>}
  BY DEF Handled, IsPlan, IsCommand, IsPair, Drop, Range, WindowUnmakes
<1> QED
  BY <1>1, <1>2, <1>3, <1>4

LEMMA LateUnmade ==
  ASSUME NEW U, \A v \in Handled(Members) : v \in U \cup LateTaken
  PROVE  /\ Unmade(AllocatorUnmakes, U, {<<"allocator", "handle">>})
         /\ Unmade(DeviceUnmakes, U \cup {<<"allocator", "handle">>},
                   {<<"upload_pool", "handle">>, <<"device", "handle">>})
         /\ Unmade(ContextUnmakes, U \cup {<<"device", "handle">>},
                   {<<"surface", "handle">>, <<"messenger", "handle">>, <<"instance", "handle">>})
         /\ Unmade(WindowUnmakes, U \cup {<<"surface", "handle">>},
                   {<<"window", "handle">>, <<"sdl", "handle">>})
<1>1. Unmade(AllocatorUnmakes, U, {<<"allocator", "handle">>})
  <2> DEFINE P == AllocatorUnmakes
  <2>1. IsPlan(P) /\ Len(P) = 1 /\ DOMAIN P = 1 .. 1 /\ P[1].handle = <<"allocator", "handle">>
    BY DEF IsPlan, IsCommand, IsPair, Drop, Range, AllocatorUnmakes
  <2> HIDE DEF P
  <2>2. InOrder(P, U)
    BY <2>1, LateUses DEF InOrder
  <2>3. Handled(P) = {<<"allocator", "handle">>}
    BY LateAre DEF P
  <2>4. Known(<<"allocator", "handle">>)
    BY DEF Known, IsPair
  <2> QED
    BY <2>1, <2>2, <2>3, <2>4 DEF Unmade, Ordered, P
<1>2. Unmade(DeviceUnmakes, U \cup {<<"allocator", "handle">>},
             {<<"upload_pool", "handle">>, <<"device", "handle">>})
  <2> DEFINE P == DeviceUnmakes
             B == U \cup {<<"allocator", "handle">>}
  <2>1. /\ IsPlan(P) /\ Len(P) = 2 /\ DOMAIN P = 1 .. 2
        /\ P[1].handle = <<"upload_pool", "handle">> /\ P[2].handle = <<"device", "handle">>
    BY DEF IsPlan, IsCommand, IsPair, Drop, Range, DeviceUnmakes
  <2> HIDE DEF P
  <2>2. InOrder(P, B)
    BY <2>1, LateUses DEF InOrder
  <2>3. Handled(P) = {<<"upload_pool", "handle">>, <<"device", "handle">>}
    BY LateAre DEF P
  <2>4. Known(<<"upload_pool", "handle">>) /\ Known(<<"device", "handle">>)
    BY DEF Known, IsPair
  <2> QED
    BY <2>1, <2>2, <2>3, <2>4 DEF Unmade, Ordered, P
<1>3. Unmade(ContextUnmakes, U \cup {<<"device", "handle">>},
             {<<"surface", "handle">>, <<"messenger", "handle">>, <<"instance", "handle">>})
  <2> DEFINE P == ContextUnmakes
             B == U \cup {<<"device", "handle">>}
  <2>1. /\ IsPlan(P) /\ Len(P) = 3 /\ DOMAIN P = 1 .. 3
        /\ P[1].handle = <<"surface", "handle">> /\ P[2].handle = <<"messenger", "handle">>
        /\ P[3].handle = <<"instance", "handle">>
    BY DEF IsPlan, IsCommand, IsPair, Drop, Range, ContextUnmakes
  <2> HIDE DEF P
  <2>2. InOrder(P, B)
    BY <2>1, LateUses DEF InOrder
  <2>3. Handled(P) = {<<"surface", "handle">>, <<"messenger", "handle">>, <<"instance", "handle">>}
    BY LateAre DEF P
  <2>4. /\ Known(<<"surface", "handle">>) /\ Known(<<"messenger", "handle">>)
        /\ Known(<<"instance", "handle">>)
    BY DEF Known, IsPair
  <2> QED
    BY <2>1, <2>2, <2>3, <2>4 DEF Unmade, Ordered, P
<1>4. Unmade(WindowUnmakes, U \cup {<<"surface", "handle">>},
             {<<"window", "handle">>, <<"sdl", "handle">>})
  <2> DEFINE P == WindowUnmakes
             B == U \cup {<<"surface", "handle">>}
  <2>1. /\ IsPlan(P) /\ Len(P) = 2 /\ DOMAIN P = 1 .. 2
        /\ P[1].handle = <<"window", "handle">> /\ P[2].handle = <<"sdl", "handle">>
    BY DEF IsPlan, IsCommand, IsPair, Drop, Range, WindowUnmakes
  <2> HIDE DEF P
  <2>2. InOrder(P, B)
    BY <2>1, LateUses DEF InOrder
  <2>3. Handled(P) = {<<"window", "handle">>, <<"sdl", "handle">>}
    BY LateAre DEF P
  <2>4. Known(<<"window", "handle">>) /\ Known(<<"sdl", "handle">>)
    BY DEF Known, IsPair
  <2> QED
    BY <2>1, <2>2, <2>3, <2>4 DEF Unmade, Ordered, P
<1> QED
  BY <1>1, <1>2, <1>3, <1>4

MembersTaken == FirstTaken \cup UiTaken \cup RendererTaken \cup ChainTaken \cup LateTaken

\* Whatever is taken apart, all that was made from it has gone before it.
LEMMA MembersUnmade ==
  /\ Unmade(Members, {}, MembersTaken)
  /\ Members # <<>> /\ Members[1].handle = <<"pool", "threads">>
<1> DEFINE A == UiUnmakes \o RendererUnmakes
           B == A \o SwapchainUnmakes
           C == B \o AllocatorUnmakes
           D == C \o DeviceUnmakes
           E == D \o ContextUnmakes
           F == E \o WindowUnmakes
           U == Handled(FirstMembers) \cup Handled(B)
           SB == UiTaken \cup RendererTaken \cup ChainTaken
<1>1. TexturesTaken \subseteq UiTaken
  BY DEF UiTaken
<1>2. Unmade(A, {}, UiTaken \cup RendererTaken)
  BY <1>1, UiUnmade, RendererUnmade, UnmadeJoin
<1> HIDE DEF A
<1>3. Unmade(B, {}, SB)
  BY <1>2, SwapchainUnmade, UnmadeJoin
<1> HIDE DEF B
<1>4. IsPlan(B) /\ IsPlan(FirstMembers)
  BY <1>3, FirstUnmade DEF Unmade, Ordered
<1>5. IsPlan(C) /\ Handled(C) = Handled(B) \cup {<<"allocator", "handle">>}
  BY <1>4, LateAre, JoinPlans
<1> HIDE DEF C
<1>6. IsPlan(D) /\ Handled(D) = Handled(C) \cup {<<"upload_pool", "handle">>, <<"device", "handle">>}
  BY LateAre, <1>5, JoinPlans
<1> HIDE DEF D
<1>7. /\ IsPlan(E)
      /\ Handled(E) = Handled(D) \cup {<<"surface", "handle">>, <<"messenger", "handle">>, <<"instance", "handle">>}
  BY LateAre, <1>6, JoinPlans
<1> HIDE DEF E
<1>8. IsPlan(F) /\ Handled(F) = Handled(E) \cup {<<"window", "handle">>, <<"sdl", "handle">>}
  BY LateAre, <1>7, JoinPlans
<1> HIDE DEF F
<1>9. Members = FirstMembers \o F
  BY DEF Members, FirstMembers, GraphicsMembers, A, B, C, D, E, F
<1>10. Handled(Members) = Handled(FirstMembers) \cup Handled(F)
  BY <1>4, <1>8, <1>9, JoinPlans
<1>11. \A v \in Handled(Members) : v \in U \cup LateTaken
  BY <1>5, <1>6, <1>7, <1>8, <1>10 DEF LateTaken
<1> HIDE DEF U
<1>12. /\ Unmade(AllocatorUnmakes, U, {<<"allocator", "handle">>})
       /\ Unmade(DeviceUnmakes, U \cup {<<"allocator", "handle">>},
                   {<<"upload_pool", "handle">>, <<"device", "handle">>})
       /\ Unmade(ContextUnmakes, U \cup {<<"device", "handle">>},
                   {<<"surface", "handle">>, <<"messenger", "handle">>, <<"instance", "handle">>})
       /\ Unmade(WindowUnmakes, U \cup {<<"surface", "handle">>},
                   {<<"window", "handle">>, <<"sdl", "handle">>})
  BY <1>11, LateUnmade
<1> DEFINE First == Handled(FirstMembers)
<1>13. Unmade(B, First, SB \cup Handled(B))
  BY <1>3 DEF Unmade, Ordered, InOrder
<1>14. Unmade(C, First, SB \cup Handled(B) \cup {<<"allocator", "handle">>})
  BY <1>12, <1>13, UnmadeJoin DEF C, U
<1>15. Unmade(D, First, SB \cup Handled(B) \cup {<<"allocator", "handle">>}
                           \cup {<<"upload_pool", "handle">>, <<"device", "handle">>})
  BY <1>12, <1>14, UnmadeJoin DEF D, U
<1>16. Unmade(E, First, SB \cup Handled(B) \cup {<<"allocator", "handle">>}
                           \cup {<<"upload_pool", "handle">>, <<"device", "handle">>}
                           \cup {<<"surface", "handle">>, <<"messenger", "handle">>, <<"instance", "handle">>})
  BY <1>12, <1>15, UnmadeJoin DEF E, U
<1>17. Unmade(F, First, SB \cup Handled(B) \cup {<<"allocator", "handle">>}
                           \cup {<<"upload_pool", "handle">>, <<"device", "handle">>}
                           \cup {<<"surface", "handle">>, <<"messenger", "handle">>, <<"instance", "handle">>}
                           \cup {<<"window", "handle">>, <<"sdl", "handle">>})
  BY <1>12, <1>16, UnmadeJoin DEF F, U
<1>18. Unmade(F, First, SB \cup LateTaken)
  BY <1>17 DEF Unmade, LateTaken
<1>19. Unmade(FirstMembers, {}, FirstTaken \cup First)
  BY FirstUnmade DEF Unmade
<1>20. Unmade(FirstMembers \o F, {}, (FirstTaken \cup First) \cup (SB \cup LateTaken))
  BY <1>18, <1>19, UnmadeJoin
<1>21. /\ Len(FirstMembers) = 7 /\ FirstMembers[1].handle = <<"pool", "threads">>
  BY DEF FirstMembers, Drop
<1>22. Members # <<>> /\ Members[1].handle = <<"pool", "threads">>
  <2>1. Members[1] = FirstMembers[1] /\ Len(Members) >= 7
    <3> DEFINE M == FirstMembers
    <3>1. IsPlan(M) /\ Len(M) = 7
      BY <1>4, <1>21
    <3> HIDE DEF M
    <3>2. /\ Len(F) \in Nat /\ Len(M \o F) = Len(M) + Len(F)
          /\ \A j \in 1 .. Len(M) : (M \o F)[j] = M[j]
      BY <1>8, <3>1, JoinPlans
    <3>3. (M \o F)[1] = M[1] /\ Len(M \o F) >= 7
      BY <3>1, <3>2
    <3> QED
      BY <1>9, <3>3 DEF M
  <2>2. Len(<<>>) = 0
    OBVIOUS
  <2> QED
    BY <1>21, <2>1, <2>2
<1> QED
  BY <1>9, <1>20, <1>22 DEF Unmade, MembersTaken

\* What the step needs of the destructors.
LEMMA MembersSound ==
  /\ IsPlan(Members) /\ InOrder(Members, {}) /\ \A v \in Handled(Members) : Known(v)
  /\ Members # <<>> /\ Members[1].handle = <<"pool", "threads">>
  /\ Lazy \cup Constructed \subseteq Handled(Members)
<1>1. Lazy \cup Constructed \subseteq MembersTaken
  BY DEF Lazy, Constructed, MembersTaken, FirstTaken, UiTaken, TexturesTaken, RendererTaken,
         MaterialsTaken, AirTaken
<1> QED
  BY <1>1, MembersUnmade DEF Unmade, Ordered

\* What the destructors take apart, kind by kind.
LEMMA AllTaken ==
  /\ \A o \in Owners(Targets) \cup Owners(Luts) \cup Owners(Whites) \cup {"shadow_map", "exposure"} :
       Taken(o, {"image", "view"})
  /\ \A o \in PassOwners \cup {"ui_pass"} : Taken(o, {"layout", "pipeline"})
  /\ \A o \in Owners(PoolBlocks) \cup SlotOwners
           \cup {"queries", "lut_sampler", "material_sampler", "shadow_sampler", "linear", "nearest"} :
       Taken(o, {"handle"})
  /\ \A o \in Owners(PoolBuffers) \cup Owners(FrameBuffers) \cup Owners(ClusterBuffers)
           \cup {"staging", "ambient", "histogram"} :
       Taken(o, {"buffer"})
  /\ {<<"bindless", "pool">>, <<"bindless", "layout">>} \cup ChainTaken \cup LateTaken \cup FirstTaken
       \cup {<<"ui", "backend">>, <<"ui", "platform">>, <<"ui", "context">>} \subseteq Handled(Members)
<1>1. MembersTaken \subseteq Handled(Members)
  BY MembersUnmade DEF Unmade
<1>2. \A o \in Owners(Targets) \cup Owners(Luts) \cup Owners(Whites) \cup {"shadow_map", "exposure"} :
        Taken(o, {"image", "view"})
  BY <1>1, OwnersAre DEF Taken, MembersTaken, RendererTaken, TargetsTaken, AirTaken, MaterialsTaken
<1>3. \A o \in PassOwners \cup {"ui_pass"} : Taken(o, {"layout", "pipeline"})
  BY <1>1 DEF Taken, MembersTaken, RendererTaken, PassesTaken, UiTaken
<1>4. \A o \in Owners(PoolBlocks) \cup SlotOwners
           \cup {"queries", "lut_sampler", "material_sampler", "shadow_sampler", "linear", "nearest"} :
        Taken(o, {"handle"})
  BY <1>1 DEF Taken, MembersTaken, RendererTaken, PassesTaken, AirTaken, PoolTaken, MaterialsTaken,
              TargetsTaken, SlotsTaken, UiTaken
<1>5. \A o \in Owners(PoolBuffers) \cup Owners(FrameBuffers) \cup Owners(ClusterBuffers)
           \cup {"staging", "ambient", "histogram"} :
        Taken(o, {"buffer"})
  <2>1. Owners(FrameBuffers) = FrameOwners \cup {"draws"}
    BY OwnersAre DEF FrameOwners
  <2> QED
    BY <1>1, <2>1 DEF Taken, MembersTaken, RendererTaken, PassesTaken, AirTaken, PoolTaken,
                      TargetsTaken, SlotsTaken
<1>6. {<<"bindless", "pool">>, <<"bindless", "layout">>} \cup ChainTaken \cup LateTaken \cup FirstTaken
        \cup {<<"ui", "backend">>, <<"ui", "platform">>, <<"ui", "context">>} \subseteq Handled(Members)
  BY <1>1 DEF MembersTaken, RendererTaken, SlotsTaken, UiTaken
<1> QED
  BY <1>2, <1>3, <1>4, <1>5, <1>6

-----------------------------------------------------------------------------
(* What is made, in its order *)

\* A step of the plan's.
Has(P, c) == \E j \in 1 .. Len(P) : P[j] = c

\* Each step right, nothing made twice, and what is made to stay.
Made(P, base, owners, made) ==
  /\ Sound(P, base) /\ Makers(P, owners) /\ New({}, P)
  /\ \A h \in made : Firm(h) /\ Has(P, MakeOf(h))

\* Whatever is made has been there and has gone.
Replaces(P) == \A k \in 1 .. Len(P) : P[k].op = "make" => DroppedBy(P, P[k].handle, k)

\* A step of either plan is one of the two put together.
LEMMA MadeMore ==
  ASSUME NEW A, NEW B, IsPlan(A), IsPlan(B), NEW c, Has(A, c) \/ Has(B, c)
  PROVE  Has(A \o B, c)
<1>1. /\ Len(A) \in Nat /\ Len(B) \in Nat /\ Len(A \o B) = Len(A) + Len(B)
      /\ \A j \in 1 .. Len(A) : (A \o B)[j] = A[j]
      /\ \A j \in 1 .. Len(B) : (A \o B)[Len(A) + j] = B[j]
  BY JoinPlans
<1>2. ASSUME NEW j \in 1 .. Len(A), A[j] = c
      PROVE  j \in 1 .. Len(A \o B) /\ (A \o B)[j] = c
  BY <1>1, <1>2
<1>3. ASSUME NEW j \in 1 .. Len(B), B[j] = c
      PROVE  Len(A) + j \in 1 .. Len(A \o B) /\ (A \o B)[Len(A) + j] = c
  BY <1>1, <1>3
<1> QED
  BY <1>2, <1>3 DEF Has

LEMMA SoundMore ==
  ASSUME NEW P, NEW base, NEW more, Sound(P, base), base \subseteq more
  PROVE  Sound(P, more)
<1>1. ASSUME NEW k \in 1 .. Len(P) PROVE SoundAt(P, k, more)
  <2>1. SoundAt(P, k, base)
    BY DEF Sound
  <2> QED
    BY <2>1 DEF SoundAt
<1> QED
  BY <1>1 DEF Sound

\* Two plans, the second made of what the first leaves.
LEMMA MadeJoin ==
  ASSUME NEW A, NEW B, NEW base, NEW more, NEW S, NEW T, NEW M, NEW N,
         Made(A, base, S, M), Made(B, more, T, N), more \subseteq base \cup M, S \cap T = {}
  PROVE  Made(A \o B, base, S \cup T, M \cup N)
<1>1. /\ Sound(A, base) /\ Sound(B, base \cup M) /\ IsPlan(A) /\ IsPlan(B)
      /\ Makers(A, S) /\ Makers(B, T) /\ New({}, A) /\ New({}, B)
  BY SoundMore DEF Made, Sound
<1>2. \A u \in M : Firm(u) /\ Has(A, MakeOf(u))
  BY DEF Made
<1>3. Sound(A \o B, base)
  BY <1>1, <1>2, JoinSound DEF Has
<1>4. Makers(A \o B, S \cup T)
  BY <1>1, MakersJoin
<1>5. New({} \cup S, B)
  BY <1>1 DEF New, Makers
<1>6. New({}, A \o B)
  BY <1>1, <1>5, NewJoin
<1>7. \A h \in M \cup N : Firm(h) /\ Has(A \o B, MakeOf(h))
  <2> SUFFICES ASSUME NEW h \in M \cup N
               PROVE  Firm(h) /\ Has(A \o B, MakeOf(h))
    OBVIOUS
  <2>1. Firm(h) /\ (Has(A, MakeOf(h)) \/ Has(B, MakeOf(h)))
    BY DEF Made
  <2> QED
    BY <1>1, <2>1, MadeMore
<1> QED
  BY <1>3, <1>4, <1>6, <1>7 DEF Made

LEMMA ReplacesNew == \A P, before : Replaces(P) => New(before, P)
BY DEF Replaces, New

\* Two plans, the second of which makes only what it has dropped before.
LEMMA ReplaceJoin ==
  ASSUME NEW A, NEW B, NEW base, NEW more, NEW S, NEW T, NEW M,
         Made(A, base, S, M), Sound(B, more), Makers(B, T), Replaces(B), more \subseteq base \cup M
  PROVE  Made(A \o B, base, S \cup T, M)
<1>1. /\ Sound(A, base) /\ Sound(B, base \cup M) /\ IsPlan(A) /\ IsPlan(B)
      /\ Makers(A, S) /\ Makers(B, T) /\ New({}, A)
  BY SoundMore DEF Made, Sound
<1>2. \A u \in M : Firm(u) /\ Has(A, MakeOf(u))
  BY DEF Made
<1>3. Sound(A \o B, base)
  BY <1>1, <1>2, JoinSound DEF Has
<1>4. Makers(A \o B, S \cup T)
  BY <1>1, MakersJoin
<1>5. New({} \cup S, B)
  BY ReplacesNew
<1>6. New({}, A \o B)
  BY <1>1, <1>5, NewJoin
<1>7. \A h \in M : Firm(h) /\ Has(A \o B, MakeOf(h))
  <2> SUFFICES ASSUME NEW h \in M
               PROVE  Firm(h) /\ Has(A \o B, MakeOf(h))
    OBVIOUS
  <2> QED
    BY <1>1, <1>2, MadeMore
<1> QED
  BY <1>3, <1>4, <1>6, <1>7 DEF Made

\* A list of steps of which each makes something, or checks.
Fit(h) == h[2] \notin Passing /\ (h = Loader \/ h \in Handled(Members)) /\ h \notin Constructed

\* A plan that is written out.
LEMMA LiteralMade ==
  ASSUME NEW P, IsPlan(P), NEW base, NEW owners, NEW made,
         \A k \in 1 .. Len(P) :
           \/ P[k].op = "check"
           \/ /\ P[k].op = "make" /\ Fit(P[k].handle)
              /\ \A u \in Uses(P[k].handle) : u \in base \/ \E j \in 1 .. k - 1 : P[j] = MakeOf(u),
         Makers(P, owners),
         \A j, k \in 1 .. Len(P) : P[j] = P[k] /\ P[k].op = "make" => j = k,
         \A h \in made : Firm(h) /\ Has(P, MakeOf(h))
  PROVE  Made(P, base, owners, made)
<1>1. \A u : \A k \in 1 .. Len(P) : P[k] # DropOf(u)
  BY DEF DropOf
<1>2. Len(P) \in Nat
  BY DEF IsPlan
<1>3. ASSUME NEW k \in 1 .. Len(P) PROVE SoundAt(P, k, base)
  <2>1. CASE P[k].op = "check"
    BY <2>1, ChecksSound
  <2>2. CASE P[k].op = "make"
    <3>1. ASSUME NEW u \in Uses(P[k].handle), u \notin base PROVE MadeBy(P, u, k)
      <4>1. PICK j \in 1 .. k - 1 : P[j] = MakeOf(u)
        BY <2>2, <3>1
      <4>2. \A i \in j + 1 .. k - 1 : i \in 1 .. Len(P)
        BY <1>2, <4>1
      <4> QED
        BY <1>1, <4>1, <4>2 DEF MadeBy
    <3>2. MakesWell(P, k, base)
      BY <2>2, <3>1 DEF MakesWell, Fit
    <3> QED
      BY <3>2, MakesSound
  <2> QED
    BY <2>1, <2>2
<1>4. New({}, P)
  <2> SUFFICES ASSUME NEW k \in 1 .. Len(P), P[k].op = "make", NEW j \in 1 .. k - 1, P[j] = P[k]
               PROVE  FALSE
    BY DEF New
  <2>1. j \in 1 .. Len(P) /\ j # k
    BY <1>2
  <2> QED
    BY <2>1
<1> QED
  BY <1>3, <1>4 DEF Made, Sound

\* A template, and a list of owners that need no more than the device.
LEMMA KindMade ==
  ASSUME NEW T, NEW parts, MakesParts(T, parts), NEW O, NEW owners, Lists(O, owners), Distinct(O),
         \A o \in owners : Plain(o) /\ Taken(o, parts)
  PROVE  Made(Each(T, O), Floor, owners, {})
<1>1. Len(O) \in Nat /\ Owners(O) = owners
  BY DEF Lists
<1>2. \A o \in Owners(O) : Plain(o) /\ Taken(o, parts) /\ o \notin {}
  BY <1>1
<1>3. Sound(Each(T, O), Floor) /\ New({}, Each(T, O)) /\ OwnersIn(Each(T, O), Owners(O))
  BY <1>1, <1>2, EachMade
<1> QED
  BY <1>1, <1>3 DEF Made, Makers, OwnersIn

LEMMA SingleMade ==
  ASSUME NEW T, NEW parts, MakesParts(T, parts), NEW a, Plain(a), Taken(a, parts)
  PROVE  Made(One(T, a), Floor, {a}, {})
<1> DEFINE O == <<a>>
<1>1. Lists(O, {a}) /\ Distinct(O)
  BY ListOf DEF Distinct
<1> HIDE DEF O
<1>2. Made(Each(T, O), Floor, {a}, {})
  BY <1>1, KindMade
<1> QED
  BY <1>2 DEF O, One

LEMMA DistinctLists ==
  /\ Distinct(Targets) /\ Distinct(ClusterBuffers) /\ Distinct(FrameBuffers)
  /\ Distinct(PoolBuffers) /\ Distinct(PoolBlocks) /\ Distinct(Whites) /\ Distinct(Luts)
  /\ Distinct(AirPasses) /\ Distinct(DrawPasses) /\ Distinct(LightPasses)
<1>1. Distinct(Targets)
  BY DEF Distinct, Targets
<1>2. Distinct(ClusterBuffers) /\ Distinct(PoolBuffers) /\ Distinct(PoolBlocks)
  BY DEF Distinct, ClusterBuffers, PoolBuffers, PoolBlocks
<1>3. Distinct(FrameBuffers)
  BY DEF Distinct, FrameBuffers
<1>4. Distinct(Whites) /\ Distinct(Luts)
  BY DEF Distinct, Whites, Luts
<1>5. Distinct(AirPasses) /\ Distinct(DrawPasses) /\ Distinct(LightPasses)
  BY DEF Distinct, AirPasses, DrawPasses, LightPasses
<1> QED
  BY <1>1, <1>2, <1>3, <1>4, <1>5

LEMMA SinglesPlain ==
  \A o \in {"staging", "queries", "ambient", "lut_sampler", "histogram", "exposure",
            "material_sampler", "shadow_map", "shadow_sampler", "ui_pass", "linear", "nearest",
            "render_finished"} : Plain(o)
BY DEF Plain, Undevised

\* The parts of Renderer::init that are built of templates.
LEMMA RendererPiecesMade ==
  /\ Made(TargetsMake, Floor, Owners(Targets), {})
  /\ Made(Each(Buffer, ClusterBuffers), Floor, Owners(ClusterBuffers), {})
  /\ Made(Each(Buffer, FrameBuffers), Floor, Owners(FrameBuffers), {})
  /\ Made(ShadowsMake, Floor, {"shadow_map", "shadow_sampler"}, {})
  /\ Made(ExposureMakes, Floor, {"histogram", "exposure"}, {})
  /\ Made(GeometryMakes, Floor, Owners(PoolBuffers) \cup Owners(PoolBlocks), {})
  /\ Made(MaterialsMake, Floor, {"material_sampler"} \cup Owners(Whites) \cup {"staging"}, {})
  /\ Made(AtmosphereMakes, Floor, {"lut_sampler"} \cup Owners(Luts) \cup {"ambient"}, {})
  /\ Made(PipelinesMake, Floor, PassOwners, {})
<1>1. Made(TargetsMake, Floor, Owners(Targets), {})
  BY KindMade, ImageParts, ListsOf, DistinctLists, ListsUnneeded, AllTaken DEF TargetsMake
<1>2. Made(Each(Buffer, ClusterBuffers), Floor, Owners(ClusterBuffers), {})
  BY KindMade, BufferParts, ListsOf, DistinctLists, ListsUnneeded, AllTaken
<1>3. Made(Each(Buffer, FrameBuffers), Floor, Owners(FrameBuffers), {})
  BY KindMade, BufferParts, ListsOf, DistinctLists, ListsUnneeded, AllTaken
<1>4. Made(ShadowsMake, Floor, {"shadow_map", "shadow_sampler"}, {})
  <2>1. Made(One(Image, "shadow_map"), Floor, {"shadow_map"}, {})
    BY SingleMade, ImageParts, SinglesPlain, AllTaken
  <2>2. Made(One(Handle, "shadow_sampler"), Floor, {"shadow_sampler"}, {})
    BY SingleMade, HandleParts, SinglesPlain, AllTaken
  <2>3. Made(One(Image, "shadow_map") \o One(Handle, "shadow_sampler"), Floor,
             {"shadow_map"} \cup {"shadow_sampler"}, {} \cup {})
    BY <2>1, <2>2, MadeJoin
  <2>4. {"shadow_map"} \cup {"shadow_sampler"} = {"shadow_map", "shadow_sampler"} /\ {} \cup {} = {}
    OBVIOUS
  <2> QED
    BY <2>3, <2>4 DEF ShadowsMake, One
<1>5. Made(ExposureMakes, Floor, {"histogram", "exposure"}, {})
  <2>1. Made(One(DeviceBuffer, "histogram"), Floor, {"histogram"}, {})
    BY SingleMade, DeviceBufferParts, SinglesPlain, AllTaken
  <2>2. Made(One(Image, "exposure"), Floor, {"exposure"}, {})
    BY SingleMade, ImageParts, SinglesPlain, AllTaken
  <2>3. Made(One(DeviceBuffer, "histogram") \o One(Image, "exposure"), Floor,
             {"histogram"} \cup {"exposure"}, {} \cup {})
    BY <2>1, <2>2, MadeJoin
  <2>4. {"histogram"} \cup {"exposure"} = {"histogram", "exposure"} /\ {} \cup {} = {}
    OBVIOUS
  <2> QED
    BY <2>3, <2>4 DEF ExposureMakes, One
<1>6. Made(GeometryMakes, Floor, Owners(PoolBuffers) \cup Owners(PoolBlocks), {})
  <2>1. Made(Each(Buffer, PoolBuffers), Floor, Owners(PoolBuffers), {})
    BY KindMade, BufferParts, ListsOf, DistinctLists, ListsUnneeded, AllTaken
  <2>2. Made(Each(Handle, PoolBlocks), Floor, Owners(PoolBlocks), {})
    BY KindMade, HandleParts, ListsOf, DistinctLists, ListsUnneeded, AllTaken
  <2>3. Owners(PoolBuffers) \cap Owners(PoolBlocks) = {} /\ {} \cup {} = {}
    BY OwnersAre
  <2> QED
    BY <2>1, <2>2, <2>3, MadeJoin DEF GeometryMakes
<1>7. Made(MaterialsMake, Floor, {"material_sampler"} \cup Owners(Whites) \cup {"staging"}, {})
  <2> DEFINE A == One(Handle, "material_sampler") \o Each(Texture, Whites)
             S == {"material_sampler"} \cup Owners(Whites)
  <2>1. Made(One(Handle, "material_sampler"), Floor, {"material_sampler"}, {})
    BY SingleMade, HandleParts, SinglesPlain, AllTaken
  <2>2. Made(Each(Texture, Whites), Floor, Owners(Whites), {})
    BY KindMade, TextureParts, ListsOf, DistinctLists, ListsUnneeded, AllTaken
  <2>3. Made(One(Buffer, "staging"), Floor, {"staging"}, {})
    BY SingleMade, BufferParts, SinglesPlain, AllTaken
  <2>4. {"material_sampler"} \cap Owners(Whites) = {} /\ S \cap {"staging"} = {} /\ {} \cup {} = {}
    BY OwnersAre
  <2>5. Made(A, Floor, S, {})
    BY <2>1, <2>2, <2>4, MadeJoin
  <2> HIDE DEF A, S
  <2>6. Made(A \o One(Buffer, "staging"), Floor, S \cup {"staging"}, {})
    BY <2>3, <2>4, <2>5, MadeJoin
  <2> QED
    BY <2>6 DEF MaterialsMake, One, A, S
<1>8. Made(AtmosphereMakes, Floor, {"lut_sampler"} \cup Owners(Luts) \cup {"ambient"}, {})
  <2> DEFINE A == One(Handle, "lut_sampler") \o Each(Image, Luts)
             S == {"lut_sampler"} \cup Owners(Luts)
  <2>1. Made(One(Handle, "lut_sampler"), Floor, {"lut_sampler"}, {})
    BY SingleMade, HandleParts, SinglesPlain, AllTaken
  <2>2. Made(Each(Image, Luts), Floor, Owners(Luts), {})
    BY KindMade, ImageParts, ListsOf, DistinctLists, ListsUnneeded, AllTaken
  <2>3. Made(One(Buffer, "ambient"), Floor, {"ambient"}, {})
    BY SingleMade, BufferParts, SinglesPlain, AllTaken
  <2>4. {"lut_sampler"} \cap Owners(Luts) = {} /\ S \cap {"ambient"} = {} /\ {} \cup {} = {}
    BY OwnersAre
  <2>5. Made(A, Floor, S, {})
    BY <2>1, <2>2, <2>4, MadeJoin
  <2> HIDE DEF A, S
  <2>6. Made(A \o One(Buffer, "ambient"), Floor, S \cup {"ambient"}, {})
    BY <2>3, <2>4, <2>5, MadeJoin
  <2> QED
    BY <2>6 DEF AtmosphereMakes, One, A, S
<1>9. Made(PipelinesMake, Floor, PassOwners, {})
  <2> DEFINE A == Each(Pipeline, AirPasses) \o Each(Pipeline, DrawPasses)
             S == Owners(AirPasses) \cup Owners(DrawPasses)
  <2>1. \A o \in PassOwners : Plain(o) /\ Taken(o, {"layout", "pipeline"})
    BY ListsUnneeded, AllTaken
  <2>2. Made(Each(Pipeline, AirPasses), Floor, Owners(AirPasses), {})
    BY <2>1, KindMade, PipelineParts, ListsOf, DistinctLists DEF PassOwners
  <2>3. Made(Each(Pipeline, DrawPasses), Floor, Owners(DrawPasses), {})
    BY <2>1, KindMade, PipelineParts, ListsOf, DistinctLists DEF PassOwners
  <2>4. Made(Each(Pipeline, LightPasses), Floor, Owners(LightPasses), {})
    BY <2>1, KindMade, PipelineParts, ListsOf, DistinctLists DEF PassOwners
  <2>5. Owners(AirPasses) \cap Owners(DrawPasses) = {} /\ S \cap Owners(LightPasses) = {} /\ {} \cup {} = {}
    BY OwnersAre
  <2>6. Made(A, Floor, S, {})
    BY <2>2, <2>3, <2>5, MadeJoin
  <2> HIDE DEF A, S
  <2>7. Made(A \o Each(Pipeline, LightPasses), Floor, S \cup Owners(LightPasses), {})
    BY <2>4, <2>5, <2>6, MadeJoin
  <2>8. S \cup Owners(LightPasses) = PassOwners
    BY DEF S, PassOwners
  <2> QED
    BY <2>7, <2>8 DEF PipelinesMake, Compute, A
<1> QED
  BY <1>1, <1>2, <1>3, <1>4, <1>5, <1>6, <1>7, <1>8, <1>9

\* What is made before, and what is made of it.
LEMMA UsesAre ==
  /\ Uses(<<"sdl", "handle">>) = {} /\ Uses(<<"loader", "handle">>) = {}
  /\ Uses(<<"window", "handle">>) \subseteq {<<"sdl", "handle">>}
  /\ Uses(<<"instance", "handle">>) \subseteq {<<"loader", "handle">>}
  /\ Uses(<<"messenger", "handle">>) \subseteq {<<"instance", "handle">>}
  /\ Uses(<<"surface", "handle">>)
       \subseteq {<<"instance", "handle">>, <<"sdl", "handle">>, <<"window", "handle">>}
  /\ Uses(<<"device", "handle">>) \subseteq {<<"instance", "handle">>}
  /\ Uses(<<"upload_pool", "handle">>) \subseteq {<<"device", "handle">>}
  /\ Uses(<<"allocator", "handle">>) \subseteq {<<"device", "handle">>}
  /\ Uses(<<"chain", "handle">>) \subseteq {<<"device", "handle">>, <<"surface", "handle">>}
  /\ Uses(<<"chain", "view">>) \subseteq {<<"device", "handle">>, <<"chain", "handle">>}
  /\ Uses(<<"chain", "ui_view">>) \subseteq {<<"device", "handle">>, <<"chain", "handle">>}
  /\ Uses(<<"ui", "context">>) = {}
  /\ Uses(<<"ui", "platform">>)
       \subseteq {<<"ui", "context">>, <<"sdl", "handle">>, <<"window", "handle">>}
  /\ Uses(<<"ui", "backend">>) \subseteq {<<"ui", "context">>}
  /\ Uses(<<"assets", "thread">>) \subseteq {<<"assets", "manager">>}
  /\ Uses(<<"pool", "threads">>) = {} /\ Uses(<<"physics", "world">>) = {}
  /\ Uses(<<"bindless", "layout">>) \subseteq Floor /\ Uses(<<"bindless", "pool">>) \subseteq Floor
  /\ Uses(<<"queries", "handle">>) \subseteq Floor
  /\ Uses(<<"command_pool", "handle">>) \subseteq Floor
  /\ Uses(<<"image_available", "handle">>) \subseteq Floor
  /\ Uses(<<"in_flight", "handle">>) \subseteq Floor
  /\ Uses(<<"render_finished", "handle">>) \subseteq Floor
<1>1. /\ Uses(<<"sdl", "handle">>) = {} /\ Uses(<<"loader", "handle">>) = {}
      /\ Uses(<<"window", "handle">>) \subseteq {<<"sdl", "handle">>}
      /\ Uses(<<"instance", "handle">>) \subseteq {<<"loader", "handle">>}
      /\ Uses(<<"messenger", "handle">>) \subseteq {<<"instance", "handle">>}
  BY DEF Uses, Undevised, OfInstance, OfSdl
<1>2. /\ Uses(<<"surface", "handle">>)
           \subseteq {<<"instance", "handle">>, <<"sdl", "handle">>, <<"window", "handle">>}
      /\ Uses(<<"device", "handle">>) \subseteq {<<"instance", "handle">>}
      /\ Uses(<<"upload_pool", "handle">>) \subseteq {<<"device", "handle">>}
      /\ Uses(<<"allocator", "handle">>) \subseteq {<<"device", "handle">>}
  BY DEF Uses, Undevised, OfInstance, OfSdl
<1>3. /\ Uses(<<"chain", "handle">>) \subseteq {<<"device", "handle">>, <<"surface", "handle">>}
      /\ Uses(<<"chain", "view">>) \subseteq {<<"device", "handle">>, <<"chain", "handle">>}
      /\ Uses(<<"chain", "ui_view">>) \subseteq {<<"device", "handle">>, <<"chain", "handle">>}
  BY DEF Uses, Undevised, OfInstance, OfSdl
<1>4. /\ Uses(<<"ui", "context">>) = {}
      /\ Uses(<<"ui", "platform">>)
           \subseteq {<<"ui", "context">>, <<"sdl", "handle">>, <<"window", "handle">>}
      /\ Uses(<<"ui", "backend">>) \subseteq {<<"ui", "context">>}
  BY DEF Uses, Undevised, OfInstance, OfSdl
<1>5. /\ Uses(<<"assets", "thread">>) \subseteq {<<"assets", "manager">>}
      /\ Uses(<<"pool", "threads">>) = {} /\ Uses(<<"physics", "world">>) = {}
  BY DEF Uses, Undevised, OfInstance, OfSdl
<1>6. \A o \in {"bindless", "queries", "command_pool", "image_available", "in_flight",
                "render_finished"} : Plain(o)
  BY DEF Plain, Undevised
<1>7. /\ Uses(<<"bindless", "layout">>) \subseteq Floor /\ Uses(<<"bindless", "pool">>) \subseteq Floor
      /\ Uses(<<"queries", "handle">>) \subseteq Floor
      /\ Uses(<<"command_pool", "handle">>) \subseteq Floor
      /\ Uses(<<"image_available", "handle">>) \subseteq Floor
      /\ Uses(<<"in_flight", "handle">>) \subseteq Floor
      /\ Uses(<<"render_finished", "handle">>) \subseteq Floor
  BY <1>6, PlainUses
<1> QED
  BY <1>1, <1>2, <1>3, <1>4, <1>5, <1>7

LEMMA AllFit ==
  /\ Fit(Loader)
  /\ \A h \in {<<"bindless", "pool">>, <<"bindless", "layout">>, <<"ui", "backend">>,
               <<"ui", "platform">>, <<"ui", "context">>, <<"assets", "thread">>,
               <<"pool", "threads">>, <<"physics", "world">>}
            \cup ChainTaken \cup LateTaken : Fit(h)
  /\ \A o \in {"queries", "command_pool", "image_available", "in_flight", "render_finished"} :
       Fit(<<o, "handle">>)
<1>1. Fit(Loader)
  BY DEF Fit, Loader, Passing, Constructed
<1>2. ASSUME NEW h \in {<<"bindless", "pool">>, <<"bindless", "layout">>, <<"ui", "backend">>,
                        <<"ui", "platform">>, <<"ui", "context">>, <<"assets", "thread">>,
                        <<"pool", "threads">>, <<"physics", "world">>}
                     \cup ChainTaken \cup LateTaken
      PROVE  Fit(h)
  <2>1. h \in Handled(Members)
    BY AllTaken DEF FirstTaken
  <2>2. h[2] \notin Passing /\ h \notin Constructed
    BY DEF Passing, Constructed, ChainTaken, LateTaken
  <2> QED
    BY <2>1, <2>2 DEF Fit
<1>3. ASSUME NEW o \in {"queries", "command_pool", "image_available", "in_flight", "render_finished"}
      PROVE  Fit(<<o, "handle">>)
  <2>1. <<o, "handle">> \in Handled(Members)
    BY AllTaken DEF SlotOwners, Taken
  <2>2. <<o, "handle">>[2] \notin Passing /\ <<o, "handle">> \notin Constructed
    BY DEF Passing, Constructed
  <2> QED
    BY <2>1, <2>2 DEF Fit
<1> QED
  BY <1>1, <1>2, <1>3

LEMMA ChecksMade ==
  Made(<<Check("scenario"), Check("SDL_allocator")>>, {}, {}, {})
<1> DEFINE P == <<Check("scenario"), Check("SDL_allocator")>>
<1>1. /\ IsPlan(P) /\ Len(P) = 2 /\ P[1].op = "check" /\ P[2].op = "check"
      /\ P[1].handle[1] = "scenario" /\ P[2].handle[1] = "SDL_allocator"
  BY DEF IsPlan, IsCommand, IsPair, Check, Range
<1> HIDE DEF P
<1>2. Made(P, {}, {}, {})
  BY <1>1, LiteralMade DEF Makers
<1> QED
  BY <1>2 DEF P

LEMMA WindowMade ==
  Made(WindowMakes, {},
       {"sdl", "window"},
       {<<"sdl", "handle">>, <<"window", "handle">>})
<1> DEFINE P == WindowMakes
<1>1. /\ Len(P) = 2
      /\ P[1] = MakeOf(<<"sdl", "handle">>) /\ P[1].op = "make" /\ P[1].handle = <<"sdl", "handle">>
      /\ P[2] = MakeOf(<<"window", "handle">>) /\ P[2].op = "make" /\ P[2].handle = <<"window", "handle">>
  BY DEF Make, MakeOf, WindowMakes
<1>2. IsPlan(P)
  BY DEF IsPlan, IsCommand, IsPair, Range, Make, WindowMakes
<1> HIDE DEF P
<1>3. \A k \in 1 .. Len(P) :
        \/ P[k].op = "check"
        \/ /\ P[k].op = "make" /\ Fit(P[k].handle)
           /\ \A u \in Uses(P[k].handle) : u \in {} \/ \E j \in 1 .. k - 1 : P[j] = MakeOf(u)
  <2>1. Fit(<<"sdl", "handle">>) /\ Fit(<<"window", "handle">>)
    BY AllFit DEF LateTaken, ChainTaken, Loader
  <2> QED
    BY <1>1, <2>1, UsesAre
<1>4. Makers(P, {"sdl", "window"})
  BY <1>1 DEF Makers
<1>5. \A j, k \in 1 .. Len(P) : P[j] = P[k] /\ P[k].op = "make" => j = k
  BY <1>1
<1>6. \A h \in {<<"sdl", "handle">>, <<"window", "handle">>} : Firm(h) /\ Has(P, MakeOf(h))
  BY <1>1 DEF Has, Firm, Passing
<1> QED
  BY <1>2, <1>3, <1>4, <1>5, <1>6, LiteralMade DEF P

LEMMA ContextMade ==
  Made(ContextMakes, {<<"sdl", "handle">>, <<"window", "handle">>},
       {"loader", "instance", "messenger", "surface"},
       {<<"instance", "handle">>, <<"surface", "handle">>})
<1> DEFINE P == ContextMakes
<1>1. /\ Len(P) = 5
      /\ P[1] = MakeOf(<<"loader", "handle">>) /\ P[1].op = "make" /\ P[1].handle = <<"loader", "handle">>
      /\ P[2].op = "check" /\ P[2].handle[1] = "extensions"
      /\ P[3] = MakeOf(<<"instance", "handle">>) /\ P[3].op = "make" /\ P[3].handle = <<"instance", "handle">>
      /\ P[4] = MakeOf(<<"messenger", "handle">>) /\ P[4].op = "make" /\ P[4].handle = <<"messenger", "handle">>
      /\ P[5] = MakeOf(<<"surface", "handle">>) /\ P[5].op = "make" /\ P[5].handle = <<"surface", "handle">>
  BY DEF Make, MakeOf, Check, ContextMakes
<1>2. IsPlan(P)
  BY DEF IsPlan, IsCommand, IsPair, Range, Make, Check, ContextMakes
<1> HIDE DEF P
<1>3. \A k \in 1 .. Len(P) :
        \/ P[k].op = "check"
        \/ /\ P[k].op = "make" /\ Fit(P[k].handle)
           /\ \A u \in Uses(P[k].handle) : u \in {<<"sdl", "handle">>, <<"window", "handle">>} \/ \E j \in 1 .. k - 1 : P[j] = MakeOf(u)
  <2>1. /\ Fit(<<"loader", "handle">>)
        /\ Fit(<<"instance", "handle">>)
        /\ Fit(<<"messenger", "handle">>)
        /\ Fit(<<"surface", "handle">>)
    BY AllFit DEF LateTaken, ChainTaken, Loader
  <2> QED
    BY <1>1, <2>1, UsesAre
<1>4. Makers(P, {"loader", "instance", "messenger", "surface"})
  BY <1>1 DEF Makers
<1>5. \A j, k \in 1 .. Len(P) : P[j] = P[k] /\ P[k].op = "make" => j = k
  BY <1>1
<1>6. \A h \in {<<"instance", "handle">>, <<"surface", "handle">>} : Firm(h) /\ Has(P, MakeOf(h))
  BY <1>1 DEF Has, Firm, Passing
<1> QED
  BY <1>2, <1>3, <1>4, <1>5, <1>6, LiteralMade DEF P

LEMMA DeviceMade ==
  Made(DeviceMakes, {<<"instance", "handle">>},
       {"device", "upload_pool"},
       {<<"device", "handle">>, <<"upload_pool", "handle">>})
<1> DEFINE P == DeviceMakes
<1>1. /\ Len(P) = 3
      /\ P[1].op = "check" /\ P[1].handle[1] = "physical_device"
      /\ P[2] = MakeOf(<<"device", "handle">>) /\ P[2].op = "make" /\ P[2].handle = <<"device", "handle">>
      /\ P[3] = MakeOf(<<"upload_pool", "handle">>) /\ P[3].op = "make" /\ P[3].handle = <<"upload_pool", "handle">>
  BY DEF Make, MakeOf, Check, DeviceMakes, PickPhysical
<1>2. IsPlan(P)
  BY DEF IsPlan, IsCommand, IsPair, Range, Make, Check, DeviceMakes, PickPhysical
<1> HIDE DEF P
<1>3. \A k \in 1 .. Len(P) :
        \/ P[k].op = "check"
        \/ /\ P[k].op = "make" /\ Fit(P[k].handle)
           /\ \A u \in Uses(P[k].handle) : u \in {<<"instance", "handle">>} \/ \E j \in 1 .. k - 1 : P[j] = MakeOf(u)
  <2>1. Fit(<<"device", "handle">>) /\ Fit(<<"upload_pool", "handle">>)
    BY AllFit DEF LateTaken, ChainTaken, Loader
  <2> QED
    BY <1>1, <2>1, UsesAre
<1>4. Makers(P, {"device", "upload_pool"})
  BY <1>1 DEF Makers
<1>5. \A j, k \in 1 .. Len(P) : P[j] = P[k] /\ P[k].op = "make" => j = k
  BY <1>1
<1>6. \A h \in {<<"device", "handle">>, <<"upload_pool", "handle">>} : Firm(h) /\ Has(P, MakeOf(h))
  BY <1>1 DEF Has, Firm, Passing
<1> QED
  BY <1>2, <1>3, <1>4, <1>5, <1>6, LiteralMade DEF P

LEMMA AllocatorMade ==
  Made(AllocatorMakes, {<<"device", "handle">>},
       {"allocator"},
       {<<"allocator", "handle">>})
<1> DEFINE P == AllocatorMakes
<1>1. /\ Len(P) = 1
      /\ P[1] = MakeOf(<<"allocator", "handle">>) /\ P[1].op = "make" /\ P[1].handle = <<"allocator", "handle">>
  BY DEF Make, MakeOf, AllocatorMakes
<1>2. IsPlan(P)
  BY DEF IsPlan, IsCommand, IsPair, Range, Make, AllocatorMakes
<1> HIDE DEF P
<1>3. \A k \in 1 .. Len(P) :
        \/ P[k].op = "check"
        \/ /\ P[k].op = "make" /\ Fit(P[k].handle)
           /\ \A u \in Uses(P[k].handle) : u \in {<<"device", "handle">>} \/ \E j \in 1 .. k - 1 : P[j] = MakeOf(u)
  <2>1. Fit(<<"allocator", "handle">>)
    BY AllFit DEF LateTaken, ChainTaken, Loader
  <2> QED
    BY <1>1, <2>1, UsesAre
<1>4. Makers(P, {"allocator"})
  BY <1>1 DEF Makers
<1>5. \A j, k \in 1 .. Len(P) : P[j] = P[k] /\ P[k].op = "make" => j = k
  BY <1>1
<1>6. \A h \in {<<"allocator", "handle">>} : Firm(h) /\ Has(P, MakeOf(h))
  BY <1>1 DEF Has, Firm, Passing
<1> QED
  BY <1>2, <1>3, <1>4, <1>5, <1>6, LiteralMade DEF P

LEMMA SwapchainMade ==
  Made(SwapchainMakes, {<<"device", "handle">>, <<"surface", "handle">>},
       {"chain"},
       {})
<1> DEFINE P == SwapchainMakes
<1>1. /\ Len(P) = 4
      /\ P[1].op = "check" /\ P[1].handle[1] = "surface"
      /\ P[2] = MakeOf(<<"chain", "handle">>) /\ P[2].op = "make" /\ P[2].handle = <<"chain", "handle">>
      /\ P[3] = MakeOf(<<"chain", "view">>) /\ P[3].op = "make" /\ P[3].handle = <<"chain", "view">>
      /\ P[4] = MakeOf(<<"chain", "ui_view">>) /\ P[4].op = "make" /\ P[4].handle = <<"chain", "ui_view">>
  BY DEF Make, MakeOf, Check, SwapchainMakes, ChainMakes, ViewsMake
<1>2. IsPlan(P)
  BY DEF IsPlan, IsCommand, IsPair, Range, Make, Check, SwapchainMakes, ChainMakes, ViewsMake
<1> HIDE DEF P
<1>3. \A k \in 1 .. Len(P) :
        \/ P[k].op = "check"
        \/ /\ P[k].op = "make" /\ Fit(P[k].handle)
           /\ \A u \in Uses(P[k].handle) : u \in {<<"device", "handle">>, <<"surface", "handle">>} \/ \E j \in 1 .. k - 1 : P[j] = MakeOf(u)
  <2>1. /\ Fit(<<"chain", "handle">>)
        /\ Fit(<<"chain", "view">>)
        /\ Fit(<<"chain", "ui_view">>)
    BY AllFit DEF LateTaken, ChainTaken, Loader
  <2> QED
    BY <1>1, <2>1, UsesAre
<1>4. Makers(P, {"chain"})
  BY <1>1 DEF Makers
<1>5. \A j, k \in 1 .. Len(P) : P[j] = P[k] /\ P[k].op = "make" => j = k
  BY <1>1
<1>6. \A h \in {} : Firm(h) /\ Has(P, MakeOf(h))
  OBVIOUS
<1> QED
  BY <1>2, <1>3, <1>4, <1>5, <1>6, LiteralMade DEF P

LEMMA BindlessMade ==
  Made(BindlessMakes, Floor,
       {"bindless"},
       {<<"bindless", "pool">>})
<1> DEFINE P == BindlessMakes
<1>1. /\ Len(P) = 2
      /\ P[1] = MakeOf(<<"bindless", "layout">>) /\ P[1].op = "make" /\ P[1].handle = <<"bindless", "layout">>
      /\ P[2] = MakeOf(<<"bindless", "pool">>) /\ P[2].op = "make" /\ P[2].handle = <<"bindless", "pool">>
  BY DEF Make, MakeOf, BindlessMakes
<1>2. IsPlan(P)
  BY DEF IsPlan, IsCommand, IsPair, Range, Make, BindlessMakes
<1> HIDE DEF P
<1>3. \A k \in 1 .. Len(P) :
        \/ P[k].op = "check"
        \/ /\ P[k].op = "make" /\ Fit(P[k].handle)
           /\ \A u \in Uses(P[k].handle) : u \in Floor \/ \E j \in 1 .. k - 1 : P[j] = MakeOf(u)
  <2>1. Fit(<<"bindless", "layout">>) /\ Fit(<<"bindless", "pool">>)
    BY AllFit DEF LateTaken, ChainTaken, Loader
  <2> QED
    BY <1>1, <2>1, UsesAre
<1>4. Makers(P, {"bindless"})
  BY <1>1 DEF Makers
<1>5. \A j, k \in 1 .. Len(P) : P[j] = P[k] /\ P[k].op = "make" => j = k
  BY <1>1
<1>6. \A h \in {<<"bindless", "pool">>} : Firm(h) /\ Has(P, MakeOf(h))
  BY <1>1 DEF Has, Firm, Passing
<1> QED
  BY <1>2, <1>3, <1>4, <1>5, <1>6, LiteralMade DEF P

LEMMA SlotsMade ==
  Made(SlotsMake, Floor,
       {"queries", "command_pool", "image_available", "in_flight"},
       {})
<1> DEFINE P == SlotsMake
<1>1. /\ Len(P) = 5
      /\ P[1] = MakeOf(<<"queries", "handle">>) /\ P[1].op = "make" /\ P[1].handle = <<"queries", "handle">>
      /\ P[2] = MakeOf(<<"command_pool", "handle">>) /\ P[2].op = "make" /\ P[2].handle = <<"command_pool", "handle">>
      /\ P[3].op = "check" /\ P[3].handle[1] = "command_buffers"
      /\ P[4] = MakeOf(<<"image_available", "handle">>) /\ P[4].op = "make" /\ P[4].handle = <<"image_available", "handle">>
      /\ P[5] = MakeOf(<<"in_flight", "handle">>) /\ P[5].op = "make" /\ P[5].handle = <<"in_flight", "handle">>
  BY DEF Make, MakeOf, Check, SlotsMake
<1>2. IsPlan(P)
  BY DEF IsPlan, IsCommand, IsPair, Range, Make, Check, SlotsMake
<1> HIDE DEF P
<1>3. \A k \in 1 .. Len(P) :
        \/ P[k].op = "check"
        \/ /\ P[k].op = "make" /\ Fit(P[k].handle)
           /\ \A u \in Uses(P[k].handle) : u \in Floor \/ \E j \in 1 .. k - 1 : P[j] = MakeOf(u)
  <2>1. /\ Fit(<<"queries", "handle">>)
        /\ Fit(<<"command_pool", "handle">>)
        /\ Fit(<<"image_available", "handle">>)
        /\ Fit(<<"in_flight", "handle">>)
    BY AllFit DEF LateTaken, ChainTaken, Loader
  <2> QED
    BY <1>1, <2>1, UsesAre
<1>4. Makers(P, {"queries", "command_pool", "image_available", "in_flight"})
  BY <1>1 DEF Makers
<1>5. \A j, k \in 1 .. Len(P) : P[j] = P[k] /\ P[k].op = "make" => j = k
  BY <1>1
<1>6. \A h \in {} : Firm(h) /\ Has(P, MakeOf(h))
  OBVIOUS
<1> QED
  BY <1>2, <1>3, <1>4, <1>5, <1>6, LiteralMade DEF P

LEMMA UiContextMade ==
  Made(<<Make("ui", "context"), Make("ui", "platform")>> \o <<Make("ui", "backend")>>, {<<"sdl", "handle">>, <<"window", "handle">>},
       {"ui"},
       {<<"ui", "backend">>})
<1> DEFINE P == <<Make("ui", "context"), Make("ui", "platform")>> \o <<Make("ui", "backend")>>
<1>1. /\ Len(P) = 3
      /\ P[1] = MakeOf(<<"ui", "context">>) /\ P[1].op = "make" /\ P[1].handle = <<"ui", "context">>
      /\ P[2] = MakeOf(<<"ui", "platform">>) /\ P[2].op = "make" /\ P[2].handle = <<"ui", "platform">>
      /\ P[3] = MakeOf(<<"ui", "backend">>) /\ P[3].op = "make" /\ P[3].handle = <<"ui", "backend">>
  BY DEF Make, MakeOf
<1>2. IsPlan(P)
  BY DEF IsPlan, IsCommand, IsPair, Range, Make
<1> HIDE DEF P
<1>3. \A k \in 1 .. Len(P) :
        \/ P[k].op = "check"
        \/ /\ P[k].op = "make" /\ Fit(P[k].handle)
           /\ \A u \in Uses(P[k].handle) : u \in {<<"sdl", "handle">>, <<"window", "handle">>} \/ \E j \in 1 .. k - 1 : P[j] = MakeOf(u)
  <2>1. /\ Fit(<<"ui", "context">>)
        /\ Fit(<<"ui", "platform">>)
        /\ Fit(<<"ui", "backend">>)
    BY AllFit DEF LateTaken, ChainTaken, Loader
  <2> QED
    BY <1>1, <2>1, UsesAre
<1>4. Makers(P, {"ui"})
  BY <1>1 DEF Makers
<1>5. \A j, k \in 1 .. Len(P) : P[j] = P[k] /\ P[k].op = "make" => j = k
  BY <1>1
<1>6. \A h \in {<<"ui", "backend">>} : Firm(h) /\ Has(P, MakeOf(h))
  BY <1>1 DEF Has, Firm, Passing
<1> QED
  BY <1>2, <1>3, <1>4, <1>5, <1>6, LiteralMade DEF P

LEMMA ThreadsMade ==
  Made(Threads, {<<"assets", "manager">>},
       {"assets", "pool", "physics"},
       {<<"physics", "world">>})
<1> DEFINE P == Threads
<1>1. /\ Len(P) = 3
      /\ P[1] = MakeOf(<<"assets", "thread">>) /\ P[1].op = "make" /\ P[1].handle = <<"assets", "thread">>
      /\ P[2] = MakeOf(<<"pool", "threads">>) /\ P[2].op = "make" /\ P[2].handle = <<"pool", "threads">>
      /\ P[3] = MakeOf(<<"physics", "world">>) /\ P[3].op = "make" /\ P[3].handle = <<"physics", "world">>
  BY DEF Make, MakeOf, Threads
<1>2. IsPlan(P)
  BY DEF IsPlan, IsCommand, IsPair, Range, Make, Threads
<1> HIDE DEF P
<1>3. \A k \in 1 .. Len(P) :
        \/ P[k].op = "check"
        \/ /\ P[k].op = "make" /\ Fit(P[k].handle)
           /\ \A u \in Uses(P[k].handle) : u \in {<<"assets", "manager">>} \/ \E j \in 1 .. k - 1 : P[j] = MakeOf(u)
  <2>1. /\ Fit(<<"assets", "thread">>)
        /\ Fit(<<"pool", "threads">>)
        /\ Fit(<<"physics", "world">>)
    BY AllFit DEF LateTaken, ChainTaken, Loader
  <2> QED
    BY <1>1, <2>1, UsesAre
<1>4. Makers(P, {"assets", "pool", "physics"})
  BY <1>1 DEF Makers
<1>5. \A j, k \in 1 .. Len(P) : P[j] = P[k] /\ P[k].op = "make" => j = k
  BY <1>1
<1>6. \A h \in {<<"physics", "world">>} : Firm(h) /\ Has(P, MakeOf(h))
  BY <1>1 DEF Has, Firm, Passing
<1> QED
  BY <1>2, <1>3, <1>4, <1>5, <1>6, LiteralMade DEF P

-----------------------------------------------------------------------------
(* What is made again *)

LEMMA EachReplaces ==
  ASSUME NEW T, NEW O, Len(T) \in Nat \ {0}, Len(O) \in Nat,
         \A i \in 1 .. Len(O) : Replaces(One(T, O[i]))
  PROVE  Replaces(Each(T, O))
<1> SUFFICES ASSUME NEW k \in 1 .. Len(Each(T, O)), Each(T, O)[k].op = "make"
             PROVE  DroppedBy(Each(T, O), Each(T, O)[k].handle, k)
  BY DEF Replaces
<1>1. PICK i \in 1 .. Len(O), s \in 1 .. Len(T) : k = Place(T, i, s)
  BY EachAt
<1> DEFINE Q == One(T, O[i])
           off == Place(T, i, 0)
<1>2. PartOf(Q, Each(T, O), off) /\ s \in 1 .. Len(Q) /\ k = off + s /\ Replaces(Q)
  BY <1>1, EachPart, EachOne, EachFrom
<1> HIDE DEF Q, off
<1>3. Each(T, O)[k] = Q[s]
  BY <1>2 DEF PartOf
<1>4. DroppedBy(Q, Q[s].handle, s)
  BY <1>2, <1>3 DEF Replaces
<1>5. DroppedBy(Each(T, O), Q[s].handle, off + s)
  BY <1>2, <1>4, PartMade
<1> QED
  BY <1>2, <1>3, <1>5

LEMMA JoinReplaces ==
  ASSUME NEW A, NEW B, IsPlan(A), IsPlan(B), Replaces(A), Replaces(B)
  PROVE  Replaces(A \o B)
<1> DEFINE P == A \o B
<1>1. /\ PartOf(A, P, 0) /\ PartOf(B, P, Len(A)) /\ Len(A) \in Nat
      /\ \A k \in 1 .. Len(P) : k \in 1 .. Len(A) \/ k - Len(A) \in 1 .. Len(B)
  BY JoinPlans, JoinParts
<1> HIDE DEF P
<1>2. ASSUME NEW k \in 1 .. Len(A), P[k].op = "make" PROVE DroppedBy(P, P[k].handle, k)
  <2>1. P[0 + k] = A[k] /\ 0 + k = k
    BY <1>1 DEF PartOf
  <2>2. DroppedBy(A, A[k].handle, k)
    BY <1>2, <2>1 DEF Replaces
  <2>3. DroppedBy(P, A[k].handle, 0 + k)
    BY <1>1, <2>2, PartMade
  <2> QED
    BY <2>1, <2>3
<1>3. ASSUME NEW k \in 1 .. Len(P), k - Len(A) \in 1 .. Len(B), P[k].op = "make"
      PROVE  DroppedBy(P, P[k].handle, k)
  <2> DEFINE i == k - Len(A)
  <2>1. i \in 1 .. Len(B) /\ Len(A) + i = k
    BY <1>1, <1>3
  <2> HIDE DEF i
  <2>2. P[Len(A) + i] = B[i]
    BY <1>1, <2>1 DEF PartOf
  <2>3. DroppedBy(B, B[i].handle, i)
    BY <1>3, <2>1, <2>2 DEF Replaces
  <2>4. DroppedBy(P, B[i].handle, Len(A) + i)
    BY <1>1, <2>1, <2>3, PartMade
  <2> QED
    BY <2>1, <2>2, <2>4
<1> QED
  BY <1>1, <1>2, <1>3 DEF Replaces, P

LEMMA ResizeReplaces ==
  ASSUME NEW o
  PROVE  Replaces(One(ResizeTarget, o))
<1> DEFINE P == One(ResizeTarget, o)
<1>1. Len(ResizeTarget) = 4
  BY DEF ResizeTarget
<1>2. /\ Len(P) = 4
      /\ \A s \in 1 .. 4 : P[s] = Command(ResizeTarget[s], o) /\ P[s].op = ResizeTarget[s][1]
                           /\ P[s].handle = <<o, ResizeTarget[s][2]>>
  BY <1>1, OnePlan
<1> HIDE DEF P
<1>3. /\ P[1] = DropOf(<<o, "view">>) /\ P[2] = DropOf(<<o, "image">>)
      /\ P[1].op = "drop" /\ P[2].op = "drop"
      /\ P[3].handle = <<o, "image">> /\ P[4].handle = <<o, "view">>
  BY <1>2, CommandMakes DEF ResizeTarget
<1>4. <<o, "image">>[2] = "image" /\ <<o, "view">>[2] = "view"
  OBVIOUS
<1>5. DroppedBy(P, P[3].handle, 3)
  <2>1. 2 \in 1 .. 3 - 1 /\ 2 + 1 .. 3 - 1 = {}
    OBVIOUS
  <2> QED
    BY <1>3, <2>1 DEF DroppedBy
<1>6. DroppedBy(P, P[4].handle, 4)
  <2>1. 1 \in 1 .. 4 - 1 /\ \A i \in 1 + 1 .. 4 - 1 : i \in {2, 3}
    OBVIOUS
  <2>2. P[2] # MakeOf(<<o, "view">>) /\ P[3] # MakeOf(<<o, "view">>)
    BY <1>3, <1>4 DEF MakeOf
  <2> QED
    BY <1>3, <2>1, <2>2 DEF DroppedBy
<1> QED
  BY <1>2, <1>3, <1>5, <1>6 DEF Replaces, P

\* The targets and a semaphore an image follow the swapchain's size.
LEMMA TargetsFollowIt ==
  /\ Sound(TargetsFollow, Floor) /\ Replaces(TargetsFollow)
  /\ \A h \in Handled(TargetsFollow) :
       h[1] \in Owners(Targets) \cup {"render_finished"} /\ h[2] \notin Passing
<1> DEFINE A == Each(ResizeTarget, Targets)
           B == <<Drop("render_finished", "handle"), Make("render_finished", "handle")>>
<1>1. Made(A, Floor, Owners(Targets), {}) /\ IsPlan(A)
  <2>1. Made(A, Floor, Owners(Targets), {})
    BY KindMade, ResizeParts, ListsOf, DistinctLists, ListsUnneeded, AllTaken
  <2> QED
    BY <2>1 DEF Made, Sound
<1>2. Replaces(A)
  <2>1. Len(ResizeTarget) \in Nat \ {0} /\ Len(Targets) \in Nat
    BY DEF ResizeTarget, Targets
  <2> QED
    BY <2>1, EachReplaces, ResizeReplaces
<1>3. \A h \in Handled(A) : h[1] \in Owners(Targets) /\ h[2] \notin Passing
  <2> SUFFICES ASSUME NEW k \in 1 .. Len(A)
               PROVE  A[k].handle[1] \in Owners(Targets) /\ A[k].handle[2] \notin Passing
    BY <1>1 DEF Handled, IsPlan
  <2>1. Len(ResizeTarget) = 4 /\ Len(Targets) \in Nat
    BY DEF ResizeTarget, Targets
  <2>2. PICK i \in 1 .. Len(Targets), s \in 1 .. 4 : A[k] = Command(ResizeTarget[s], Targets[i])
    <3>1. Len(ResizeTarget) \in Nat \ {0}
      BY <2>1
    <3>2. PICK i \in 1 .. Len(Targets), s \in 1 .. Len(ResizeTarget) : k = Place(ResizeTarget, i, s)
      BY <2>1, <3>1, EachAt
    <3>3. Len(Targets) \in Nat
      BY <2>1
    <3>4. Each(ResizeTarget, Targets)[Place(ResizeTarget, i, s)] = Command(ResizeTarget[s], Targets[i])
      BY <3>1, <3>3, EachAt
    <3> QED
      BY <2>1, <3>2, <3>4
  <2>3. A[k].handle[1] = Targets[i] /\ A[k].handle[2] = ResizeTarget[s][2]
    BY <2>2, CommandIs
  <2>4. ResizeTarget[s][2] \in {"view", "image"}
    BY DEF ResizeTarget
  <2> QED
    BY <2>3, <2>4 DEF Owners, Passing
<1>4. /\ Len(B) = 2 /\ DOMAIN B = 1 .. 2
      /\ B[1] = DropOf(<<"render_finished", "handle">>) /\ B[1].op = "drop" /\ B[2].op = "make"
      /\ B[1].handle = <<"render_finished", "handle">> /\ B[2].handle = <<"render_finished", "handle">>
  BY DEF Drop, Make, DropOf
<1>5. IsPlan(B)
  BY DEF IsPlan, IsCommand, IsPair, Range, Drop, Make
<1> HIDE DEF A, B
<1>6. Replaces(B)
  <2>1. 1 \in 1 .. 2 - 1 /\ 1 + 1 .. 2 - 1 = {}
    OBVIOUS
  <2> QED
    BY <1>4, <2>1 DEF Replaces, DroppedBy
<1>7. Sound(B, Floor)
  <2>1. SoundAt(B, 1, Floor)
    BY <1>4 DEF SoundAt, Firm
  <2>2. SoundAt(B, 2, Floor)
    <3>1. Fit(<<"render_finished", "handle">>) /\ Uses(<<"render_finished", "handle">>) \subseteq Floor
      BY AllFit, UsesAre
    <3> QED
      BY <1>4, <3>1 DEF SoundAt, Fit
  <2> QED
    BY <1>4, <1>5, <2>1, <2>2 DEF Sound
<1>8. Sound(A \o B, Floor)
  <2>1. Makers(B, {"render_finished"})
    BY <1>4 DEF Makers
  <2>2. Made(A \o B, Floor, Owners(Targets) \cup {"render_finished"}, {})
    BY <1>1, <1>6, <1>7, <2>1, ReplaceJoin
  <2> QED
    BY <2>2 DEF Made
<1>9. Replaces(A \o B) /\ Handled(A \o B) = Handled(A) \cup Handled(B)
  BY <1>1, <1>2, <1>5, <1>6, JoinReplaces, JoinPlans
<1>10. \A h \in Handled(B) : h[1] = "render_finished" /\ h[2] \notin Passing
  BY <1>4 DEF Handled, Passing
<1> QED
  BY <1>3, <1>8, <1>9, <1>10 DEF TargetsFollow, A, B

LEMMA JoinAgain ==
  ASSUME NEW A, NEW B, NEW C, IsPlan(A), IsPlan(B), IsPlan(C)
  PROVE  A \o (B \o C) = (A \o B) \o C
<1> DEFINE S == Range(A) \cup Range(B) \cup Range(C)
<1>1. A \in Seq(S) /\ B \in Seq(S) /\ C \in Seq(S)
  BY DEF IsPlan
<1> QED
  BY <1>1, ConcatAssociative

LEMMA SoundJoin ==
  ASSUME NEW A, NEW B, NEW base, Sound(A, base), Sound(B, base)
  PROVE  Sound(A \o B, base)
<1> DEFINE more == {}
<1>1. Sound(B, base \cup more)
  BY SoundMore
<1>2. \A u \in more : Firm(u) /\ \E j \in 1 .. Len(A) : A[j] = MakeOf(u)
  OBVIOUS
<1> HIDE DEF more
<1> QED
  BY <1>1, <1>2, JoinSound

\* What the step needs of a rebuild: it replaces no more than the chain and the
\* targets.
LEMMA RebuildSound ==
  /\ Sound(Rebuild, Relied) /\ New(RebuildOwners, Rebuild) /\ OwnersIn(Rebuild, RebuildOwners)
  /\ \A k \in 1 .. Len(Rebuild) : Rebuild[k].handle[2] \notin Passing
<1> DEFINE P == <<Drop("chain", "view"), Drop("chain", "ui_view"), Drop("chain", "handle")>>
                  \o SwapchainMakes
           Lost == <<"chain", "handle">>
           View == <<"chain", "view">>
           UiView == <<"chain", "ui_view">>
<1>1. /\ Len(P) = 7 /\ DOMAIN P = 1 .. 7
      /\ P[1] = DropOf(View) /\ P[1].op = "drop" /\ P[1].handle = View
      /\ P[2] = DropOf(UiView) /\ P[2].op = "drop" /\ P[2].handle = UiView
      /\ P[3] = DropOf(Lost) /\ P[3].op = "drop" /\ P[3].handle = Lost
      /\ P[4].op = "check" /\ P[4].handle = <<"surface", "check">>
      /\ P[5] = MakeOf(Lost) /\ P[5].op = "make" /\ P[5].handle = Lost
      /\ P[6] = MakeOf(View) /\ P[6].op = "make" /\ P[6].handle = View
      /\ P[7] = MakeOf(UiView) /\ P[7].op = "make" /\ P[7].handle = UiView
  BY DEF Drop, Make, Check, DropOf, MakeOf, SwapchainMakes, ChainMakes, ViewsMake
<1>2. IsPlan(P)
  BY DEF IsPlan, IsCommand, IsPair, Range, Drop, Make, Check, SwapchainMakes, ChainMakes, ViewsMake
<1> HIDE DEF P
<1>3. \A k \in 1 .. 7 : /\ P[k] = DropOf(View) <=> k = 1
                        /\ P[k] = DropOf(UiView) <=> k = 2
                        /\ P[k] = DropOf(Lost) <=> k = 3
                        /\ P[k] = MakeOf(Lost) <=> k = 5
                        /\ P[k] = MakeOf(View) <=> k = 6
                        /\ P[k] = MakeOf(UiView) <=> k = 7
  BY <1>1 DEF DropOf, MakeOf
<1>4. /\ \A k \in 2 .. 6 : DroppedBy(P, View, k)
      /\ \A k \in 3 .. 7 : DroppedBy(P, UiView, k)
      /\ \A k \in 4 .. 5 : DroppedBy(P, Lost, k)
      /\ \A k \in 6 .. 7 : MadeBy(P, Lost, k)
  <2>1. ASSUME NEW k \in 2 .. 6 PROVE DroppedBy(P, View, k)
    <3>1. 1 \in 1 .. k - 1 /\ \A i \in 1 + 1 .. k - 1 : i \in 1 .. 7 /\ i # 6
      OBVIOUS
    <3> QED
      BY <1>1, <1>3, <3>1 DEF DroppedBy
  <2>2. ASSUME NEW k \in 3 .. 7 PROVE DroppedBy(P, UiView, k)
    <3>1. 2 \in 1 .. k - 1 /\ \A i \in 2 + 1 .. k - 1 : i \in 1 .. 7 /\ i # 7
      OBVIOUS
    <3> QED
      BY <1>1, <1>3, <3>1 DEF DroppedBy
  <2>3. ASSUME NEW k \in 4 .. 5 PROVE DroppedBy(P, Lost, k)
    <3>1. 3 \in 1 .. k - 1 /\ \A i \in 3 + 1 .. k - 1 : i \in 1 .. 7 /\ i # 5
      OBVIOUS
    <3> QED
      BY <1>1, <1>3, <3>1 DEF DroppedBy
  <2>4. ASSUME NEW k \in 6 .. 7 PROVE MadeBy(P, Lost, k)
    <3>1. 5 \in 1 .. k - 1 /\ \A i \in 5 + 1 .. k - 1 : i \in 1 .. 7 /\ i # 3
      OBVIOUS
    <3> QED
      BY <1>1, <1>3, <3>1 DEF MadeBy
  <2> QED
    BY <2>1, <2>2, <2>3, <2>4
<1>5. Replaces(P)
  <2>1. 5 \in 4 .. 5 /\ 6 \in 2 .. 6 /\ 7 \in 3 .. 7
    OBVIOUS
  <2> QED
    BY <1>1, <1>4, <2>1 DEF Replaces
<1>6. Sound(P, Relied)
  <2>1. SoundAt(P, 1, Relied) /\ SoundAt(P, 2, Relied) /\ SoundAt(P, 4, Relied)
    BY <1>1, DropsSound, ChecksSound
  <2>2. SoundAt(P, 3, Relied)
    <3>1. DroppedBy(P, View, 3) /\ DroppedBy(P, UiView, 3) /\ ~Firm(Lost) /\ Lost[2] # "image"
      BY <1>4 DEF Firm
    <3> QED
      BY <1>1, <3>1 DEF SoundAt
  <2>3. Fit(Lost) /\ Fit(View) /\ Fit(UiView)
    BY AllFit DEF ChainTaken
  <2>4. {<<"device", "handle">>, <<"surface", "handle">>} \subseteq Relied
    BY DEF Relied
  <2>5. SoundAt(P, 5, Relied)
    BY <1>1, <2>3, <2>4, UsesAre DEF SoundAt, Fit
  <2>6. SoundAt(P, 6, Relied) /\ SoundAt(P, 7, Relied)
    <3>1. MadeBy(P, Lost, 6) /\ MadeBy(P, Lost, 7)
      BY <1>4
    <3> QED
      BY <1>1, <2>3, <2>4, <3>1, UsesAre DEF SoundAt, Fit
  <2> QED
    BY <1>1, <1>2, <2>1, <2>2, <2>5, <2>6 DEF Sound
<1>7. Rebuild = P \o TargetsFollow
  BY DEF Rebuild, P
<1>8. Sound(TargetsFollow, Relied) /\ IsPlan(TargetsFollow) /\ Replaces(TargetsFollow)
  <2>1. Floor \subseteq Relied
    BY DEF Floor, Relied
  <2> QED
    BY <2>1, TargetsFollowIt, SoundMore DEF Sound
<1>9. Sound(Rebuild, Relied)
  BY <1>6, <1>7, <1>8, SoundJoin
<1>10. New(RebuildOwners, Rebuild)
  BY <1>2, <1>5, <1>7, <1>8, JoinReplaces, ReplacesNew
<1>11. Handled(Rebuild) = Handled(P) \cup Handled(TargetsFollow)
  BY <1>2, <1>7, <1>8, JoinPlans
<1>12. \A h \in Handled(P) : h[1] \in {"chain", "surface"} /\ h[2] \notin Passing
  BY <1>1 DEF Handled, Passing
<1>13. RebuildOwners = Owners(Targets) \cup {"chain", "surface", "render_finished"}
  BY DEF RebuildOwners, Owners, Range, Targets
<1>14. \A h \in Handled(Rebuild) : h[1] \in RebuildOwners /\ h[2] \notin Passing
  BY <1>11, <1>12, <1>13, TargetsFollowIt
<1>15. \A k \in 1 .. Len(Rebuild) : Rebuild[k].handle \in Handled(Rebuild)
  BY <1>9 DEF Sound, IsPlan, Handled
<1> QED
  BY <1>9, <1>10, <1>14, <1>15 DEF OwnersIn

-----------------------------------------------------------------------------
(* App::init, put together *)

RendererOwners ==
  {"bindless"} \cup Owners(Targets) \cup Owners(ClusterBuffers) \cup Owners(FrameBuffers)
    \cup {"shadow_map", "shadow_sampler"} \cup {"histogram", "exposure"}
    \cup (Owners(PoolBuffers) \cup Owners(PoolBlocks))
    \cup ({"material_sampler"} \cup Owners(Whites) \cup {"staging"})
    \cup ({"lut_sampler"} \cup Owners(Luts) \cup {"ambient"}) \cup PassOwners
    \cup {"queries", "command_pool", "image_available", "in_flight"}
    \cup (Owners(Targets) \cup {"render_finished"})

LEMMA RendererMade ==
  Made(RendererMakes, Floor, RendererOwners, {<<"bindless", "pool">>})
<1> DEFINE M == {<<"bindless", "pool">>}
           O1 == {"bindless"}
           O2 == Owners(Targets)
           O3 == Owners(ClusterBuffers)
           O4 == Owners(FrameBuffers)
           O5 == {"shadow_map", "shadow_sampler"}
           O6 == {"histogram", "exposure"}
           O7 == (Owners(PoolBuffers) \cup Owners(PoolBlocks))
           O8 == ({"material_sampler"} \cup Owners(Whites) \cup {"staging"})
           O9 == ({"lut_sampler"} \cup Owners(Luts) \cup {"ambient"})
           O10 == PassOwners
           O11 == {"queries", "command_pool", "image_available", "in_flight"}
           S2 == O1 \cup O2
           S3 == S2 \cup O3
           S4 == S3 \cup O4
           S5 == S4 \cup O5
           S6 == S5 \cup O6
           S7 == S6 \cup O7
           S8 == S7 \cup O8
           S9 == S8 \cup O9
           S10 == S9 \cup O10
           S11 == S10 \cup O11
           P2 == BindlessMakes \o TargetsMake
           P3 == P2 \o Each(Buffer, ClusterBuffers)
           P4 == P3 \o Each(Buffer, FrameBuffers)
           P5 == P4 \o ShadowsMake
           P6 == P5 \o ExposureMakes
           P7 == P6 \o GeometryMakes
           P8 == P7 \o MaterialsMake
           P9 == P8 \o AtmosphereMakes
           P10 == P9 \o PipelinesMake
           P11 == P10 \o SlotsMake
<1>1. Made(BindlessMakes, Floor, O1, M)
  BY BindlessMade
<1>2. Made(TargetsMake, Floor, O2, {})
  BY RendererPiecesMade
<1>3. Made(Each(Buffer, ClusterBuffers), Floor, O3, {})
  BY RendererPiecesMade
<1>4. Made(Each(Buffer, FrameBuffers), Floor, O4, {})
  BY RendererPiecesMade
<1>5. Made(ShadowsMake, Floor, O5, {})
  BY RendererPiecesMade
<1>6. Made(ExposureMakes, Floor, O6, {})
  BY RendererPiecesMade
<1>7. Made(GeometryMakes, Floor, O7, {})
  BY RendererPiecesMade
<1>8. Made(MaterialsMake, Floor, O8, {})
  BY RendererPiecesMade
<1>9. Made(AtmosphereMakes, Floor, O9, {})
  BY RendererPiecesMade
<1>10. Made(PipelinesMake, Floor, O10, {})
  BY RendererPiecesMade
<1>11. Made(SlotsMake, Floor, O11, {})
  BY SlotsMade
<1>12. O1 \cap O2 = {}
  BY OwnersAre DEF PassOwners
<1>13. S2 \cap O3 = {}
  BY OwnersAre DEF PassOwners
<1>14. S3 \cap O4 = {}
  BY OwnersAre DEF PassOwners
<1>15. S4 \cap O5 = {}
  BY OwnersAre DEF PassOwners
<1>16. S5 \cap O6 = {}
  BY OwnersAre DEF PassOwners
<1>17. S6 \cap O7 = {}
  BY OwnersAre DEF PassOwners
<1>18. S7 \cap O8 = {}
  BY OwnersAre DEF PassOwners
<1>19. S8 \cap O9 = {}
  BY OwnersAre DEF PassOwners
<1>20. S9 \cap O10 = {}
  BY OwnersAre DEF PassOwners
<1>21. S10 \cap O11 = {}
  BY OwnersAre DEF PassOwners
<1>22. M \cup {} = M /\ Floor \subseteq Floor \cup M
  OBVIOUS
<1> HIDE DEF M, O1, O2, O3, O4, O5, O6, O7, O8, O9, O10, O11,
         S2, S3, S4, S5, S6, S7, S8, S9, S10, S11,
         P2, P3, P4, P5, P6, P7, P8, P9, P10, P11
<1>23. Made(P2, Floor, S2, M)
  BY <1>1, <1>2, <1>12, <1>22, MadeJoin DEF P2, S2
<1>24. Made(P3, Floor, S3, M)
  BY <1>23, <1>3, <1>13, <1>22, MadeJoin DEF P3, S3
<1>25. Made(P4, Floor, S4, M)
  BY <1>24, <1>4, <1>14, <1>22, MadeJoin DEF P4, S4
<1>26. Made(P5, Floor, S5, M)
  BY <1>25, <1>5, <1>15, <1>22, MadeJoin DEF P5, S5
<1>27. Made(P6, Floor, S6, M)
  BY <1>26, <1>6, <1>16, <1>22, MadeJoin DEF P6, S6
<1>28. Made(P7, Floor, S7, M)
  BY <1>27, <1>7, <1>17, <1>22, MadeJoin DEF P7, S7
<1>29. Made(P8, Floor, S8, M)
  BY <1>28, <1>8, <1>18, <1>22, MadeJoin DEF P8, S8
<1>30. Made(P9, Floor, S9, M)
  BY <1>29, <1>9, <1>19, <1>22, MadeJoin DEF P9, S9
<1>31. Made(P10, Floor, S10, M)
  BY <1>30, <1>10, <1>20, <1>22, MadeJoin DEF P10, S10
<1>32. Made(P11, Floor, S11, M)
  BY <1>31, <1>11, <1>21, <1>22, MadeJoin DEF P11, S11
<1>33. Sound(TargetsFollow, Floor) /\ Replaces(TargetsFollow)
  BY TargetsFollowIt
<1>34. Makers(TargetsFollow, Owners(Targets) \cup {"render_finished"})
  BY TargetsFollowIt DEF Makers, Handled, Sound, IsPlan
<1>35. Made(P11 \o TargetsFollow, Floor, S11 \cup (Owners(Targets) \cup {"render_finished"}), M)
  BY <1>32, <1>33, <1>34, <1>22, ReplaceJoin
<1>36. RendererOwners = S11 \cup (Owners(Targets) \cup {"render_finished"})
  BY DEF RendererOwners, S2, S3, S4, S5, S6, S7, S8, S9, S10, S11,
         O1, O2, O3, O4, O5, O6, O7, O8, O9, O10, O11
<1> QED
  BY <1>35, <1>36 DEF RendererMakes, M, P2, P3, P4, P5, P6, P7, P8, P9, P10, P11

LEMMA UiMade ==
  Made(UiMakes, {<<"sdl", "handle">>, <<"window", "handle">>} \cup Floor,
       {"ui", "linear", "nearest", "ui_pass"}, {<<"ui", "backend">>})
<1> DEFINE C == <<Make("ui", "context"), Make("ui", "platform")>>
           B == <<Make("ui", "backend")>>
           L == <<"linear", "nearest">>
           H == Each(Handle, L)
           base == {<<"sdl", "handle">>, <<"window", "handle">>} \cup Floor
           M == {<<"ui", "backend">>}
<1>1. IsPlan(C) /\ IsPlan(B)
  BY DEF IsPlan, IsCommand, IsPair, Range, Make
<1>2. Made(C \o B, {<<"sdl", "handle">>, <<"window", "handle">>}, {"ui"}, M)
  BY UiContextMade
<1>3. Lists(L, {"linear", "nearest"}) /\ Distinct(L)
  BY DEF Lists, Owners, Distinct
<1> HIDE DEF L
<1>4. Made(H, Floor, {"linear", "nearest"}, {})
  BY <1>3, KindMade, HandleParts, SinglesPlain, AllTaken
<1>5. Made(One(Pipeline, "ui_pass"), Floor, {"ui_pass"}, {})
  BY SingleMade, PipelineParts, SinglesPlain, AllTaken
<1>6. Made(C \o B, base, {"ui"}, M)
  <2>1. Sound(C \o B, {<<"sdl", "handle">>, <<"window", "handle">>})
    BY <1>2 DEF Made
  <2>2. Sound(C \o B, base)
    BY <2>1, SoundMore
  <2> QED
    BY <1>2, <2>2 DEF Made
<1>7. Floor \subseteq base \cup M /\ M \cup {} = M
  OBVIOUS
<1> HIDE DEF C, B, H, base, M
<1> DEFINE A == (C \o B) \o H
           S == {"ui"} \cup {"linear", "nearest"}
<1>8. Made(A, base, S, M)
  <2>1. {"ui"} \cap {"linear", "nearest"} = {}
    OBVIOUS
  <2> QED
    BY <1>4, <1>6, <1>7, <2>1, MadeJoin
<1>9. S \cap {"ui_pass"} = {}
  OBVIOUS
<1> HIDE DEF A, S
<1>10. Made(A \o One(Pipeline, "ui_pass"), base, S \cup {"ui_pass"}, M)
  BY <1>5, <1>7, <1>8, <1>9, MadeJoin
<1>11. IsPlan(H) /\ IsPlan(One(Pipeline, "ui_pass")) /\ IsPlan(B \o H)
  BY <1>1, <1>4, <1>5, JoinPlans DEF Made, Sound
<1>12. C \o ((B \o H) \o One(Pipeline, "ui_pass")) = A \o One(Pipeline, "ui_pass")
  <2>1. C \o ((B \o H) \o One(Pipeline, "ui_pass")) = (C \o (B \o H)) \o One(Pipeline, "ui_pass")
    BY <1>1, <1>11, JoinAgain
  <2>2. C \o (B \o H) = (C \o B) \o H
    BY <1>1, <1>11, JoinAgain
  <2> QED
    BY <2>1, <2>2 DEF A
<1>13. UiMakes = C \o ((B \o H) \o One(Pipeline, "ui_pass"))
  BY DEF UiMakes, UiBackendMakes, One, C, B, H, L
<1>14. S \cup {"ui_pass"} = {"ui", "linear", "nearest", "ui_pass"}
  BY DEF S
<1> QED
  BY <1>10, <1>12, <1>13, <1>14 DEF base, M

GroundOwners ==
  {"sdl", "window", "loader", "instance", "messenger", "surface", "device", "upload_pool",
   "allocator"}

GroundStays ==
  {<<"sdl", "handle">>, <<"window", "handle">>, <<"instance", "handle">>, <<"surface", "handle">>,
   <<"device", "handle">>, <<"upload_pool", "handle">>, <<"allocator", "handle">>}

\* The window, the instance, the device and the allocator.
LEMMA GroundMade == Made(Ground, {}, GroundOwners, GroundStays)
<1> DEFINE A == WindowMakes \o ContextMakes
           B == A \o DeviceMakes
           M1 == {<<"sdl", "handle">>, <<"window", "handle">>}
           M2 == {<<"instance", "handle">>, <<"surface", "handle">>}
           M3 == {<<"device", "handle">>, <<"upload_pool", "handle">>}
           M4 == {<<"allocator", "handle">>}
           O1 == {"sdl", "window"}
           O2 == {"loader", "instance", "messenger", "surface"}
           O3 == {"device", "upload_pool"}
           O4 == {"allocator"}
<1>1. Made(WindowMakes, {}, O1, M1) /\ Made(ContextMakes, M1, O2, M2)
  BY WindowMade, ContextMade
<1>2. Made(DeviceMakes, {<<"instance", "handle">>}, O3, M3)
  BY DeviceMade
<1>3. Made(AllocatorMakes, {<<"device", "handle">>}, O4, M4)
  BY AllocatorMade
<1>4. /\ O1 \cap O2 = {} /\ (O1 \cup O2) \cap O3 = {} /\ (O1 \cup O2 \cup O3) \cap O4 = {}
      /\ M1 \subseteq {} \cup M1 /\ {<<"instance", "handle">>} \subseteq {} \cup (M1 \cup M2)
      /\ {<<"device", "handle">>} \subseteq {} \cup (M1 \cup M2 \cup M3)
  OBVIOUS
<1>5. GroundOwners = O1 \cup O2 \cup O3 \cup O4 /\ GroundStays = M1 \cup M2 \cup M3 \cup M4
  BY DEF GroundOwners, GroundStays
<1> HIDE DEF M1, M2, M3, M4, O1, O2, O3, O4
<1>6. Made(A, {}, O1 \cup O2, M1 \cup M2)
  BY <1>1, <1>4, MadeJoin
<1> HIDE DEF A
<1>7. Made(B, {}, O1 \cup O2 \cup O3, M1 \cup M2 \cup M3)
  BY <1>2, <1>4, <1>6, MadeJoin
<1> HIDE DEF B
<1>8. Made(B \o AllocatorMakes, {}, O1 \cup O2 \cup O3 \cup O4, M1 \cup M2 \cup M3 \cup M4)
  BY <1>3, <1>4, <1>7, MadeJoin
<1> QED
  BY <1>5, <1>8 DEF Ground, A, B

\* All of init().
LEMMA StartupMade ==
  \E owners : Made(Startup, Constructed, owners,
                   GroundStays \cup {<<"bindless", "pool">>, <<"ui", "backend">>, <<"physics", "world">>})
<1> DEFINE Checks == <<Check("scenario"), Check("SDL_allocator")>>
           A == Checks \o Ground
           B == A \o SwapchainMakes
           C == B \o RendererMakes
           D == C \o UiMakes
           M2 == {<<"bindless", "pool">>}
           M3 == {<<"ui", "backend">>}
           M4 == {<<"physics", "world">>}
           base2 == {<<"device", "handle">>, <<"surface", "handle">>}
           base3 == {<<"sdl", "handle">>, <<"window", "handle">>} \cup Floor
           O3 == {"ui", "linear", "nearest", "ui_pass"}
           O4 == {"assets", "pool", "physics"}
<1>1. Made(Checks, Constructed, {}, {})
  <2>1. Sound(Checks, {}) /\ Makers(Checks, {}) /\ New({}, Checks)
    BY ChecksMade DEF Made
  <2> HIDE DEF Checks
  <2>2. Sound(Checks, Constructed)
    BY <2>1, SoundMore
  <2> QED
    BY <2>1, <2>2 DEF Made
<1>2. Made(Ground, {}, GroundOwners, GroundStays) /\ Made(RendererMakes, Floor, RendererOwners, M2)
  BY GroundMade, RendererMade
<1>3. Made(SwapchainMakes, base2, {"chain"}, {})
  BY SwapchainMade
<1>4. Made(UiMakes, base3, O3, M3)
  BY UiMade
<1>5. Made(Threads, {<<"assets", "manager">>}, O4, M4)
  BY ThreadsMade
<1>6. /\ base2 \subseteq GroundStays /\ Floor \subseteq GroundStays /\ base3 \subseteq GroundStays
      /\ {<<"assets", "manager">>} \subseteq Constructed
  BY DEF GroundStays, Floor, Constructed
<1>7. /\ GroundOwners \cap {"chain"} = {} /\ RendererOwners \cap (GroundOwners \cup {"chain"}) = {}
      /\ O3 \cap (GroundOwners \cup {"chain"}) = {} /\ O4 \cap (GroundOwners \cup {"chain"}) = {}
      /\ O3 \cap RendererOwners = {} /\ O4 \cap RendererOwners = {} /\ O3 \cap O4 = {}
  <2>1. GroundOwners \cap {"chain"} = {} /\ O3 \cap O4 = {}
    BY DEF GroundOwners
  <2>2. O3 \cap (GroundOwners \cup {"chain"}) = {} /\ O4 \cap (GroundOwners \cup {"chain"}) = {}
    BY DEF GroundOwners
  <2>3. \A o \in RendererOwners : o \notin GroundOwners \cup {"chain"} \cup O3 \cup O4
    BY OwnersAre DEF RendererOwners, PassOwners, GroundOwners
  <2> QED
    BY <2>1, <2>2, <2>3
<1> HIDE DEF Checks, M2, M3, M4, base2, base3, O3, O4
<1> DEFINE S == GroundOwners \cup {"chain"}
<1>8. Made(A, Constructed, GroundOwners, GroundStays)
  <2>1. Made(A, Constructed, {} \cup GroundOwners, {} \cup GroundStays)
    BY <1>1, <1>2, MadeJoin
  <2>2. {} \cup GroundOwners = GroundOwners /\ {} \cup GroundStays = GroundStays
    OBVIOUS
  <2> QED
    BY <2>1, <2>2
<1> HIDE DEF A
<1>9. Made(B, Constructed, S, GroundStays)
  <2>1. base2 \subseteq Constructed \cup GroundStays /\ GroundStays \cup {} = GroundStays
    BY <1>6
  <2> QED
    BY <1>3, <1>7, <1>8, <2>1, MadeJoin
<1> HIDE DEF B, S
<1>10. Made(C, Constructed, S \cup RendererOwners, GroundStays \cup M2)
  <2>1. Floor \subseteq Constructed \cup GroundStays /\ S \cap RendererOwners = {}
    BY <1>6, <1>7 DEF S
  <2> QED
    BY <1>2, <1>9, <2>1, MadeJoin
<1> HIDE DEF C
<1>11. Made(D, Constructed, S \cup RendererOwners \cup O3, GroundStays \cup M2 \cup M3)
  <2>1. base3 \subseteq Constructed \cup (GroundStays \cup M2) /\ (S \cup RendererOwners) \cap O3 = {}
    BY <1>6, <1>7 DEF S
  <2> QED
    BY <1>4, <1>10, <2>1, MadeJoin
<1> HIDE DEF D
<1>12. Made(D \o Threads, Constructed, S \cup RendererOwners \cup O3 \cup O4,
            GroundStays \cup M2 \cup M3 \cup M4)
  <2>1. /\ {<<"assets", "manager">>} \subseteq Constructed \cup (GroundStays \cup M2 \cup M3)
        /\ (S \cup RendererOwners \cup O3) \cap O4 = {}
    BY <1>6, <1>7 DEF S
  <2> QED
    BY <1>5, <1>11, <2>1, MadeJoin
<1>13. Startup = D \o Threads
  BY DEF Startup, A, B, C, D, Checks
<1>14. GroundStays \cup M2 \cup M3 \cup M4
         = GroundStays \cup {<<"bindless", "pool">>, <<"ui", "backend">>, <<"physics", "world">>}
  BY DEF M2, M3, M4
<1> QED
  BY <1>12, <1>13, <1>14

LEMMA StartupSound == Sound(Startup, Constructed) /\ New({}, Startup)
BY StartupMade DEF Made

LEMMA StartupMakes == \A h \in Relied : MakeOf(h) \in Range(Startup)
<1> SUFFICES ASSUME NEW h \in Relied PROVE MakeOf(h) \in Range(Startup)
  OBVIOUS
<1>1. h \in GroundStays \cup {<<"bindless", "pool">>, <<"ui", "backend">>, <<"physics", "world">>}
  BY DEF Relied, GroundStays
<1>2. Has(Startup, MakeOf(h)) /\ IsPlan(Startup)
  BY <1>1, StartupMade DEF Made, Sound
<1> QED
  BY <1>2 DEF Has, Range, IsPlan

-----------------------------------------------------------------------------
(* What happens to what has been made, step by step *)

\* What a step of a plan adds to what has been made, or takes from it.
LEMMA MadeNext ==
  ASSUME NEW P, NEW h, NEW k \in Nat \ {0}
  PROVE  MadeBy(P, h, k + 1) <=> P[k] = MakeOf(h) \/ (MadeBy(P, h, k) /\ P[k] # DropOf(h))
<1>1. ASSUME P[k] = MakeOf(h) PROVE MadeBy(P, h, k + 1)
  <2>1. k \in 1 .. (k + 1) - 1 /\ k + 1 .. (k + 1) - 1 = {}
    OBVIOUS
  <2> QED
    BY <1>1, <2>1 DEF MadeBy
<1>2. ASSUME MadeBy(P, h, k), P[k] # DropOf(h) PROVE MadeBy(P, h, k + 1)
  <2>1. PICK j \in 1 .. k - 1 : P[j] = MakeOf(h) /\ \A i \in j + 1 .. k - 1 : P[i] # DropOf(h)
    BY <1>2 DEF MadeBy
  <2>2. j \in 1 .. (k + 1) - 1 /\ \A i \in j + 1 .. (k + 1) - 1 : i \in j + 1 .. k - 1 \/ i = k
    BY <2>1
  <2> QED
    BY <1>2, <2>1, <2>2 DEF MadeBy
<1>3. ASSUME MadeBy(P, h, k + 1), P[k] # MakeOf(h)
      PROVE  MadeBy(P, h, k) /\ P[k] # DropOf(h)
  <2>1. PICK j \in 1 .. (k + 1) - 1 :
          P[j] = MakeOf(h) /\ \A i \in j + 1 .. (k + 1) - 1 : P[i] # DropOf(h)
    BY <1>3 DEF MadeBy
  <2>2. j \in 1 .. k - 1 /\ k \in j + 1 .. (k + 1) - 1
    BY <1>3, <2>1
  <2>3. \A i \in j + 1 .. k - 1 : i \in j + 1 .. (k + 1) - 1
    BY <2>2
  <2> QED
    BY <2>1, <2>2, <2>3 DEF MadeBy
<1> QED
  BY <1>1, <1>2, <1>3

\* And to what has been taken apart.
LEMMA DroppedNext ==
  ASSUME NEW P, NEW h, NEW k \in Nat \ {0}
  PROVE  DroppedBy(P, h, k + 1) <=> P[k] = DropOf(h) \/ (DroppedBy(P, h, k) /\ P[k] # MakeOf(h))
<1>1. ASSUME P[k] = DropOf(h) PROVE DroppedBy(P, h, k + 1)
  <2>1. k \in 1 .. (k + 1) - 1 /\ k + 1 .. (k + 1) - 1 = {}
    OBVIOUS
  <2> QED
    BY <1>1, <2>1 DEF DroppedBy
<1>2. ASSUME DroppedBy(P, h, k), P[k] # MakeOf(h) PROVE DroppedBy(P, h, k + 1)
  <2>1. PICK j \in 1 .. k - 1 : P[j] = DropOf(h) /\ \A i \in j + 1 .. k - 1 : P[i] # MakeOf(h)
    BY <1>2 DEF DroppedBy
  <2>2. j \in 1 .. (k + 1) - 1 /\ \A i \in j + 1 .. (k + 1) - 1 : i \in j + 1 .. k - 1 \/ i = k
    BY <2>1
  <2> QED
    BY <1>2, <2>1, <2>2 DEF DroppedBy
<1>3. ASSUME DroppedBy(P, h, k + 1), P[k] # DropOf(h)
      PROVE  DroppedBy(P, h, k) /\ P[k] # MakeOf(h)
  <2>1. PICK j \in 1 .. (k + 1) - 1 :
          P[j] = DropOf(h) /\ \A i \in j + 1 .. (k + 1) - 1 : P[i] # MakeOf(h)
    BY <1>3 DEF DroppedBy
  <2>2. j \in 1 .. k - 1 /\ k \in j + 1 .. (k + 1) - 1
    BY <1>3, <2>1
  <2>3. \A i \in j + 1 .. k - 1 : i \in j + 1 .. (k + 1) - 1
    BY <2>2
  <2> QED
    BY <2>1, <2>2, <2>3 DEF DroppedBy
<1> QED
  BY <1>1, <1>2, <1>3

LEMMA NothingYet == \A P, h : ~MadeBy(P, h, 1) /\ ~DroppedBy(P, h, 1)
BY DEF MadeBy, DroppedBy

\* The plans are plans, and of the model's handles.
LEMMA Plans ==
  /\ IsPlan(Startup) /\ IsPlan(Rebuild) /\ IsPlan(Members)
  /\ \A h \in Handles : IsPair(h)
  /\ \A k \in 1 .. Len(Startup) : Startup[k].handle \in Handles
  /\ \A k \in 1 .. Len(Rebuild) : Rebuild[k].handle \in Handles
<1>1. IsPlan(Startup) /\ IsPlan(Rebuild) /\ IsPlan(Members)
  BY StartupSound, RebuildSound, MembersSound DEF Sound
<1>2. \A op \in Range(Startup) : \E k \in 1 .. Len(Startup) : op = Startup[k]
  BY <1>1 DEF IsPlan, Range
<1>3. \A op \in Range(Rebuild) : \E k \in 1 .. Len(Rebuild) : op = Rebuild[k]
  BY <1>1 DEF IsPlan, Range
<1>4. \A op \in Ops : IsPair(op.handle)
  BY <1>1, <1>2, <1>3 DEF Ops, IsPlan, IsCommand
<1>5. \A h \in Lazy \cup Constructed : IsPair(h)
  BY DEF Lazy, Constructed, IsPair
<1>6. \A h \in Handles : IsPair(h)
  BY <1>4, <1>5 DEF Handles
<1>7. \A k \in 1 .. Len(Startup) : Startup[k] \in Ops
  BY <1>1 DEF Ops, Range, IsPlan
<1>8. \A k \in 1 .. Len(Rebuild) : Rebuild[k] \in Ops
  BY <1>1 DEF Ops, Range, IsPlan
<1> QED
  BY <1>1, <1>6, <1>7, <1>8 DEF Handles

-----------------------------------------------------------------------------
\* The step to take is one of the plan's, and Plans says what these are.
LEMMA PlanNow ==
  ASSUME BasicTypes, Building, at <= Len(Plan)
  PROVE  /\ at \in 1 .. Len(Plan) /\ IsCommand(OpNow) /\ OpNow.handle \in Handles
         /\ IsPair(OpNow.handle)
         /\ SoundAt(Plan, at, IF stage = "init" THEN Constructed ELSE Relied)
         /\ OpNow.op = "make" => OpNow = MakeOf(OpNow.handle)
         /\ OpNow.op = "drop" => OpNow = DropOf(OpNow.handle)
<1>1. at \in 1 .. Len(Plan)
  BY DEF BasicTypes
<1>2. CASE stage = "init"
  <2>1. Plan = Startup
    BY <1>2 DEF Plan
  <2>2. IsCommand(OpNow) /\ OpNow.handle \in Handles /\ SoundAt(Startup, at, Constructed)
    BY <1>1, <2>1, Plans, StartupSound DEF IsPlan, OpNow, Sound
  <2> QED
    BY <1>1, <1>2, <2>1, <2>2 DEF IsCommand, MakeOf, DropOf
<1>3. CASE stage = "rebuild"
  <2>1. Plan = Rebuild
    BY <1>3 DEF Plan
  <2>2. IsCommand(OpNow) /\ OpNow.handle \in Handles /\ SoundAt(Rebuild, at, Relied)
    BY <1>1, <2>1, Plans, RebuildSound DEF IsPlan, OpNow, Sound
  <2> QED
    BY <1>1, <1>3, <2>1, <2>2 DEF IsCommand, MakeOf, DropOf
<1> QED
  BY <1>2, <1>3 DEF Building

\* What is made now is not there yet.
LEMMA FreshNow ==
  ASSUME BasicTypes, PlanInv, Building, at <= Len(Plan), OpNow.op = "make"
  PROVE  OpNow.handle \notin live
<1> DEFINE h == OpNow.handle
<1>1. /\ at \in 1 .. Len(Plan) /\ h \in Handles /\ OpNow = MakeOf(h) /\ OpNow = Plan[at]
      /\ SoundAt(Plan, at, IF stage = "init" THEN Constructed ELSE Relied)
  BY PlanNow DEF OpNow
<1>2. SUFFICES ASSUME h \in live PROVE FALSE
  OBVIOUS
<1>3. ~DroppedBy(Plan, h, at)
  BY <1>1, <1>2 DEF PlanInv
<1>4. CASE stage = "init"
  <2>1. Plan = Startup
    BY <1>4 DEF Plan
  <2>2. \A j \in 1 .. at - 1 : Plan[j] # MakeOf(h)
    BY <1>1, <1>3, <2>1, StartupSound DEF New
  <2>3. h \notin Constructed
    BY <1>1 DEF SoundAt
  <2>4. MadeBy(Plan, h, at)
    BY <1>1, <1>2, <1>4, <2>3 DEF PlanInv
  <2> QED
    BY <2>2, <2>4 DEF MadeBy
<1>5. CASE stage = "rebuild"
  <2>1. Plan = Rebuild
    BY <1>5 DEF Plan
  <2>2. h[1] \in RebuildOwners
    BY <1>1, <2>1, RebuildSound DEF OwnersIn
  <2> QED
    BY <1>1, <1>3, <2>1, <2>2, RebuildSound DEF New
<1> QED
  BY <1>4, <1>5 DEF Building

LEMMA TypesFollow == BasicTypes /\ PlanInv => LifeTypes
BY FreshNow DEF BasicTypes, LifeTypes

LEMMA LifeStarts == LifeInit => LifeInv
<1> SUFFICES ASSUME LifeInit PROVE LifeInv
  OBVIOUS
<1>1. Len(Startup) \in Nat
  BY Plans DEF IsPlan
<1>2. BasicTypes
  BY <1>1, LifetimeAssumption DEF LifeInit, BasicTypes, Building, Plan, Handles
<1>3. UsesAreAlive
  BY DEF LifeInit, UsesAreAlive, Constructed, Uses, Undevised, OfInstance, OfSdl
<1>4. LiveInv
  BY MembersSound DEF LifeInit, LiveInv
<1>5. PlanInv
  <2>1. \A h \in Constructed : h[2] \notin Passing
    BY DEF Constructed, Passing
  <2> QED
    BY <2>1, NothingYet DEF LifeInit, PlanInv
<1>6. NothingLeftBehind /\ RunInv
  BY DEF LifeInit, NothingLeftBehind, RunInv, Building
<1>7. UsersInv
  BY DEF LifeInit, UsersInv, JobsKeepTheirs, Constructed
<1> QED
  BY <1>2, <1>3, <1>4, <1>5, <1>6, <1>7 DEF LifeInv

-----------------------------------------------------------------------------
\* A step that succeeds: what is alive goes on agreeing with the plan's steps.
LEMMA PlanGoesOn == ASSUME BasicTypes, PlanInv, Succeeds PROVE BasicTypes' /\ PlanInv'
<1> DEFINE h == OpNow.handle
<1>1. /\ Building /\ at \in 1 .. Len(Plan) /\ at' = at + 1 /\ live' = Done(OpNow)
      /\ UNCHANGED <<stage, inFlight, used, jobs, builds>> /\ Plan' = Plan /\ Building'
      /\ OpNow = Plan[at] /\ h \in Handles
      /\ OpNow.op = "make" => OpNow = MakeOf(h)
      /\ OpNow.op = "drop" => OpNow = DropOf(h)
  BY PlanNow DEF Succeeds, Plan, Building, OpNow
<1>2. BasicTypes'
  <2>1. at' \in 1 .. Len(Plan') + 1 /\ at' \in Nat
    BY <1>1, Plans DEF BasicTypes
  <2>2. live' \subseteq Handles
    BY <1>1 DEF BasicTypes, Done
  <2> QED
    BY <1>1, <2>1, <2>2 DEF BasicTypes
<1>3. ASSUME NEW g \in Handles
      PROVE  /\ MadeBy(Plan, g, at') /\ ~Missing(g) => g \in live'
             /\ DroppedBy(Plan, g, at') => g \notin live'
             /\ g \in live' /\ (g[2] \in Passing \/ (stage = "init" /\ g \notin Constructed))
                  => MadeBy(Plan, g, at')
  <2>1. at \in Nat \ {0}
    BY <1>1
  <2>2. /\ MadeBy(Plan, g, at') <=> OpNow = MakeOf(g) \/ (MadeBy(Plan, g, at) /\ OpNow # DropOf(g))
        /\ DroppedBy(Plan, g, at')
             <=> OpNow = DropOf(g) \/ (DroppedBy(Plan, g, at) /\ OpNow # MakeOf(g))
    BY <1>1, <2>1, MadeNext, DroppedNext
  <2>3. /\ MadeBy(Plan, g, at) /\ ~Missing(g) => g \in live
        /\ DroppedBy(Plan, g, at) => g \notin live
        /\ g \in live /\ (g[2] \in Passing \/ (stage = "init" /\ g \notin Constructed))
             => MadeBy(Plan, g, at)
    BY <1>1 DEF PlanInv
  <2>4. MakeOf(g) # DropOf(g) /\ (MakeOf(g) = MakeOf(h) => g = h) /\ (DropOf(g) = DropOf(h) => g = h)
    BY DEF MakeOf, DropOf
  <2>5. CASE OpNow.op = "make"
    <3>1. OpNow = MakeOf(h) /\ OpNow # DropOf(g)
      BY <1>1, <2>5 DEF MakeOf, DropOf
    <3>2. live' = IF Missing(h) THEN live ELSE live \cup {h}
      BY <1>1, <2>5 DEF Done
    <3>3. CASE g = h
      BY <2>2, <2>3, <2>4, <3>1, <3>2, <3>3
    <3>4. CASE g # h
      BY <2>2, <2>3, <2>4, <3>1, <3>2, <3>4
    <3> QED
      BY <3>3, <3>4
  <2>6. CASE OpNow.op = "drop"
    <3>1. OpNow = DropOf(h) /\ OpNow # MakeOf(g)
      BY <1>1, <2>6 DEF MakeOf, DropOf
    <3>2. live' = live \ {h}
      BY <1>1, <2>6 DEF Done
    <3>3. CASE g = h
      BY <2>2, <2>3, <2>4, <3>1, <3>2, <3>3
    <3>4. CASE g # h
      BY <2>2, <2>3, <2>4, <3>1, <3>2, <3>4
    <3> QED
      BY <3>3, <3>4
  <2>7. CASE OpNow.op \notin {"make", "drop"}
    <3>1. OpNow # MakeOf(g) /\ OpNow # DropOf(g) /\ live' = live
      BY <1>1, <2>7 DEF Done, MakeOf, DropOf
    <3> QED
      BY <2>2, <2>3, <3>1
  <2> QED
    BY <2>5, <2>6, <2>7
<1> HIDE DEF h
<1>4. PlanInv'
  BY <1>1, <1>3 DEF PlanInv, Missing
<1> QED
  BY <1>2, <1>4

\* What it makes has all it is made from; what it takes apart, nobody uses.
LEMMA UsesGoOn ==
  ASSUME BasicTypes, PlanInv, RunInv, UsesAreAlive, Succeeds
  PROVE  UsesAreAlive'
<1> DEFINE h == OpNow.handle
<1>1. /\ Building /\ at \in 1 .. Len(Plan) /\ live' = Done(OpNow) /\ h \in Handles /\ IsPair(h)
      /\ OpNow = Plan[at]
      /\ SoundAt(Plan, at, IF stage = "init" THEN Constructed ELSE Relied)
  BY PlanNow DEF Succeeds, OpNow
<1>2. CASE OpNow.op = "make"
  <2>1. ASSUME NEW u \in Uses(h) PROVE u \in live
    <3>1. ~Missing(u)
      BY UsedAreThere
    <3>2. CASE MadeBy(Plan, u, at)
      <4>1. PICK j \in 1 .. at - 1 : Plan[j] = MakeOf(u)
        BY <3>2 DEF MadeBy
      <4>2. j \in 1 .. Len(Plan) /\ Plan[j].handle = u
        BY <1>1, <4>1 DEF MakeOf
      <4>3. u \in Handles
        BY <1>1, <4>2, Plans DEF Plan, Building
      <4> QED
        BY <1>1, <3>1, <3>2, <4>3 DEF PlanInv
    <3>3. CASE stage = "init" /\ u \in Constructed
      BY <3>3 DEF RunInv
    <3>4. CASE stage = "rebuild" /\ u \in Relied
      <4>1. Firm(u) /\ MakeOf(u) \in Range(Startup)
        BY <3>4, StartupMakes DEF Relied, Firm, Passing
      <4>2. u \in Handles
        BY <4>1 DEF Handles, Ops, MakeOf
      <4> QED
        BY <3>1, <3>4, <4>1, <4>2 DEF RunInv
    <3>5. u \in (IF stage = "init" THEN Constructed ELSE Relied) \/ MadeBy(Plan, u, at)
      BY <1>1, <1>2 DEF SoundAt
    <3> QED
      BY <1>1, <3>2, <3>3, <3>4, <3>5 DEF Building
  <2> QED
    BY <1>1, <1>2, <2>1 DEF UsesAreAlive, Done
<1>3. CASE OpNow.op = "drop"
  <2>1. live' = live \ {h} /\ ~Firm(h)
    BY <1>1, <1>3 DEF Done, SoundAt
  <2>2. ASSUME NEW v \in live, h \in Uses(v) PROVE FALSE
    <3>1. v \in Handles /\ IsPair(v)
      BY Plans DEF BasicTypes
    <3>2. \/ h[2] = "image" /\ v = <<h[1], "view">>
          \/ h = <<"chain", "handle">> /\ v \in {<<"chain", "view">>, <<"chain", "ui_view">>}
      BY <2>1, <2>2, <3>1, WhoUses
    <3>3. DroppedBy(Plan, v, at)
      BY <1>1, <1>3, <3>2 DEF SoundAt
    <3> QED
      BY <1>1, <3>1, <3>3, <2>2 DEF PlanInv
  <2> QED
    BY <2>1, <2>2 DEF UsesAreAlive
<1>4. CASE OpNow.op \notin {"make", "drop"}
  BY <1>1, <1>4 DEF UsesAreAlive, Done
<1> QED
  BY <1>2, <1>3, <1>4

\* The rest of the invariant, when a step of a plan succeeds.
LEMMA RestGoesOn ==
  ASSUME BasicTypes, LiveInv, RunInv, UsersInv, Succeeds
  PROVE  LiveInv' /\ RunInv' /\ UsersInv' /\ NothingLeftBehind'
<1> DEFINE h == OpNow.handle
<1>1. /\ Building /\ at \in 1 .. Len(Plan) /\ live' = Done(OpNow) /\ OpNow = Plan[at]
      /\ UNCHANGED <<stage, inFlight, used, jobs, builds>> /\ Building'
      /\ SoundAt(Plan, at, IF stage = "init" THEN Constructed ELSE Relied)
  BY PlanNow DEF Succeeds, OpNow, Building
<1>2. LiveInv'
  BY <1>1 DEF LiveInv, SoundAt, Done
<1>3. \A g : Firm(g) /\ g \in live => g \in live'
  BY <1>1 DEF Done, SoundAt
<1>4. \A g \in Constructed : Firm(g)
  BY DEF Constructed, Firm, Passing
<1>5. RunInv'
  BY <1>1, <1>3, <1>4 DEF RunInv, Missing
<1>6. \A t \in DOMAIN JobUses : \A u \in JobUses[t] : Firm(u)
  BY DEF JobUses, Firm, Passing
<1>7. UsersInv'
  <2>1. inFlight' > 0 => stage' = "run" /\ used' \subseteq live'
    BY <1>1 DEF UsersInv, Building
  <2>2. JobsKeepTheirs'
    BY <1>1, <1>3, <1>6 DEF UsersInv, JobsKeepTheirs, BasicTypes
  <2>3. <<"pool", "threads">> \in live' => <<"terrain", "octree">> \in live'
    BY <1>1, <1>3, <1>4 DEF UsersInv, RunInv, Constructed, Building
  <2> QED
    BY <1>1, <2>1, <2>2, <2>3 DEF UsersInv
<1> QED
  BY <1>1, <1>2, <1>5, <1>7 DEF NothingLeftBehind

\* A call that fails takes back what it made for its own use, and the few that
\* clean up take back all.
LEMMA LifeFails == ASSUME LifeInv, Fails PROVE LifeInv'
<1> DEFINE o == OpNow.handle[1]
<1>1. /\ Building /\ at \in 1 .. Len(Plan) /\ live' = live \ TakenBack(o) /\ OpNow = Plan[at]
      /\ stage' = IF stage = "init" THEN "ending" ELSE "run"
      /\ UNCHANGED <<at, inFlight, used, jobs, builds>> /\ ~Building'
  BY PlanNow DEF Fails, OpNow, Building, LifeInv
<1>2. BasicTypes' /\ LiveInv' /\ PlanInv'
  BY <1>1 DEF LifeInv, BasicTypes, LiveInv, PlanInv
<1>3. UsesAreAlive'
  <2> SUFFICES ASSUME NEW v \in live', NEW u \in Uses(v) PROVE u \in live'
    BY DEF UsesAreAlive
  <2>1. u \in live /\ v \in live /\ v \notin TakenBack(o) /\ IsPair(v)
    BY <1>1, Plans DEF LifeInv, UsesAreAlive, BasicTypes
  <2>2. CASE u \in Bases
    BY <1>1, <2>1, <2>2 DEF TakenBack, Bases, Passing, CleansUp
  <2>3. CASE u = <<v[1], "image">> /\ v[2] = "view"
    <3>1. u[1] = v[1] /\ u[2] = "image"
      BY <2>3
    <3> QED
      BY <1>1, <2>1, <3>1 DEF TakenBack, Passing
  <2>4. CASE u = <<"chain", "handle">>
    BY <1>1, <2>1, <2>4 DEF TakenBack, Passing, CleansUp
  <2> QED
    BY <2>2, <2>3, <2>4, UsedOnes
<1>4. NothingLeftBehind'
  <2> SUFFICES ASSUME NEW h \in live', h[2] \in Passing PROVE FALSE
    BY <1>1 DEF NothingLeftBehind
  <2>1. h \in live /\ h \notin TakenBack(o) /\ h \in Handles
    BY <1>1 DEF LifeInv, BasicTypes
  <2>2. MadeBy(Plan, h, at)
    BY <1>1, <2>1 DEF LifeInv, PlanInv
  <2>3. PICK j \in 1 .. at - 1 : Plan[j] = MakeOf(h) /\ \A i \in j + 1 .. at - 1 : Plan[i] # DropOf(h)
    BY <2>2 DEF MadeBy
  <2>4. j \in 1 .. Len(Plan) /\ Plan[j].op = "make" /\ Plan[j].handle = h
    BY <1>1, <2>3 DEF MakeOf
  <2>5. Ends(Plan, j)
    BY <1>1, <2>4, StartupSound, RebuildSound DEF Building, Plan, Sound, SoundAt
  <2>6. PICK m \in j + 1 .. Len(Plan) :
          Plan[m] = DropOf(h) /\ \A i \in j .. m : Plan[i].handle[1] = h[1]
    BY <2>4, <2>5 DEF Ends
  <2>7. at \in j .. m
    BY <1>1, <2>3, <2>6
  <2>8. h[1] = o
    BY <1>1, <2>6, <2>7
  <2> QED
    BY <2>1, <2>8 DEF TakenBack
<1>5. stage = "rebuild" => \A g : Firm(g) /\ g \in live => g \in live'
  <2> SUFFICES ASSUME stage = "rebuild", NEW g, Firm(g) PROVE g \notin TakenBack(o)
    BY <1>1
  <2>1. o \in RebuildOwners
    BY <1>1, RebuildSound DEF OwnersIn, Plan
  <2>2. o \notin CleansUp
    BY <2>1 DEF RebuildOwners, CleansUp, Targets, Range
  <2> QED
    BY <2>2 DEF TakenBack, Firm
<1>6. RunInv'
  <2>1. \A g \in Constructed : Firm(g)
    BY DEF Constructed, Firm, Passing
  <2> QED
    BY <1>1, <1>5, <2>1 DEF LifeInv, RunInv, Missing, Building
<1>7. \A t \in DOMAIN JobUses : \A u \in JobUses[t] : u \notin TakenBack(o)
  BY DEF JobUses, TakenBack, Passing, CleansUp
<1>8. UsersInv'
  <2>1. inFlight' > 0 => stage' = "run" /\ used' \subseteq live'
    BY <1>1 DEF LifeInv, UsersInv, Building
  <2>2. JobsKeepTheirs'
    BY <1>1, <1>7 DEF LifeInv, UsersInv, JobsKeepTheirs, BasicTypes
  <2>3. <<"terrain", "octree">> \notin TakenBack(o)
    BY DEF TakenBack, Passing, CleansUp
  <2> QED
    BY <1>1, <2>1, <2>2, <2>3 DEF LifeInv, UsersInv
<1> QED
  BY <1>2, <1>3, <1>4, <1>6, <1>8 DEF LifeInv

\* At the end of a plan nothing made for a call is left of it.
LEMMA LifeBuilt == ASSUME LifeInv, Built PROVE LifeInv'
<1>1. /\ Building /\ at > Len(Plan) /\ stage' = "run" /\ ~Building'
      /\ UNCHANGED <<live, at, inFlight, used, jobs, builds>>
  BY DEF Built, Building
<1>2. at = Len(Plan) + 1 /\ Len(Plan) \in Nat
  BY <1>1, Plans DEF LifeInv, BasicTypes, Plan, IsPlan
<1>3. BasicTypes' /\ LiveInv' /\ PlanInv' /\ UsesAreAlive'
  BY <1>1 DEF LifeInv, BasicTypes, LiveInv, PlanInv, UsesAreAlive
<1>4. NothingLeftBehind'
  <2> SUFFICES ASSUME NEW h \in live, h[2] \in Passing PROVE FALSE
    BY <1>1 DEF NothingLeftBehind
  <2>1. MadeBy(Plan, h, at)
    BY <1>1 DEF LifeInv, PlanInv, BasicTypes
  <2>2. PICK j \in 1 .. at - 1 : Plan[j] = MakeOf(h) /\ \A i \in j + 1 .. at - 1 : Plan[i] # DropOf(h)
    BY <2>1 DEF MadeBy
  <2>3. j \in 1 .. Len(Plan) /\ Plan[j].op = "make" /\ Plan[j].handle = h
    BY <1>2, <2>2 DEF MakeOf
  <2>4. Ends(Plan, j)
    BY <1>1, <2>3, StartupSound, RebuildSound DEF Building, Plan, Sound, SoundAt
  <2> QED
    BY <1>2, <2>2, <2>3, <2>4 DEF Ends
<1>5. RunInv'
  <2>1. CASE stage = "rebuild"
    BY <1>1, <2>1 DEF LifeInv, RunInv, Missing
  <2>2. CASE stage = "init"
    <3> SUFFICES ASSUME NEW h \in Handles, Firm(h), MakeOf(h) \in Range(Startup), ~Missing(h)
                 PROVE  h \in live
      BY <1>1, <2>2 DEF LifeInv, RunInv, Missing
    <3>1. PICK j \in 1 .. Len(Startup) : Startup[j] = MakeOf(h)
      BY Plans DEF Range, IsPlan
    <3>2. \A i \in 1 .. Len(Startup) : Startup[i] # DropOf(h)
      <4> SUFFICES ASSUME NEW i \in 1 .. Len(Startup), Startup[i] = DropOf(h) PROVE FALSE
        OBVIOUS
      <4>1. Startup[i].op = "drop" /\ Startup[i].handle = h
        BY DEF DropOf
      <4> QED
        BY <4>1, StartupSound DEF Sound, SoundAt
    <3>3. Plan = Startup
      BY <2>2 DEF Plan
    <3>4. MadeBy(Plan, h, at)
      BY <1>2, <3>1, <3>2, <3>3 DEF MadeBy
    <3> QED
      BY <1>1, <3>4 DEF LifeInv, PlanInv
  <2> QED
    BY <1>1, <2>1, <2>2 DEF Building
<1>6. UsersInv'
  BY <1>1 DEF LifeInv, UsersInv, JobsKeepTheirs, Building
<1> QED
  BY <1>3, <1>4, <1>5, <1>6 DEF LifeInv

\* What a frame makes for itself has all it is made from: it runs on a whole chain.
LEMMA LifeDraws == ASSUME LifeInv, NEW lazy \in {{}, Lazy}, DrawFrame(lazy) PROVE LifeInv'
<1>1. /\ stage = "run" /\ live' = live \cup lazy /\ inFlight' = inFlight + 1
      /\ inFlight < FramesInFlight /\ used' \subseteq live'
      /\ UNCHANGED <<stage, at, jobs, builds>> /\ ~Building /\ ~Building'
  BY DEF DrawFrame, Building
<1>2. live' \subseteq Handles
  BY <1>1 DEF LifeInv, BasicTypes, Handles
<1>3. BasicTypes'
  BY <1>1, <1>2, LifetimeAssumption DEF LifeInv, BasicTypes
<1>4. \A h \in Relied : h \in live
  <2> SUFFICES ASSUME NEW h \in Relied PROVE h \in live
    OBVIOUS
  <2>1. Firm(h) /\ ~Missing(h)
    BY DEF Relied, Firm, Passing, Missing, Optionals
  <2>2. MakeOf(h) \in Range(Startup) /\ MakeOf(h).handle = h
    BY StartupMakes DEF MakeOf
  <2>3. h \in Handles
    BY <2>2 DEF Handles, Ops
  <2> QED
    BY <1>1, <2>1, <2>2, <2>3 DEF LifeInv, RunInv
<1>5. UsesAreAlive'
  <2> SUFFICES ASSUME NEW v \in lazy, NEW u \in Uses(v) PROVE u \in live'
    BY <1>1 DEF LifeInv, UsesAreAlive
  <2>1. v \in Lazy
    OBVIOUS
  <2>2. CASE v = <<"joystick", "device">>
    BY <1>1, <1>4, <2>2 DEF Uses, Undevised, OfInstance, OfSdl, Relied
  <2>3. CASE v \in {<<"streamed", "image">>, <<"ui_texture", "image">>, <<"capture", "buffer">>}
    BY <1>1, <1>4, <2>3 DEF Uses, Undevised, OfInstance, OfSdl, Relied
  <2>4. CASE v \in {<<"streamed", "view">>, <<"ui_texture", "view">>}
    <3>1. <<v[1], "image">> \in lazy
      BY <2>4 DEF Lazy
    <3> QED
      BY <1>1, <1>4, <2>4, <3>1 DEF Uses, Undevised, OfInstance, OfSdl, Relied
  <2> QED
    BY <2>1, <2>2, <2>3, <2>4 DEF Lazy
<1>6. LiveInv'
  BY <1>1, MembersSound DEF LifeInv, LiveInv
<1>7. \A h \in Lazy : h[2] \notin Passing
  BY DEF Lazy, Passing
<1>8. NothingLeftBehind' /\ PlanInv'
  BY <1>1, <1>7 DEF LifeInv, NothingLeftBehind, PlanInv
<1>9. RunInv'
  BY <1>1 DEF LifeInv, RunInv, Missing
<1>10. UsersInv'
  <2>1. JobsKeepTheirs'
    BY <1>1 DEF LifeInv, UsersInv, JobsKeepTheirs
  <2>2. <<"terrain", "octree">> \in live
    BY <1>1 DEF LifeInv, RunInv, Constructed
  <2> QED
    BY <1>1, <2>1, <2>2 DEF UsersInv
<1> QED
  BY <1>3, <1>5, <1>6, <1>8, <1>9, <1>10 DEF LifeInv

\* The steps that make and unmake nothing.
LEMMA LifeTurns ==
  ASSUME LifeInv, FenceSignals \/ RebuildBegins \/ RunReturns \/ Gone
  PROVE  LifeInv'
<1>1. CASE FenceSignals
  <2>1. inFlight > 0 /\ inFlight' = inFlight - 1 /\ UNCHANGED <<live, stage, at, used, jobs, builds>>
    BY <1>1 DEF FenceSignals
  <2>2. BasicTypes'
    BY <2>1, LifetimeAssumption DEF LifeInv, BasicTypes, Building, Plan
  <2>3. UsersInv'
    BY <2>1 DEF LifeInv, UsersInv, JobsKeepTheirs, BasicTypes
  <2> QED
    BY <2>1, <2>2, <2>3
    DEF LifeInv, UsesAreAlive, LiveInv, PlanInv, NothingLeftBehind, RunInv, Building, Plan, Missing
<1>2. CASE RebuildBegins
  <2>1. /\ stage = "run" /\ builds < MaxBuilds /\ builds' = builds + 1 /\ inFlight = 0
        /\ stage' = "rebuild" /\ at' = 1 /\ UNCHANGED <<live, inFlight, used, jobs>>
        /\ ~Building /\ Building'
    BY <1>2 DEF RebuildBegins, GpuIdle, Building
  <2>2. BasicTypes'
    <3>1. at' \in 1 .. Len(Plan') + 1
      BY <2>1, Plans DEF Plan, IsPlan
    <3> QED
      BY <2>1, <3>1, LifetimeAssumption DEF LifeInv, BasicTypes
  <2>3. PlanInv'
    BY <2>1, NothingYet DEF LifeInv, PlanInv, NothingLeftBehind
  <2>4. RunInv' /\ UsersInv'
    BY <2>1 DEF LifeInv, RunInv, UsersInv, JobsKeepTheirs, Missing
  <2> QED
    BY <2>1, <2>2, <2>3, <2>4 DEF LifeInv, UsesAreAlive, LiveInv, NothingLeftBehind
<1>3. CASE RunReturns \/ Gone
  <2>1. /\ stage' \in {"ending", "gone"} /\ stage \in {"run", "ending"} /\ (stage = "run" => inFlight = 0)
        /\ UNCHANGED <<live, at, inFlight, used, jobs, builds>> /\ ~Building /\ ~Building'
    BY <1>3 DEF RunReturns, GpuIdle, Gone, Building
  <2>2. BasicTypes' /\ PlanInv' /\ RunInv'
    BY <2>1 DEF LifeInv, BasicTypes, PlanInv, RunInv
  <2>3. UsersInv'
    BY <2>1, LifetimeAssumption DEF LifeInv, UsersInv, JobsKeepTheirs, BasicTypes
  <2> QED
    BY <2>1, <2>2, <2>3 DEF LifeInv, UsesAreAlive, LiveInv, NothingLeftBehind
<1> QED
  BY <1>1, <1>2, <1>3

\* A job begins while its thread, and what it reads, are there.
LEMMA LifeJobs ==
  ASSUME LifeInv, NEW t \in DOMAIN JobUses, JobStarts(t) \/ JobEnds(t)
  PROVE  LifeInv'
<1>1. /\ UNCHANGED <<live, stage, at, inFlight, used, builds>>
      /\ jobs' \subseteq jobs \cup {t}
  BY DEF JobStarts, JobEnds
<1>2. BasicTypes'
  BY <1>1 DEF LifeInv, BasicTypes, Building, Plan
<1>3. ASSUME JobStarts(t) PROVE UsersInv'
  <2>1. ThreadOf[t] \in live
    BY <1>3 DEF JobStarts
  <2>2. CASE t = "pool"
    <3>1. \/ stage \in {"run", "rebuild"}
          \/ stage = "ending" /\ <<"physics", "world">> \in live
      BY <1>3, <2>2 DEF JobStarts
    <3>2. <<"physics", "world">> \in live
      <4>1. /\ Firm(<<"physics", "world">>) /\ ~Missing(<<"physics", "world">>)
            /\ <<"physics", "world">> \in Relied
        BY DEF Firm, Passing, Missing, Optionals, Relied
      <4>2. /\ MakeOf(<<"physics", "world">>) \in Range(Startup)
            /\ MakeOf(<<"physics", "world">>).handle = <<"physics", "world">>
        BY <4>1, StartupMakes DEF MakeOf
      <4>3. <<"physics", "world">> \in Handles
        BY <4>2 DEF Handles, Ops
      <4> QED
        BY <3>1, <4>1, <4>2, <4>3 DEF LifeInv, RunInv
    <3>3. <<"pool", "threads">> \in live /\ <<"terrain", "octree">> \in live
      BY <2>1, <2>2 DEF ThreadOf, LifeInv, UsersInv
    <3> QED
      BY <1>1, <2>2, <3>1, <3>2, <3>3 DEF LifeInv, UsersInv, JobsKeepTheirs, JobUses
  <2>3. CASE t = "assets"
    <3>1. <<"assets", "thread">> \in live
      BY <2>1, <2>3 DEF ThreadOf
    <3>2. <<"assets", "manager">> \in live
      BY <3>1 DEF LifeInv, UsesAreAlive, Uses
    <3> QED
      BY <1>1, <2>3, <3>1, <3>2 DEF LifeInv, UsersInv, JobsKeepTheirs, JobUses
  <2> QED
    BY <2>2, <2>3 DEF JobUses
<1>4. ASSUME JobEnds(t) PROVE UsersInv'
  BY <1>1, <1>4 DEF JobEnds, LifeInv, UsersInv, JobsKeepTheirs
<1>5. UsesAreAlive' /\ LiveInv' /\ PlanInv' /\ NothingLeftBehind' /\ RunInv'
  BY <1>1 DEF LifeInv, UsesAreAlive, LiveInv, PlanInv, NothingLeftBehind, RunInv, Building, Plan, Missing
<1> QED
  BY <1>2, <1>3, <1>4, <1>5 DEF LifeInv

\* What is destroyed has nothing alive that uses it: all that did was before it.
LEMMA LifeDestroys == ASSUME LifeInv, Destroy PROVE LifeInv'
<1>1. PICK k \in DOMAIN Members :
        /\ Members[k].handle \in live /\ \A j \in 1 .. k - 1 : Members[j].handle \notin live
        /\ \A t \in jobs : Members[k].handle # ThreadOf[t]
        /\ live' = live \ Freed(Members[k].handle)
  BY DEF Destroy
<1> DEFINE h == Members[k].handle
<1>2. /\ stage = "ending" /\ UNCHANGED <<stage, at, inFlight, used, jobs, builds>>
      /\ ~Building /\ ~Building' /\ k \in 1 .. Len(Members)
  BY Plans DEF Destroy, Building, IsPlan
<1>3. BasicTypes' /\ LiveInv' /\ PlanInv' /\ NothingLeftBehind' /\ RunInv'
  BY <1>1, <1>2 DEF LifeInv, BasicTypes, LiveInv, PlanInv, NothingLeftBehind, RunInv
<1>4. \A v \in live : h \notin Uses(v)
  <2> SUFFICES ASSUME NEW v \in live, h \in Uses(v) PROVE FALSE
    OBVIOUS
  <2>1. v \in Handled(Members)
    <3>1. v[2] \notin Passing
      BY <1>2 DEF LifeInv, NothingLeftBehind
    <3>2. v # Loader
      BY DEF Loader, Uses, Undevised, OfInstance, OfSdl
    <3> QED
      BY <3>1, <3>2 DEF LifeInv, LiveInv
  <2>2. \E j \in 1 .. k - 1 : Members[j].handle = v
    BY <1>2, <2>1, MembersSound DEF InOrder
  <2> QED
    BY <1>1, <2>2
<1>5. h = <<"instance", "handle">> => \A v \in live : Loader \in Uses(v) => v = h
  BY DEF Uses, Loader, OfInstance, OfSdl
<1>6. UsesAreAlive'
  BY <1>1, <1>4, <1>5 DEF LifeInv, UsesAreAlive, Freed, Loader
<1>7. h # <<"pool", "threads">> => <<"pool", "threads">> \notin live
  <2>1. Len(Members) \in Nat /\ k \in Nat
    BY <1>2
  <2> QED
    BY <1>1, <1>2, <2>1, MembersSound
<1>8. UsersInv'
  <2>1. inFlight' = 0
    BY <1>2 DEF LifeInv, UsersInv, BasicTypes
  <2>2. ASSUME NEW t \in jobs PROVE JobUses[t] \subseteq live'
    <3>1. JobUses[t] \subseteq live /\ t \in {"pool", "assets"}
      BY DEF LifeInv, UsersInv, JobsKeepTheirs, BasicTypes, JobUses
    <3>2. CASE t = "pool"
      <4>1. <<"pool", "threads">> \in live /\ h # <<"pool", "threads">>
        BY <1>1, <3>1, <3>2 DEF JobUses, ThreadOf
      <4> QED
        BY <1>7, <4>1
    <3>3. CASE t = "assets"
      <4>1. <<"assets", "thread">> \in live /\ h # <<"assets", "thread">>
        BY <1>1, <3>1, <3>3 DEF JobUses, ThreadOf
      <4>2. <<"assets", "manager">> \in Uses(<<"assets", "thread">>)
        BY DEF Uses
      <4>3. h # <<"assets", "manager">>
        BY <1>4, <4>1, <4>2
      <4>4. JobUses[t] \cap Freed(h) = {}
        BY <3>3, <4>1, <4>3 DEF JobUses, Freed
      <4> QED
        BY <1>1, <3>1, <4>4
    <3> QED
      BY <3>1, <3>2, <3>3
  <2>3. <<"pool", "threads">> \in live' => <<"terrain", "octree">> \in live'
    <3> SUFFICES ASSUME <<"pool", "threads">> \in live' PROVE FALSE
      OBVIOUS
    <3>1. <<"pool", "threads">> \in live
      BY <1>1
    <3>2. h \in Freed(h)
      BY DEF Freed
    <3> QED
      BY <1>1, <1>7, <3>1, <3>2
  <2> QED
    BY <1>2, <2>1, <2>2, <2>3 DEF UsersInv, JobsKeepTheirs
<1> QED
  BY <1>3, <1>6, <1>8 DEF LifeInv

LEMMA LifeStep == LifeInv /\ [LifeNext]_lifeVars => LifeInv'
<1> SUFFICES ASSUME LifeInv, [LifeNext]_lifeVars PROVE LifeInv'
  OBVIOUS
<1>1. CASE Succeeds
  BY <1>1, PlanGoesOn, UsesGoOn, RestGoesOn DEF LifeInv
<1>2. CASE Fails
  BY <1>2, LifeFails
<1>3. CASE Built
  BY <1>3, LifeBuilt
<1>4. CASE \E lazy \in {{}, Lazy} : DrawFrame(lazy)
  BY <1>4, LifeDraws
<1>5. CASE FenceSignals \/ RebuildBegins \/ RunReturns \/ Gone
  BY <1>5, LifeTurns
<1>6. CASE \E t \in DOMAIN JobUses : JobStarts(t) \/ JobEnds(t)
  BY <1>6, LifeJobs
<1>7. CASE Destroy
  BY <1>7, LifeDestroys
<1>8. CASE UNCHANGED lifeVars
  BY <1>8
  DEF lifeVars, LifeInv, BasicTypes, UsesAreAlive, LiveInv, PlanInv, NothingLeftBehind, RunInv,
      UsersInv, JobsKeepTheirs, Building, Plan, Missing
<1> QED
  BY <1>1, <1>2, <1>3, <1>4, <1>5, <1>6, <1>7, <1>8 DEF LifeNext

LEMMA LifeHolds == LifeSpec => []LifeInv
<1>1. LifeInv /\ [LifeNext]_lifeVars => LifeInv'
  BY LifeStep
<1> QED
  BY <1>1, LifeStarts, PTL DEF LifeSpec

\* Whatever call of init() or of a rebuild fails, whatever the machine lacks, and
\* however many frames are in flight: nothing outlives what it was made from, and
\* no handle is made over another that has not been destroyed.
THEOREM LifetimesAlwaysNest == LifeSpec => []LifetimesNest
<1>1. LifeInv => LifetimesNest
  BY TypesFollow DEF LifeInv, LifetimesNest
<1> QED
  BY <1>1, LifeHolds, PTL

\* What the GPU's frames in flight use, and what a worker's job reaches, is never
\* destroyed under them, by a rebuild or by the destructors.
THEOREM UsersAlwaysKeepTheirs == LifeSpec => []UsersKeepTheirs
<1>1. LifeInv => UsersKeepTheirs
  BY DEF LifeInv, UsersInv, UsersKeepTheirs, FramesKeepTheirs
<1> QED
  BY <1>1, LifeHolds, PTL

\* The end is reached only when nothing is left to destroy.
GoneInv == stage = "gone" => \A k \in DOMAIN Members : Members[k].handle \notin live

\* Nothing comes back.
LEMMA GoneStep == GoneInv /\ [LifeNext]_lifeVars => GoneInv'
<1> SUFFICES ASSUME GoneInv, [LifeNext]_lifeVars, stage' = "gone"
             PROVE  \A k \in DOMAIN Members : Members[k].handle \notin live'
  BY DEF GoneInv
<1>1. CASE Gone
  BY <1>1 DEF Gone
<1>2. CASE stage = "gone" /\ live' = live
  BY <1>2 DEF GoneInv
<1>3. stage' # stage => Gone
  BY DEF LifeNext, lifeVars, Succeeds, Fails, Built, DrawFrame, FenceSignals, RebuildBegins,
         RunReturns, JobStarts, JobEnds, Destroy
<1>4. stage = "gone" => live' = live
  BY DEF LifeNext, lifeVars, Succeeds, Fails, Built, DrawFrame, FenceSignals, RebuildBegins,
         RunReturns, JobStarts, JobEnds, Destroy, Gone, Building
<1> QED
  BY <1>1, <1>2, <1>3, <1>4

\* A call gives back what it made for itself, failed or not; and when App is gone
\* so is all that was made, but for a loader that never had an instance.
THEOREM AllIsUnmadeInTheEnd == LifeSpec => []AllIsUnmade
<1>1. LifeInit => GoneInv
  BY DEF LifeInit, GoneInv
<1>2. LifeInv /\ GoneInv => AllIsUnmade
  <2> SUFFICES ASSUME LifeInv, GoneInv, stage = "gone", NEW h \in live PROVE h = Loader
    BY DEF AllIsUnmade, NothingLeaks, LifeInv, Loader
  <2>1. h[2] \notin Passing
    BY DEF LifeInv, NothingLeftBehind, Building
  <2>2. h \notin Handled(Members)
    BY DEF GoneInv, Handled
  <2> QED
    BY <2>1, <2>2 DEF LifeInv, LiveInv
<1>3. LifeSpec => []GoneInv
  BY <1>1, GoneStep, PTL DEF LifeSpec
<1> QED
  BY <1>2, <1>3, LifeHolds, PTL

=============================================================================
