----------------------------- MODULE ShipSpaces -----------------------------
(***************************************************************************)
(* physics/physics_world's spaces: the world's Jolt system and one for     *)
(* each ship, fixed to the ship's frame, stepped together; boxes and the   *)
(* character that cross a ship's volume; and where all of them are drawn.  *)
(*                                                                         *)
(* On the line of Transforms, in integers, with a step as the unit of      *)
(* time.  In a step Jolt lets a body float, under the gravity it was       *)
(* given, or stops it on something that is at rest in its space.           *)
(***************************************************************************)
EXTENDS Transforms, Functions, FiniteSets

CONSTANTS
  Ships,        \* entities with a ShipSpace, in the order they are found
  Boxes,        \* entities add_box may be called on, in the registry's order
  Hulled,       \* the ships some of whose shapes are of their hull
  Volumes,      \* Volumes[s]: the pieces of a ship's volume, as intervals
  Scenery,      \* the entities that are there at first, with their Transforms
  Walker,       \* the character
  Places,       \* Places[b]: where a box, or the character, is put
  Gravity,      \* the world's, the same everywhere
  BoxRadius, WalkerRadius, WalkerMiddle,
  Hysteresis,   \* kShipSpaceHysteresis
  ShipMaxBodies,
  MaxSteps      \* a bound: steps taken in all

Ship == ToSet(Ships)
Box == ToSet(Boxes)
Space == Ship \cup {Null}

\* What the parent of an entity may be.
Parent == Space \cup {Scenery[e].parent : e \in DOMAIN Scenery}

Local == [position : Int, rotation : {1, -1}, parent : Parent]

\* Further than anything is.
Far == 1000

\* Ships are spawned as roots, and are no boxes; a box is met once by a step.
ASSUME EntitiesAssumption ==
  /\ Ships \in Seq(Ship) /\ Boxes \in Seq(Box) /\ IsInjective(Boxes)
  /\ Null \notin Ship \cup Box /\ Ship \cap Box = {}
  /\ Scenery \in [DOMAIN Scenery -> Local]
  /\ \A s \in Ship : s \in DOMAIN Scenery /\ Scenery[s].parent = Null

\* "A few levels" (transform.cpp:13): no entity is its own ancestor or has more of
\* them than a chain may have, with the boxes aboard; and the storage has them all.
ASSUME HierarchyAssumption ==
  /\ DOMAIN Scenery \cup Box \subseteq Entity /\ Null \notin Entity /\ MaxDepth \in Nat
  /\ \E depth \in [Entity -> 1 .. MaxDepth] :
       /\ \A e \in DOMAIN Scenery :
            Scenery[e].parent \in Entity => depth[Scenery[e].parent] < depth[e]
       /\ \A s \in Ship, b \in Box : depth[s] < depth[b]
  /\ \A order \in Orders : order \in Seq(Entity) /\ Entity \subseteq ToSet(order)

\* The constants of config.hpp, and where things are put.
ASSUME NumbersAssumption ==
  /\ Gravity \in Int /\ WalkerMiddle \in Int
  /\ BoxRadius \in Nat /\ WalkerRadius \in Nat /\ Hysteresis \in Nat
  /\ BoxRadius + Hysteresis <= Far
  /\ ShipMaxBodies \in Nat /\ MaxSteps \in Nat
  /\ \A b \in Box \cup {Walker} : Places[b] \subseteq Int
  /\ Volumes \in [Ship -> SUBSET (Int \X Int)]
  /\ \A s \in Ship : IsFiniteSet(Volumes[s])

NoCharacter == [space |-> "none"]

VARIABLES
  space,        \* a ship's Space: its frame, the frame's motion, its volume
  jolt,         \* the moving bodies of each space's Jolt system
  rigid,        \* the RigidBody components
  character,
  alpha,        \* how far the frame drawn is between the last two steps
  phase,        \* "frame"; "stepping" in update(); "written" after it
  steps,
  border        \* of each box and ship: how far out it last crossed, if it did

vars == <<transform, world, space, jolt, rigid, character, alpha, phase, steps, border>>

-----------------------------------------------------------------------------
(* Frames *)

Still == [position |-> 0, rotation |-> 1, velocity |-> 0, acceleration |-> 0]

FrameOf(frames, s) == IF s = Null THEN Still ELSE frames[s]

\* Turns undo themselves on a line.
ToWorld(frame, p) == frame.position + frame.rotation * p
ToLocal(frame, p) == frame.rotation * (p - frame.position)
Turned(frame, v) == frame.rotation * v

\* How far a point in the world is outside a ship's volume.
Outside(frame, point) ==
  LET p == ToLocal(frame, point)
      out == {IF v[1] - p > p - v[2] THEN v[1] - p ELSE p - v[2] : v \in frame.volume}
  IN IF out = {} THEN Far ELSE CHOOSE d \in out : \A o \in out : d <= o

\* The first of some ships whose volume something is in.
Reached(frames, among, point, radius) ==
  LET into == {i \in DOMAIN Ships : /\ Ships[i] \in among
                                   /\ Outside(frames[Ships[i]], point) < radius}
  IN IF into = {} THEN Null ELSE Ships[CHOOSE i \in into : \A j \in into : i <= j]

\* containing(): for what is put somewhere.
Containing(frames, point, radius) == Reached(frames, Ship, point, radius)

MutantDestination(frames, point, radius, current) == Containing(frames, point, radius)

\* destination(): for what is stepped.  It stays aboard until clear of the
\* volume by a margin.
Destination(frames, point, radius, current) ==
  IF current # Null /\ Outside(frames[current], point) < radius + Hysteresis
  THEN current
  ELSE Reached(frames, Ship \ {current}, point, radius)

\* The gravity aboard is the world's less the ship's acceleration.
GravityAboard(frame) == Turned(frame, Gravity - frame.acceleration)

GravityIn(frames, s) == IF s = Null THEN Gravity ELSE GravityAboard(frames[s])

-----------------------------------------------------------------------------
(* A step *)

\* follow_ships(): a ship with a body takes its frame from it.
Followed ==
  [s \in Ship |->
     IF s \notin DOMAIN jolt[Null] THEN space[s]
     ELSE LET body == jolt[Null][s]
          IN [position |-> body.position, rotation |-> body.rotation,
              velocity |-> body.velocity, acceleration |-> body.velocity - space[s].velocity,
              volume |-> space[s].volume]]

\* A pose, or a pose and its velocity, carried from a frame to another.
CarriedPose(from, to, p) == ToLocal(to, ToWorld(from, p))
CarriedTurn(from, to, r) == to.rotation * from.rotation * r
CarriedVelocity(from, to, v) == Turned(to, Turned(from, v) + from.velocity - to.velocity)

Carried(from, to, body) ==
  [position |-> CarriedPose(from, to, body.position),
   rotation |-> CarriedTurn(from, to, body.rotation),
   velocity |-> CarriedVelocity(from, to, body.velocity)]

Full(bodies, s) == s # Null /\ Cardinality(DOMAIN bodies[s]) >= ShipMaxBodies

With(f, x, v) == [y \in {x} \cup DOMAIN f |-> IF y = x THEN v ELSE f[y]]

Without(f, x) == Restrict(f, DOMAIN f \ {x})

MutantMoveBody(frames, now, b, to) ==
  LET r == now.rigid[b]
      s == r.space
      from == FrameOf(frames, s)
      frame == FrameOf(frames, to)
      parented == [now EXCEPT !.transform[b].parent = to]
  IN IF Full(now.jolt, to) THEN parented
     ELSE [parented EXCEPT
             !.jolt[to] = With(@, b, Carried(from, frame, now.jolt[s][b])),
             !.jolt[s] = Without(@, b),
             !.rigid[b] = [r EXCEPT !.space = to,
                                    !.position = CarriedPose(from, frame, r.position),
                                    !.rotation = CarriedTurn(from, frame, r.rotation)]]

\* move_body(): made in the other space, then removed here; where there is no
\* more room it stays.
MoveBody(frames, now, b, to) ==
  LET r == now.rigid[b]
      s == r.space
      from == FrameOf(frames, s)
      frame == FrameOf(frames, to)
  IN IF Full(now.jolt, to) THEN now
     ELSE [now EXCEPT
             !.jolt[to] = With(@, b, Carried(from, frame, now.jolt[s][b])),
             !.jolt[s] = Without(@, b),
             !.rigid[b] = [r EXCEPT !.space = to,
                                    !.position = CarriedPose(from, frame, r.position),
                                    !.rotation = CarriedTurn(from, frame, r.rotation)],
             !.transform[b].parent = to]

\* transfer(), of a box.
Crossed(frames, now, b) ==
  LET s == now.rigid[b].space
      point == ToWorld(FrameOf(frames, s), now.rigid[b].position)
      to == Destination(frames, point, BoxRadius, s)
  IN IF to = s THEN now ELSE MoveBody(frames, now, b, to)

\* Every box that is there, in turn.
Crossings(frames) ==
  LET after[n \in 0 .. Len(Boxes)] ==
        IF n = 0 THEN [jolt |-> jolt, rigid |-> rigid, transform |-> transform]
        ELSE IF Boxes[n] \notin DOMAIN rigid THEN after[n - 1]
        ELSE Crossed(frames, after[n - 1], Boxes[n])
  IN after

Transferred(frames) == Crossings(frames)[Len(Boxes)]

\* transfer(), of the character: by its capsule's middle.
MovedCharacter(frames) ==
  LET c == character
      from == FrameOf(frames, c.space)
      middle == ToWorld(from, c.position) + Turned(from, c.up) * WalkerMiddle
      to == Destination(frames, middle, WalkerRadius, c.space)
  IN IF c = NoCharacter THEN c
     ELSE IF to = c.space THEN c
     ELSE [c EXCEPT !.space = to,
                    !.position = CarriedPose(from, FrameOf(frames, to), @),
                    !.velocity = CarriedVelocity(from, FrameOf(frames, to), @),
                    !.up = Turned(FrameOf(frames, to), Turned(from, @))]

\* What one step of Jolt does: a body floats, or something stops it.
Floats(frames, s, body) ==
  LET v == body.velocity + GravityIn(frames, s)
  IN [body EXCEPT !.velocity = v, !.position = @ + v]

Stops(body) == [body EXCEPT !.velocity = 0]

Moved(frames, s, body, stopped) == IF stopped THEN Stops(body) ELSE Floats(frames, s, body)

\* step_character(): its up is against the gravity of its space, if there is any.
SteppedCharacter(frames, c, stopped) ==
  LET g == GravityIn(frames, c.space)
      moved == Moved(frames, c.space, c, stopped)
  IN [moved EXCEPT !.up = IF g > 0 THEN -1 ELSE IF g < 0 THEN 1 ELSE @,
                   !.previous = c.feet,
                   !.feet = ToWorld(FrameOf(frames, c.space), moved.position)]

\* How far out of a ship a box is, when it crosses its border.
Borders(frames, now) ==
  [b \in Box |-> [s \in Ship |->
     IF b \in DOMAIN rigid /\ now.rigid[b].space # rigid[b].space
        /\ s \in {now.rigid[b].space, rigid[b].space}
     THEN Outside(frames[s], ToWorld(FrameOf(frames, now.rigid[b].space), now.rigid[b].position))
     ELSE border[b][s]]]

MutantStepFrames == space

\* Before everything in a step, ships are followed.
StepFrames == Followed

Stepped == DOMAIN rigid \cup IF character = NoCharacter THEN {} ELSE {Walker}

\* Impl::step: ships are followed, what has crossed is moved, all spaces step,
\* and every RigidBody's last two poses are kept.  A bound: at most one thing is
\* stopped by another in a step.
Step ==
  LET frames == StepFrames
      now == Transferred(frames)
      walker == MovedCharacter(frames)
  IN
  /\ phase # "written" /\ steps < MaxSteps
  /\ steps' = steps + 1 /\ phase' = "stepping"
  /\ space' = Followed
  /\ \E stopped \in {{}} \cup {{x} : x \in Stepped} :
       LET stepped == [s \in Space |-> [b \in DOMAIN now.jolt[s] |->
                         Moved(frames, s, now.jolt[s][b], b \in stopped)]]
       IN
       /\ jolt' = stepped
       /\ rigid' = [b \in DOMAIN rigid |->
            LET r == now.rigid[b]
            IN [r EXCEPT !.previous = r.position, !.turned = r.rotation,
                         !.position = stepped[r.space][b].position,
                         !.rotation = stepped[r.space][b].rotation]]
       /\ character' = IF walker = NoCharacter THEN walker
                       ELSE SteppedCharacter(frames, walker, Walker \in stopped)
  /\ transform' = now.transform
  /\ border' = Borders(frames, now)
  /\ UNCHANGED <<world, alpha>>

-----------------------------------------------------------------------------
(* A frame *)

Init ==
  /\ transform = Scenery
  /\ world = [e \in DOMAIN Scenery |-> AsRoot(Scenery[e])]
  /\ space = [s \in Ship |->
                [position |-> Scenery[s].position, rotation |-> Scenery[s].rotation,
                 velocity |-> 0, acceleration |-> 0, volume |-> {}]]
  /\ jolt = [s \in Space |-> <<>>]
  /\ rigid = <<>> /\ character = NoCharacter
  /\ alpha = 1 /\ phase = "written" /\ steps = 0
  /\ border = [b \in Box |-> [s \in Ship |-> Far]]

\* add_body(): at an entity's Transform, at rest, in the world.
RigidAt(e, t) ==
  /\ rigid' = With(rigid, e, [previous |-> t.position, position |-> t.position,
                              turned |-> t.rotation, rotation |-> t.rotation, space |-> Null])
  /\ jolt' = [jolt EXCEPT ![Null] =
       With(@, e, [position |-> t.position, rotation |-> t.rotation, velocity |-> 0])]

\* take_shapes(), once a ship's model has spawned: its volume, and, if some of
\* it is hull, a body for its root.
TakeShapes(s) ==
  /\ phase = "frame" /\ space[s].volume = {}
  /\ space' = [space EXCEPT ![s].volume = Volumes[s]]
  /\ IF s \in Hulled THEN RigidAt(s, transform[s]) ELSE UNCHANGED <<rigid, jolt>>
  /\ UNCHANGED <<transform, world, character, alpha, phase, steps, border>>

\* add_box, on a new entity.
AddBox(b, p) ==
  /\ phase = "frame" /\ b \notin DOMAIN transform
  /\ LET t == [position |-> p, rotation |-> 1, parent |-> Null]
     IN transform' = With(transform, b, t) /\ RigidAt(b, t)
  /\ UNCHANGED <<world, space, character, alpha, phase, steps, border>>

\* add_character: by its feet.
AddCharacter(p) ==
  LET s == Containing(space, p, WalkerRadius)
      frame == FrameOf(space, s)
      g == GravityIn(space, s)
  IN
  /\ phase = "frame" /\ character = NoCharacter
  /\ character' = [space |-> s, position |-> ToLocal(frame, p), velocity |-> 0,
                   up |-> IF g > 0 THEN -1 ELSE IF g < 0 THEN 1 ELSE frame.rotation,
                   feet |-> p, previous |-> p]
  /\ UNCHANGED <<transform, world, space, jolt, rigid, alpha, phase, steps, border>>

\* update() has stepped as often as was due: each body's Transform between the
\* last two steps.
Write(a) ==
  /\ phase # "written" /\ phase' = "written"
  /\ alpha' = a
  /\ transform' = [e \in DOMAIN transform |->
       IF e \notin DOMAIN rigid THEN transform[e]
       ELSE [transform[e] EXCEPT
               !.position = IF a = 0 THEN rigid[e].previous ELSE rigid[e].position,
               !.rotation = IF a = 0 THEN rigid[e].turned ELSE rigid[e].rotation]]
  /\ UNCHANGED <<world, space, jolt, rigid, character, steps, border>>

\* Scene::update composes what was written.
Compose ==
  /\ phase = "written" /\ phase' = "frame"
  /\ PropagateTransforms
  /\ UNCHANGED <<transform, space, jolt, rigid, character, alpha, steps, border>>

Next ==
  \/ \E s \in Ship : TakeShapes(s)
  \/ \E b \in Box : \E p \in Places[b] : AddBox(b, p)
  \/ \E p \in Places[Walker] : AddCharacter(p)
  \/ Step
  \/ \E a \in {0, 1} : Write(a)
  \/ Compose

Spec == Init /\ [][Next]_vars

-----------------------------------------------------------------------------

(* Properties *)

Frame == [position : Int, rotation : {1, -1}, velocity : Int, acceleration : Int,
          volume : SUBSET (Int \X Int)]

BodyPose == [position : Int, rotation : {1, -1}, velocity : Int]

Rigid == [previous : Int, position : Int, turned : {1, -1}, rotation : {1, -1}, space : Space]

Walking == [space : Space, position : Int, velocity : Int, up : {1, -1}, feet : Int,
            previous : Int]

\* Everything but what the pass composes is of its type.
TypeOK ==
  /\ transform \in [DOMAIN transform -> Local]
  /\ DOMAIN Scenery \subseteq DOMAIN transform
  /\ space \in [Ship -> Frame] /\ \A s \in Ship : IsFiniteSet(space[s].volume)
  /\ DOMAIN jolt = Space /\ \A s \in Space : jolt[s] \in [DOMAIN jolt[s] -> BodyPose]
  /\ rigid \in [DOMAIN rigid -> Rigid]
  /\ DOMAIN rigid \subseteq (Box \cup Ship) \cap DOMAIN transform
  /\ character \in Walking \cup {NoCharacter}
  /\ alpha \in {0, 1} /\ phase \in {"frame", "stepping", "written"} /\ steps \in 0 .. MaxSteps
  /\ border \in [Box -> [Ship -> Int]]

\* Every rigid body is in one Jolt system, that of the space it says it is in,
\* with the pose it says it has, and a child of that ship's entity; also when a
\* ship has no room for it.  Ships are in the world.
EachInOneSpace ==
  /\ TypeOK
  /\ \A s \in Space : DOMAIN jolt[s] = {b \in DOMAIN rigid : rigid[b].space = s}
  /\ \A b \in DOMAIN rigid :
       LET r == rigid[b]
           body == jolt[r.space][b]
       IN r.position = body.position /\ r.rotation = body.rotation /\ transform[b].parent = r.space
  /\ \A s \in Ship : Cardinality(DOMAIN jolt[s]) <= ShipMaxBodies
  /\ \A s \in Ship \cap DOMAIN rigid : rigid[s].space = Null

\* Where things are after the last step, or were before it, whatever space they
\* are simulated in, and whatever the order their entities are met in.
PoseOf(e, a) ==
  IF e \notin DOMAIN rigid THEN AsRoot(transform[e])
  ELSE [position |-> IF a = 0 THEN rigid[e].previous ELSE rigid[e].position,
        rotation |-> IF a = 0 THEN rigid[e].turned ELSE rigid[e].rotation]

CarrierOf(e) == IF e \in DOMAIN rigid THEN rigid[e].space ELSE Above(e)

Shown(e, a) ==
  LET shown[x \in DOMAIN transform] ==
        IF CarrierOf(x) = Null THEN PoseOf(x, a) ELSE On(shown[CarrierOf(x)], PoseOf(x, a))
  IN shown[e]

\* "So it draws where it was" (physics_world.cpp:884): a step begins, for what
\* is drawn, where the last one ended, for a body that crosses into or out of a
\* moving ship as for one that does not; and what the frame composes is that.
DrawnWhereItIs ==
  [][/\ steps' # steps => \A e \in DOMAIN transform : Shown(e, 0)' = Shown(e, 1)
     /\ phase = "written" => \A e \in DOMAIN transform : world'[e] = Shown(e, alpha)]_vars

\* How a ship really moves, which its Space knows a step later.
SpeedOf(s) == IF s \in DOMAIN rigid THEN jolt[Null][s].velocity ELSE 0

\* What that step makes of the gravity aboard: the change of the ship's
\* acceleration.
Late(s) ==
  IF s = Null THEN 0
  ELSE SpeedOf(s) - space[s].velocity - space[s].acceleration

\* A box's motion in the world, and the character's.
MotionOf(body, s) ==
  LET ship == IF s = Null THEN [position |-> 0, rotation |-> 1] ELSE PoseOf(s, 1)
  IN [at |-> On(ship, body).position,
      speed |-> SpeedOf(s) + ship.rotation * body.velocity,
      stopped |-> body.velocity = 0,
      late |-> Late(s)]

BoxMotion(b) == MotionOf(jolt[rigid[b].space][b], rigid[b].space)

WalkerMotion ==
  MotionOf([position |-> character.position, rotation |-> 1, velocity |-> character.velocity],
           character.space)

\* In a step what floats gains the world's gravity, and moves accordingly.
FallsFrom(now, before) ==
  /\ now.at = before.at + now.speed
  /\ now.stopped \/ now.speed = before.speed + Gravity + now.late

\* "Keeping its pose and its velocity in the world" (components.hpp:50),
\* "whatever the ship does": what floats moves in the world as if there were no
\* ship, aboard, outside, and in the step it crosses in either direction,
\* through a ship that falls, lands or takes off; but for the one step by which
\* the gravity aboard is behind a change of the ship's acceleration.
CrossingKeepsMotion ==
  [][steps' # steps =>
       /\ \A b \in Box \cap DOMAIN rigid : FallsFrom(BoxMotion(b)', BoxMotion(b))
       /\ character # NoCharacter => FallsFrom(WalkerMotion', WalkerMotion)]_vars

\* Nothing goes in and out of a ship by resting at its border: to cross it the
\* other way a box has moved by more than the hysteresis, with two ships side
\* by side and with one that had no room.
NoChatter ==
  [][\A b \in Box \cap DOMAIN rigid, s \in Ship :
       rigid'[b].space # rigid[b].space /\ s \in {rigid'[b].space, rigid[b].space}
         => border'[b][s] - border[b][s] \notin -Hysteresis .. Hysteresis]_vars
=============================================================================
