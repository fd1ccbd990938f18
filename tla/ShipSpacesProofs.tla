------------------------- MODULE ShipSpacesProofs --------------------------
(***************************************************************************)
(* Proofs about ShipSpaces, for any ships, boxes and volumes, wherever     *)
(* things are put and however hard they fall.                              *)
(***************************************************************************)
EXTENDS ShipSpaces, FiniteSetTheorems, SequenceTheorems, WellFoundedInduction, TLAPS

-----------------------------------------------------------------------------
(* Functions and sets *)

LEMMA WithoutIs ==
  ASSUME NEW f, NEW x
  PROVE  Without(f, x) = [y \in DOMAIN f \ {x} |-> f[y]]
BY DEF Without, Restrict

LEMMA ShipsAre ==
  /\ Null \notin Ship /\ Null \in Space /\ Ship \subseteq Space
  /\ \A s \in Space : s # Null => s \in Ship
  /\ \A b \in Box : b \notin Ship /\ b # Null
  /\ \A i \in DOMAIN Ships : Ships[i] \in Ship
  /\ \A s \in Ship : \E i \in DOMAIN Ships : Ships[i] = s
  /\ Len(Boxes) \in Nat /\ DOMAIN Boxes = 1 .. Len(Boxes)
  /\ \A i \in 1 .. Len(Boxes) : Boxes[i] \in Box
  /\ \A b \in Box : \E i \in 1 .. Len(Boxes) : Boxes[i] = b
  /\ \A i, j \in 1 .. Len(Boxes) : Boxes[i] = Boxes[j] => i = j
<1>1. Len(Boxes) \in Nat /\ DOMAIN Boxes = 1 .. Len(Boxes)
  BY EntitiesAssumption
<1> QED
  BY <1>1, EntitiesAssumption DEF Ship, Box, Space, ToSet, IsInjective

-----------------------------------------------------------------------------
(* Induction, by the least counterexample *)

LEMMA LeastNumber ==
  ASSUME NEW S \in SUBSET Nat, S # {}
  PROVE  \E m \in S : \A k \in S : m <= k
<1> DEFINE R == OpToRel(<, Nat)
<1>1. IsWellFoundedOn(R, Nat)
  BY NatLessThanWellFounded
<1>2. \A x, y \in Nat : <<y, x>> \in R <=> y < x
  BY DEF OpToRel
<1> HIDE DEF R
<1>3. PICK m \in S : \A k \in S : ~(<<k, m>> \in R)
  BY <1>1, WFMin
<1>4. \A k \in S : ~(k < m)
  BY <1>2, <1>3
<1>5. \A k \in S : m <= k
  BY <1>4
<1> QED
  BY <1>5

LEMMA Induct ==
  ASSUME NEW S, 0 \in S, \A n \in Nat : n \in S => n + 1 \in S
  PROVE  \A n \in Nat : n \in S
<1> SUFFICES ASSUME Nat \ S # {} PROVE FALSE
  OBVIOUS
<1>1. PICK m \in Nat \ S : \A k \in Nat \ S : m <= k
  BY LeastNumber
<1>2. m - 1 \in Nat /\ m - 1 \in S
  BY <1>1
<1> QED
  BY <1>2

\* Of finitely many numbers one is the least.
LEMMA LeastValue ==
  ASSUME NEW V, IsFiniteSet(V), V # {}, NEW g \in [V -> Int]
  PROVE  \E v \in V : \A w \in V : g[v] <= g[w]
<1> DEFINE Least(T) == \E v \in T : \A w \in T : g[v] <= g[w]
           S == {n \in Nat : \A T \in SUBSET V : T # {} /\ Cardinality(T) = n => Least(T)}
<1>1. \A T \in SUBSET V : IsFiniteSet(T) /\ Cardinality(T) \in Nat
  BY FS_Subset, FS_CardinalityType
<1>2. 0 \in S
  BY <1>1, FS_EmptySet
<1>3. ASSUME NEW n \in Nat, n \in S PROVE n + 1 \in S
  <2> SUFFICES ASSUME NEW T \in SUBSET V, T # {}, Cardinality(T) = n + 1 PROVE Least(T)
    OBVIOUS
  <2>1. PICK x \in T : TRUE
    OBVIOUS
  <2>2. Cardinality(T \ {x}) = n
    BY <1>1, <2>1, FS_RemoveElement
  <2>3. CASE T \ {x} = {}
    <3>1. g[x] \in Int /\ \A w \in T : w = x
      BY <2>1, <2>3
    <3> QED
      BY <2>1, <3>1
  <2>4. CASE T \ {x} # {}
    <3>1. PICK v \in T \ {x} : \A w \in T \ {x} : g[v] <= g[w]
      BY <1>3, <2>2, <2>4
    <3>2. g[x] \in Int /\ \A w \in T : g[w] \in Int
      BY <2>1
    <3>3. CASE g[v] <= g[x]
      BY <3>1, <3>3
    <3>4. CASE ~(g[v] <= g[x])
      BY <2>1, <3>1, <3>2, <3>4
    <3> QED
      BY <3>3, <3>4
  <2> QED
    BY <2>3, <2>4
<1>4. Cardinality(V) \in S
  <2> HIDE DEF S
  <2> QED
    BY <1>1, <1>2, <1>3, Induct
<1> QED
  BY <1>4

-----------------------------------------------------------------------------
(* Frames on a line *)

Framed(frames) ==
  frames \in [Ship -> Frame] /\ \A s \in Ship : IsFiniteSet(frames[s].volume)

\* To turn about once more is not to have turned.
LEMMA TurnIs ==
  ASSUME NEW r \in {1, -1}, NEW x \in Int, NEW y \in Int
  PROVE  /\ r * x \in Int /\ r * r = 1 /\ r * (r * x) = x
         /\ r * (x + y) = r * x + r * y /\ r * (x - y) = r * x - r * y
<1>1. CASE r = 1
  BY <1>1
<1>2. CASE r = -1
  BY <1>2
<1> QED
  BY <1>1, <1>2

LEMMA TurnsOfTurns ==
  ASSUME NEW r \in {1, -1}, NEW q \in {1, -1}
  PROVE  r * q \in {1, -1}
<1>1. CASE r = 1
  BY <1>1
<1>2. CASE r = -1
  BY <1>2
<1> QED
  BY <1>1, <1>2

LEMMA TurnedTwice ==
  ASSUME NEW r \in {1, -1}, NEW q \in {1, -1}, NEW p \in {1, -1}
  PROVE  r * q * p \in {1, -1} /\ r * (r * q * p) = q * p
<1>1. CASE r = 1
  BY <1>1
<1>2. CASE r = -1
  BY <1>2
<1> QED
  BY <1>1, <1>2

LEMMA FrameIs ==
  ASSUME NEW frames, Framed(frames), NEW s \in Space
  PROVE  LET frame == FrameOf(frames, s)
         IN  /\ frame.position \in Int /\ frame.rotation \in {1, -1}
             /\ frame.velocity \in Int /\ frame.acceleration \in Int
             /\ s \in Ship => frame = frames[s] /\ frame \in Frame
             /\ s = Null => frame = Still
<1>1. CASE s = Null
  BY <1>1, ShipsAre DEF FrameOf, Still
<1>2. CASE s # Null
  <2>1. s \in Ship /\ FrameOf(frames, s) = frames[s] /\ frames[s] \in Frame
    BY <1>2, ShipsAre DEF FrameOf, Framed
  <2> QED
    BY <2>1, <1>2 DEF Frame
<1> QED
  BY <1>1, <1>2

\* Out to the world and in again.
LEMMA WorldAndLocal ==
  ASSUME NEW frames, Framed(frames), NEW s \in Space, NEW x \in Int
  PROVE  LET frame == FrameOf(frames, s)
         IN  /\ ToWorld(frame, x) \in Int /\ ToLocal(frame, x) \in Int
             /\ Turned(frame, x) \in Int
             /\ ToWorld(frame, ToLocal(frame, x)) = x
             /\ Turned(frame, Turned(frame, x)) = x
<1> DEFINE frame == FrameOf(frames, s)
<1>1. frame.position \in Int /\ frame.rotation \in {1, -1}
  BY FrameIs
<1> HIDE DEF frame
<1>2. /\ frame.rotation * x \in Int /\ x - frame.position \in Int
      /\ frame.rotation * (frame.rotation * x) = x
  BY <1>1, TurnIs
<1>3. /\ frame.rotation * (x - frame.position) \in Int
      /\ frame.rotation * (frame.rotation * (x - frame.position)) = x - frame.position
  BY <1>1, <1>2, TurnIs
<1>4. frame.position + (x - frame.position) = x
  BY <1>1
<1> QED
  BY <1>1, <1>2, <1>3, <1>4 DEF frame, ToWorld, ToLocal, Turned

\* How far out a point is of a volume is a number.
LEMMA OutsideIs ==
  ASSUME NEW frames, Framed(frames), NEW s \in Ship, NEW point \in Int
  PROVE  Outside(frames[s], point) \in Int
<1> DEFINE p == ToLocal(frames[s], point)
           Out(v) == IF v[1] - p > p - v[2] THEN v[1] - p ELSE p - v[2]
           volume == frames[s].volume
           out == {Out(v) : v \in volume}
           g == [v \in volume |-> Out(v)]
<1>1. p \in Int
  <2>1. s \in Space /\ FrameOf(frames, s) = frames[s]
    BY FrameIs, ShipsAre
  <2>2. ToLocal(FrameOf(frames, s), point) \in Int
    BY <2>1, WorldAndLocal
  <2> QED
    BY <2>1, <2>2
<1>2. IsFiniteSet(volume) /\ volume \in SUBSET (Int \X Int)
  BY DEF Framed, Frame
<1> HIDE DEF p, volume
<1>3. g \in [volume -> Int]
  BY <1>1, <1>2
<1>4. Outside(frames[s], point) =
        IF out = {} THEN Far ELSE CHOOSE d \in out : \A o \in out : d <= o
  BY DEF Outside, p, volume
<1>5. CASE volume = {}
  BY <1>4, <1>5 DEF Far
<1>6. CASE volume # {}
  <2> HIDE DEF g
  <2>1. PICK v \in volume : \A w \in volume : g[v] <= g[w]
    BY <1>2, <1>3, <1>6, LeastValue
  <2>2. \E d \in out : \A o \in out : d <= o
    BY <2>1 DEF g
  <2>3. out \subseteq Int /\ out # {}
    BY <1>3, <1>6 DEF g
  <2> HIDE DEF out
  <2> QED
    BY <1>4, <2>2, <2>3
<1> QED
  BY <1>5, <1>6

-----------------------------------------------------------------------------
(* The inductive invariant *)

\* A ship without a body is where it was put, and at rest, in the world.
RestInv ==
  \A s \in Ship \ DOMAIN rigid :
    /\ transform[s].parent = Null
    /\ transform[s].position = space[s].position /\ transform[s].rotation = space[s].rotation
    /\ space[s].velocity = 0 /\ space[s].acceleration = 0

\* A box that is aboard came in within its radius, and one that is not was clear
\* of the ship when it last left.
BorderInv ==
  \A b \in Box, s \in Ship :
    IF b \in DOMAIN jolt[s] THEN border[b][s] < BoxRadius
    ELSE border[b][s] >= BoxRadius + Hysteresis

SpacesInv == EachInOneSpace /\ RestInv

-----------------------------------------------------------------------------
(* Where something goes *)

LEMMA ReachedIs ==
  ASSUME NEW frames, NEW among \in SUBSET Ship, NEW point, NEW radius
  PROVE  LET s == Reached(frames, among, point, radius)
         IN  s = Null \/ (s \in among /\ Outside(frames[s], point) < radius)
<1> DEFINE into == {i \in DOMAIN Ships : /\ Ships[i] \in among
                                         /\ Outside(frames[Ships[i]], point) < radius}
           first == CHOOSE i \in into : \A j \in into : i <= j
<1>1. Reached(frames, among, point, radius) = IF into = {} THEN Null ELSE Ships[first]
  BY DEF Reached
<1>2. into \subseteq Nat
  <2>1. DOMAIN Ships \subseteq Nat
    BY EntitiesAssumption
  <2> QED
    BY <2>1
<1>3. ASSUME into # {} PROVE first \in into
  <2>1. \E i \in into : \A j \in into : i <= j
    <3> HIDE DEF into
    <3> QED
      BY <1>2, <1>3, LeastNumber
  <2> QED
    BY <2>1
<1> QED
  BY <1>1, <1>3

LEMMA DestinationIs ==
  ASSUME NEW frames, Framed(frames), NEW current \in Space, NEW point \in Int,
         NEW radius \in Nat
  PROVE  LET to == Destination(frames, point, radius, current)
         IN  /\ to \in Space
             /\ to # current =>
                  /\ current \in Ship => Outside(frames[current], point) >= radius + Hysteresis
                  /\ to \in Ship => Outside(frames[to], point) < radius
<1> DEFINE to == Destination(frames, point, radius, current)
           near == Reached(frames, Ship \ {current}, point, radius)
<1>1. near = Null \/ (near \in Ship \ {current} /\ Outside(frames[near], point) < radius)
  BY ReachedIs
<1>2. to = IF current # Null /\ Outside(frames[current], point) < radius + Hysteresis
           THEN current ELSE near
  BY DEF Destination
<1>3. to \in Space
  BY <1>1, <1>2, ShipsAre
<1>4. ASSUME to # current, current \in Ship
      PROVE  Outside(frames[current], point) >= radius + Hysteresis
  <2>1. ~(Outside(frames[current], point) < radius + Hysteresis)
    BY <1>2, <1>4, ShipsAre
  <2>2. Outside(frames[current], point) \in Int /\ radius + Hysteresis \in Int
    BY <1>4, OutsideIs, NumbersAssumption
  <2> QED
    BY <2>1, <2>2
<1>5. ASSUME to # current, to \in Ship PROVE Outside(frames[to], point) < radius
  <2>1. to = near /\ near # Null
    BY <1>2, <1>5, ShipsAre
  <2> HIDE DEF to, near
  <2> QED
    BY <1>1, <2>1
<1> QED
  BY <1>3, <1>4, <1>5

\* What is carried from one frame to another is where it was in the world, and
\* moves as it did.
LEMMA CarriedIs ==
  ASSUME NEW frames, Framed(frames), NEW u \in Space, NEW v \in Space, NEW body \in BodyPose
  PROVE  LET from == FrameOf(frames, u)
             to == FrameOf(frames, v)
             carried == Carried(from, to, body)
         IN  /\ carried \in BodyPose
             /\ ToWorld(to, carried.position) = ToWorld(from, body.position)
             /\ Turned(to, carried.velocity) + to.velocity =
                  Turned(from, body.velocity) + from.velocity
<1> DEFINE from == FrameOf(frames, u)
           to == FrameOf(frames, v)
<1>1. body.position \in Int /\ body.rotation \in {1, -1} /\ body.velocity \in Int
  BY DEF BodyPose
<1>2. /\ from.velocity \in Int /\ to.velocity \in Int
      /\ from.rotation \in {1, -1} /\ to.rotation \in {1, -1}
  BY FrameIs
<1>3. ToWorld(from, body.position) \in Int /\ Turned(from, body.velocity) \in Int
  BY <1>1, WorldAndLocal
<1>4. CarriedPose(from, to, body.position) \in Int
      /\ ToWorld(to, CarriedPose(from, to, body.position)) = ToWorld(from, body.position)
  BY <1>3, WorldAndLocal DEF CarriedPose
<1>5. CarriedTurn(from, to, body.rotation) \in {1, -1}
  <2>1. to.rotation * from.rotation \in {1, -1}
    BY <1>2, TurnsOfTurns
  <2> QED
    BY <1>1, <2>1, TurnsOfTurns DEF CarriedTurn
<1> DEFINE rest == Turned(from, body.velocity) + from.velocity - to.velocity
<1>6. rest \in Int
  BY <1>2, <1>3
<1>7. /\ CarriedVelocity(from, to, body.velocity) = Turned(to, rest)
      /\ Turned(to, rest) \in Int /\ Turned(to, Turned(to, rest)) = rest
  BY <1>6, WorldAndLocal DEF CarriedVelocity
<1>8. rest + to.velocity = Turned(from, body.velocity) + from.velocity
  BY <1>2, <1>3
<1> HIDE DEF from, to, rest
<1> QED
  BY <1>4, <1>5, <1>7, <1>8 DEF Carried, BodyPose, from, to

-----------------------------------------------------------------------------
(* Where the ships are *)

LEMMA RigidTypes ==
  ASSUME EachInOneSpace, NEW b \in DOMAIN rigid
  PROVE  /\ rigid[b] \in Rigid /\ rigid[b].space \in Space
         /\ b \in DOMAIN jolt[rigid[b].space] /\ jolt[rigid[b].space][b] \in BodyPose
         /\ b \in DOMAIN transform /\ b \in Box \cup Ship
<1>1. rigid[b] \in Rigid /\ b \in DOMAIN transform /\ b \in Box \cup Ship
  BY DEF EachInOneSpace, TypeOK
<1>2. rigid[b].space \in Space
  BY <1>1 DEF Rigid
<1>3. b \in DOMAIN jolt[rigid[b].space]
  BY <1>2 DEF EachInOneSpace
<1>4. jolt[rigid[b].space] \in [DOMAIN jolt[rigid[b].space] -> BodyPose]
  BY <1>2 DEF EachInOneSpace, TypeOK
<1> QED
  BY <1>1, <1>2, <1>3, <1>4

\* The frame that a step follows is where the ship is and moves as it does.
LEMMA FollowedIs ==
  ASSUME SpacesInv
  PROVE  /\ Framed(Followed)
         /\ \A s \in Ship :
              /\ Followed[s].position = PoseOf(s, 1).position
              /\ Followed[s].rotation = PoseOf(s, 1).rotation
              /\ Followed[s].velocity = SpeedOf(s)
              /\ Followed[s].acceleration = SpeedOf(s) - space[s].velocity
              /\ Followed[s].volume = space[s].volume
              /\ SpeedOf(s) \in Int
<1> SUFFICES ASSUME NEW s \in Ship
             PROVE  /\ Followed[s] \in Frame /\ IsFiniteSet(Followed[s].volume)
                    /\ Followed[s].position = PoseOf(s, 1).position
                    /\ Followed[s].rotation = PoseOf(s, 1).rotation
                    /\ Followed[s].velocity = SpeedOf(s)
                    /\ Followed[s].acceleration = SpeedOf(s) - space[s].velocity
                    /\ Followed[s].volume = space[s].volume
                    /\ SpeedOf(s) \in Int
  BY DEF Framed, Followed
<1>1. space[s] \in Frame /\ IsFiniteSet(space[s].volume)
  BY DEF SpacesInv, EachInOneSpace, TypeOK
<1>2. s \in DOMAIN jolt[Null] <=> s \in DOMAIN rigid
  BY ShipsAre DEF SpacesInv, EachInOneSpace
<1>3. CASE s \in DOMAIN rigid
  <2>1. rigid[s].space = Null /\ jolt[Null][s] \in BodyPose
    BY <1>3, RigidTypes DEF SpacesInv, EachInOneSpace
  <2>2. /\ jolt[Null][s].position = rigid[s].position
        /\ jolt[Null][s].rotation = rigid[s].rotation
    BY <1>3, <2>1 DEF SpacesInv, EachInOneSpace
  <2>3. Followed[s] = [position |-> jolt[Null][s].position, rotation |-> jolt[Null][s].rotation,
                       velocity |-> jolt[Null][s].velocity,
                       acceleration |-> jolt[Null][s].velocity - space[s].velocity,
                       volume |-> space[s].volume]
    BY <1>2, <1>3 DEF Followed
  <2>4. /\ jolt[Null][s].position \in Int /\ jolt[Null][s].rotation \in {1, -1}
        /\ jolt[Null][s].velocity \in Int /\ space[s].velocity \in Int
    BY <1>1, <2>1 DEF Frame, BodyPose
  <2>7. jolt[Null][s].velocity - space[s].velocity \in Int /\ space[s].volume \in SUBSET (Int \X Int)
    BY <1>1, <2>4 DEF Frame
  <2>5. /\ Followed[s] \in Frame
        /\ Followed[s].position = jolt[Null][s].position
        /\ Followed[s].rotation = jolt[Null][s].rotation
        /\ Followed[s].velocity = jolt[Null][s].velocity
        /\ Followed[s].acceleration = jolt[Null][s].velocity - space[s].velocity
        /\ Followed[s].volume = space[s].volume
    BY <2>3, <2>4, <2>7 DEF Frame
  <2>6. /\ PoseOf(s, 1).position = rigid[s].position
        /\ PoseOf(s, 1).rotation = rigid[s].rotation
        /\ SpeedOf(s) = jolt[Null][s].velocity
    BY <1>3 DEF PoseOf, SpeedOf
  <2> QED
    BY <1>1, <2>2, <2>4, <2>5, <2>6
<1>4. CASE s \notin DOMAIN rigid
  <2>1. Followed[s] = space[s]
    BY <1>2, <1>4 DEF Followed
  <2>2. /\ transform[s].position = space[s].position /\ transform[s].rotation = space[s].rotation
        /\ space[s].velocity = 0 /\ space[s].acceleration = 0
    BY <1>4 DEF SpacesInv, RestInv
  <2> QED
    BY <1>1, <1>4, <2>1, <2>2 DEF PoseOf, AsRoot, SpeedOf
<1> QED
  BY <1>3, <1>4

-----------------------------------------------------------------------------
(* What crosses *)

LEMMA RigidMoved ==
  ASSUME NEW r \in Rigid, NEW u \in Space, NEW p \in Int, NEW q \in {1, -1}
  PROVE  LET moved == [r EXCEPT !.space = u, !.position = p, !.rotation = q]
         IN moved \in Rigid /\ moved.space = u /\ moved.position = p
BY DEF Rigid

LEMMA LocalMoved ==
  ASSUME NEW t \in Local, NEW u \in Space
  PROVE  LET moved == [t EXCEPT !.parent = u]
         IN moved \in Local /\ moved.parent = u /\ moved.position = t.position
              /\ moved.rotation = t.rotation
BY DEF Local, Parent

LEMMA LocalPlaced ==
  ASSUME NEW t \in Local, NEW p \in Int, NEW q \in {1, -1}
  PROVE  LET moved == [t EXCEPT !.position = p, !.rotation = q]
         IN moved \in Local /\ moved.parent = t.parent
BY DEF Local

\* What MoveBody makes of the three.
JoltAfter(frames, j, r, b, to) ==
  LET s == r[b].space
  IN [j EXCEPT ![to] = With(@, b, Carried(FrameOf(frames, s), FrameOf(frames, to), j[s][b])),
               ![s] = Without(@, b)]

RigidAfter(frames, r, b, to) ==
  LET from == FrameOf(frames, r[b].space)
      frame == FrameOf(frames, to)
  IN [r EXCEPT ![b] = [r[b] EXCEPT !.space = to,
                                   !.position = CarriedPose(from, frame, r[b].position),
                                   !.rotation = CarriedTurn(from, frame, r[b].rotation)]]

LocalAfter(t, b, to) == [t EXCEPT ![b].parent = to]

LEMMA MoveBodyIs ==
  ASSUME NEW frames, NEW j, NEW r, NEW t, NEW b, NEW to, ~Full(j, to)
  PROVE  MoveBody(frames, [jolt |-> j, rigid |-> r, transform |-> t], b, to) =
           [jolt |-> JoltAfter(frames, j, r, b, to), rigid |-> RigidAfter(frames, r, b, to),
            transform |-> LocalAfter(t, b, to)]
BY DEF MoveBody, JoltAfter, RigidAfter, LocalAfter

\* The books of the spaces in the midst of transfer().
Aboard(j, r, t) ==
  /\ r \in [DOMAIN rigid -> Rigid] /\ t \in [DOMAIN transform -> Local]
  /\ DOMAIN j = Space /\ \A s \in Space : j[s] \in [DOMAIN j[s] -> BodyPose]
  /\ \A s \in Space : DOMAIN j[s] = {b \in DOMAIN rigid : r[b].space = s}
  /\ \A b \in DOMAIN rigid : t[b].parent = r[b].space /\ r[b].position = j[r[b].space][b].position
  /\ \A s \in Ship : Cardinality(DOMAIN j[s]) <= ShipMaxBodies

Unmoved(j, r, b) ==
  r[b] = rigid[b] /\ j[rigid[b].space][b] = jolt[rigid[b].space][b]

\* A box is where it was and moves as it did, and what it has crossed it is
\* clear of, or within.
SameInWorld(frames, j, r, b) ==
  LET s == rigid[b].space
      u == r[b].space
      was == jolt[s][b]
      is == j[u][b]
      point == ToWorld(FrameOf(frames, s), was.position)
  IN /\ ToWorld(FrameOf(frames, u), is.position) = point
     /\ FrameOf(frames, u).rotation * r[b].rotation = FrameOf(frames, s).rotation * rigid[b].rotation
     /\ Turned(FrameOf(frames, u), is.velocity) + FrameOf(frames, u).velocity =
          Turned(FrameOf(frames, s), was.velocity) + FrameOf(frames, s).velocity
     /\ u # s =>
          /\ s \in Ship => Outside(frames[s], point) >= BoxRadius + Hysteresis
          /\ u \in Ship => Outside(frames[u], point) < BoxRadius

\* After the first n boxes.
TransferInv(frames, j, r, t, n) ==
  /\ Aboard(j, r, t)
  /\ \A s \in Ship \cap DOMAIN rigid : Unmoved(j, r, s)
  /\ \A e \in DOMAIN transform \ (Box \cap DOMAIN rigid) : t[e] = transform[e]
  /\ \A i \in n + 1 .. Len(Boxes) : Boxes[i] \in DOMAIN rigid => Unmoved(j, r, Boxes[i])
  /\ \A b \in Box \cap DOMAIN rigid : SameInWorld(frames, j, r, b)

LEMMA BodiesFinite == IsFiniteSet(Box \cup Ship)
<1>1. ASSUME NEW S, NEW f \in Seq(S), S = ToSet(f) PROVE IsFiniteSet(S)
  <2>1. Len(f) \in Nat /\ DOMAIN f = 1 .. Len(f)
    OBVIOUS
  <2>2. f \in Surjection(1 .. Len(f), S)
    BY <1>1, <2>1 DEF ToSet, Surjection
  <2> QED
    BY <2>1, <2>2, FS_Interval, FS_Surjection
<1>2. IsFiniteSet(Box) /\ IsFiniteSet(Ship)
  BY <1>1, EntitiesAssumption DEF Box, Ship
<1> QED
  BY <1>2, FS_Union

LEMMA SpacesTypes ==
  ASSUME SpacesInv
  PROVE  /\ Aboard(jolt, rigid, transform)
         /\ DOMAIN rigid \subseteq DOMAIN transform /\ DOMAIN rigid \subseteq Box \cup Ship
         /\ \A s \in Ship \cap DOMAIN rigid : rigid[s].space = Null
         /\ \A b \in DOMAIN rigid : rigid[b].space \in Space
<1>1. EachInOneSpace
  BY DEF SpacesInv
<1> QED
  BY <1>1, RigidTypes DEF EachInOneSpace, TypeOK, Aboard

LEMMA AboardTypes ==
  ASSUME NEW j, NEW r, NEW t, Aboard(j, r, t), NEW b \in DOMAIN rigid
  PROVE  /\ r[b] \in Rigid /\ r[b].space \in Space /\ b \in DOMAIN j[r[b].space]
         /\ j[r[b].space][b] \in BodyPose
         /\ r[b].position \in Int /\ r[b].rotation \in {1, -1}
<1>1. r[b] \in Rigid
  BY DEF Aboard
<1>2. r[b].space \in Space /\ r[b].position \in Int /\ r[b].rotation \in {1, -1}
  BY <1>1 DEF Rigid
<1>3. b \in DOMAIN j[r[b].space] /\ j[r[b].space] \in [DOMAIN j[r[b].space] -> BodyPose]
  BY <1>2 DEF Aboard
<1> QED
  BY <1>1, <1>2, <1>3

LEMMA BooksMoved ==
  ASSUME SpacesInv, NEW frames, Framed(frames), NEW j, NEW r, NEW t, Aboard(j, r, t),
         NEW b \in DOMAIN rigid, NEW to \in Space, to # r[b].space, ~Full(j, to)
  PROVE  LET s == r[b].space
             j2 == JoltAfter(frames, j, r, b, to)
             r2 == RigidAfter(frames, r, b, to)
             t2 == LocalAfter(t, b, to)
         IN  /\ Aboard(j2, r2, t2)
             /\ r2[b].space = to
             /\ FrameOf(frames, to).rotation * r2[b].rotation =
                  FrameOf(frames, s).rotation * r[b].rotation
             /\ j2[to][b] = Carried(FrameOf(frames, s), FrameOf(frames, to), j[s][b])
             /\ \A e \in DOMAIN transform \ {b} : t2[e] = t[e]
             /\ \A e \in DOMAIN rigid \ {b} :
                  r2[e] = r[e] /\ j2[r2[e].space][e] = j[r[e].space][e]
<1> DEFINE s == r[b].space
           from == FrameOf(frames, s)
           frame == FrameOf(frames, to)
           body == j[s][b]
           c == Carried(from, frame, body)
           p == CarriedPose(from, frame, r[b].position)
           q == CarriedTurn(from, frame, r[b].rotation)
           moved == [r[b] EXCEPT !.space = to, !.position = p, !.rotation = q]
           placed == [t[b] EXCEPT !.parent = to]
           j2 == JoltAfter(frames, j, r, b, to)
           r2 == RigidAfter(frames, r, b, to)
           t2 == LocalAfter(t, b, to)
<1>1. s \in Space /\ to # s /\ b \in DOMAIN transform /\ b \in DOMAIN j[s]
  BY AboardTypes, SpacesTypes
<1>11. /\ r[b] \in Rigid /\ body \in BodyPose /\ t[b] \in Local
       /\ r[b].position = body.position /\ r[b].rotation \in {1, -1}
  BY <1>1, AboardTypes DEF Aboard
<1>12. c \in BodyPose /\ c.position = p /\ p \in Int
  <2>1. c \in BodyPose
    BY <1>1, <1>11, CarriedIs
  <2> QED
    BY <1>11, <2>1 DEF Carried, BodyPose
<1>13. q \in {1, -1} /\ frame.rotation * q = from.rotation * r[b].rotation
  <2>1. from.rotation \in {1, -1} /\ frame.rotation \in {1, -1}
    BY <1>1, FrameIs
  <2> HIDE DEF from, frame
  <2> QED
    BY <1>11, <2>1, TurnedTwice DEF CarriedTurn
<1>14. moved \in Rigid /\ moved.space = to /\ moved.position = p /\ moved.rotation = q
  <2> HIDE DEF p, q
  <2> QED
    BY <1>11, <1>12, <1>13 DEF Rigid
<1>15. placed \in Local /\ placed.parent = to
  BY <1>11 DEF Local, Parent
<1>16. /\ j2 = [j EXCEPT ![to] = With(@, b, c), ![s] = Without(@, b)]
       /\ r2 = [r EXCEPT ![b] = moved]
       /\ t2 = [t EXCEPT ![b] = placed]
  BY DEF JoltAfter, RigidAfter, LocalAfter
<1> HIDE DEF c, moved, placed, j2, r2, t2
<1>2. /\ DOMAIN j2 = Space
      /\ j2[to] = With(j[to], b, c) /\ j2[s] = Without(j[s], b)
      /\ \A x \in Space : x # to /\ x # s => j2[x] = j[x]
  BY <1>1, <1>16 DEF Aboard
<1>3. /\ DOMAIN r = DOMAIN rigid /\ DOMAIN t = DOMAIN transform
      /\ r2 \in [DOMAIN rigid -> Rigid] /\ t2 \in [DOMAIN transform -> Local]
      /\ r2[b] = moved /\ t2[b] = placed
      /\ \A e \in DOMAIN rigid \ {b} : r2[e] = r[e]
      /\ \A e \in DOMAIN transform \ {b} : t2[e] = t[e]
  BY <1>1, <1>14, <1>15, <1>16 DEF Aboard
<1> HIDE DEF s, from, frame, p, q
<1>4. /\ DOMAIN j2[to] = {b} \cup DOMAIN j[to] /\ j2[to][b] = c
      /\ \A e \in DOMAIN j[to] \ {b} : j2[to][e] = j[to][e]
      /\ DOMAIN j2[s] = DOMAIN j[s] \ {b}
      /\ \A e \in DOMAIN j[s] \ {b} : j2[s][e] = j[s][e]
  BY <1>2, WithoutIs DEF With
<1>5. \A x \in Space : DOMAIN j2[x] = {e \in DOMAIN rigid : r2[e].space = x}
  <2> SUFFICES ASSUME NEW x \in Space
               PROVE  DOMAIN j2[x] = {e \in DOMAIN rigid : r2[e].space = x}
    OBVIOUS
  <2>1. DOMAIN j[x] = {e \in DOMAIN rigid : r[e].space = x}
    BY DEF Aboard
  <2>2. r2[b].space = to /\ \A e \in DOMAIN rigid \ {b} : r2[e].space = r[e].space
    BY <1>3, <1>14
  <2>3. r[b].space = s
    BY DEF s
  <2>4. CASE x = to
    BY <1>1, <1>4, <2>1, <2>2, <2>4
  <2>5. CASE x = s
    BY <1>1, <1>4, <2>1, <2>2, <2>5
  <2>6. CASE x # to /\ x # s
    BY <1>2, <2>1, <2>2, <2>3, <2>6
  <2> QED
    BY <2>4, <2>5, <2>6
<1>6. \A e \in DOMAIN rigid \ {b} : r2[e] = r[e] /\ j2[r2[e].space][e] = j[r[e].space][e]
  <2> SUFFICES ASSUME NEW e \in DOMAIN rigid \ {b}
               PROVE  r2[e] = r[e] /\ j2[r[e].space][e] = j[r[e].space][e]
    BY <1>3
  <2>1. r2[e] = r[e] /\ r[e].space \in Space /\ e \in DOMAIN j[r[e].space]
    BY <1>3, AboardTypes
  <2> QED
    BY <1>2, <1>4, <2>1
<1>7. ASSUME NEW x \in Space PROVE j2[x] \in [DOMAIN j2[x] -> BodyPose]
  <2>1. \A y \in Space : j[y] \in [DOMAIN j[y] -> BodyPose]
    BY DEF Aboard
  <2>2. CASE x = to
    BY <1>2, <1>12, <2>1, <2>2 DEF With
  <2>3. CASE x = s
    <3>1. j2[s] = [y \in DOMAIN j[s] \ {b} |-> j[s][y]] /\ j[s] \in [DOMAIN j[s] -> BodyPose]
      BY <1>1, <1>2, <2>1, WithoutIs
    <3> QED
      BY <2>3, <3>1
  <2>4. CASE x # to /\ x # s
    BY <1>2, <2>1, <2>4
  <2> QED
    BY <2>2, <2>3, <2>4
<1>8. ASSUME NEW x \in Ship PROVE Cardinality(DOMAIN j2[x]) <= ShipMaxBodies
  <2>1. x \in Space /\ x # Null /\ DOMAIN j[x] \subseteq Box \cup Ship
    BY ShipsAre, SpacesTypes DEF Aboard
  <2>2. IsFiniteSet(DOMAIN j[x]) /\ Cardinality(DOMAIN j[x]) \in Nat
    BY <2>1, BodiesFinite, FS_Subset, FS_CardinalityType
  <2>3. Cardinality(DOMAIN j[x]) <= ShipMaxBodies /\ ShipMaxBodies \in Nat
    BY NumbersAssumption DEF Aboard
  <2>4. CASE x = to
    <3>1. Cardinality(DOMAIN j[x]) < ShipMaxBodies
      BY <2>1, <2>2, <2>3, <2>4 DEF Full
    <3>2. DOMAIN j2[x] = DOMAIN j[x] \cup {b} /\ b \notin DOMAIN j[x]
      BY <1>1, <1>4, <2>4 DEF Aboard
    <3>3. Cardinality(DOMAIN j[x] \cup {b}) = Cardinality(DOMAIN j[x]) + 1
      BY <2>2, <3>2, FS_AddElement
    <3> QED
      BY <2>2, <2>3, <3>1, <3>2, <3>3
  <2>5. CASE x = s
    <3>1. DOMAIN j2[x] = DOMAIN j[x] \ {b}
      BY <1>4, <2>5
    <3>2. Cardinality(DOMAIN j[x] \ {b}) = Cardinality(DOMAIN j[x]) - 1
      BY <1>1, <2>2, <2>5, FS_RemoveElement
    <3> QED
      BY <2>2, <2>3, <3>1, <3>2
  <2>6. CASE x # to /\ x # s
    BY <1>2, <2>1, <2>3, <2>6
  <2> QED
    BY <2>4, <2>5, <2>6
<1>9. \A e \in DOMAIN rigid : t2[e].parent = r2[e].space /\ r2[e].position = j2[r2[e].space][e].position
  <2> SUFFICES ASSUME NEW e \in DOMAIN rigid
               PROVE  t2[e].parent = r2[e].space /\ r2[e].position = j2[r2[e].space][e].position
    OBVIOUS
  <2>1. CASE e = b
    BY <1>3, <1>4, <1>12, <1>14, <1>15, <2>1
  <2>2. CASE e # b
    <3>1. t[e].parent = r[e].space /\ r[e].position = j[r[e].space][e].position
      BY DEF Aboard
    <3>2. t2[e] = t[e]
      BY <1>3, <2>2, SpacesTypes
    <3> QED
      BY <1>6, <2>2, <3>1, <3>2
  <2> QED
    BY <2>1, <2>2
<1>10. Aboard(j2, r2, t2)
  BY <1>2, <1>3, <1>5, <1>7, <1>8, <1>9 DEF Aboard
<1> QED
  BY <1>3, <1>4, <1>6, <1>10, <1>13, <1>14 DEF c, j2, r2, t2, s, from, frame

\* A box that is looked at is left, or carried into the space it is now in.
LEMMA CrossedIs ==
  ASSUME SpacesInv, NEW frames, Framed(frames), NEW j, NEW r, NEW t,
         NEW n \in 1 .. Len(Boxes), TransferInv(frames, j, r, t, n - 1),
         Boxes[n] \in DOMAIN rigid
  PROVE  \E j2, r2, t2 :
           /\ Crossed(frames, [jolt |-> j, rigid |-> r, transform |-> t], Boxes[n]) =
                [jolt |-> j2, rigid |-> r2, transform |-> t2]
           /\ TransferInv(frames, j2, r2, t2, n)
<1> DEFINE b == Boxes[n]
           now == [jolt |-> j, rigid |-> r, transform |-> t]
           s == r[b].space
           from == FrameOf(frames, s)
           body == j[s][b]
           point == ToWorld(from, r[b].position)
           to == Destination(frames, point, BoxRadius, s)
           frame == FrameOf(frames, to)
           j2 == JoltAfter(frames, j, r, b, to)
           r2 == RigidAfter(frames, r, b, to)
           t2 == LocalAfter(t, b, to)
<1>1. Len(Boxes) \in Nat /\ n \in Nat /\ b \in Box /\ b \in DOMAIN rigid /\ b \notin Ship
  BY ShipsAre
<1>2. Aboard(j, r, t) /\ Unmoved(j, r, b)
  BY <1>1 DEF TransferInv
<1>3. /\ r[b] = rigid[b] /\ body = jolt[rigid[b].space][b]
      /\ s \in Space /\ body \in BodyPose
      /\ r[b].position \in Int /\ r[b].position = body.position
  <2>1. r[b] = rigid[b] /\ body = jolt[rigid[b].space][b]
    BY <1>2 DEF Unmoved
  <2>2. s \in Space /\ body \in BodyPose /\ r[b].position \in Int
    BY <1>1, <1>2, AboardTypes
  <2>3. r[b].position = body.position
    BY <1>1, <1>2 DEF Aboard
  <2> QED
    BY <2>1, <2>2, <2>3
<1>4. point \in Int /\ to \in Space
  BY <1>3, WorldAndLocal, DestinationIs, NumbersAssumption
<1>5. /\ Crossed(frames, now, b) = IF to = s THEN now ELSE MoveBody(frames, now, b, to)
      /\ MoveBody(frames, now, b, to) = now \/ ~Full(now.jolt, to)
  BY DEF Crossed, MoveBody
<1>6. TransferInv(frames, j, r, t, n)
  BY <1>1 DEF TransferInv
<1>7. CASE to = s \/ Full(now.jolt, to)
  <2>1. Crossed(frames, now, b) = now
    BY <1>7, <1>5 DEF Crossed, MoveBody
  <2> QED
    BY <1>6, <2>1
<1>8. CASE to # s /\ ~Full(now.jolt, to)
  <2>1. LET c == Carried(from, frame, body)
        IN  /\ ToWorld(frame, c.position) = ToWorld(from, body.position)
            /\ Turned(frame, c.velocity) + frame.velocity =
                 Turned(from, body.velocity) + from.velocity
    BY <1>3, <1>4, CarriedIs
  <2>2. /\ s \in Ship => Outside(frames[s], point) >= BoxRadius + Hysteresis
        /\ to \in Ship => Outside(frames[to], point) < BoxRadius
    BY <1>3, <1>4, <1>8, DestinationIs, NumbersAssumption
  <2>3. s = r[b].space /\ ~Full(j, to)
    BY <1>8
  <2>4. point = ToWorld(from, body.position)
    BY <1>3
  <2> HIDE DEF b, to
  <2>5. Crossed(frames, now, b) = [jolt |-> j2, rigid |-> r2, transform |-> t2]
    BY <1>5, <1>8, <2>3, MoveBodyIs
  <2>6. /\ Aboard(j2, r2, t2)
        /\ r2[b].space = to
        /\ frame.rotation * r2[b].rotation = from.rotation * r[b].rotation
        /\ j2[to][b] = Carried(from, frame, body)
        /\ \A e \in DOMAIN transform \ {b} : t2[e] = t[e]
        /\ \A e \in DOMAIN rigid \ {b} : r2[e] = r[e] /\ j2[r2[e].space][e] = j[r[e].space][e]
    BY <1>1, <1>2, <1>4, <1>8, <2>3, BooksMoved
  <2> HIDE DEF j2, r2, t2
  <2>7. SameInWorld(frames, j2, r2, b)
    <3>1. rigid[b].space = s /\ jolt[s][b] = body /\ r[b] = rigid[b]
      BY <1>3
    <3>2. r2[b].space = to /\ FrameOf(frames, to) = frame /\ FrameOf(frames, s) = from
      BY <2>6
    <3> HIDE DEF s, from, frame, body, point, now
    <3> QED
      BY <2>1, <2>2, <2>4, <2>6, <3>1, <3>2 DEF SameInWorld
  <2>8. ASSUME NEW e \in DOMAIN rigid \ {b}
        PROVE  /\ Unmoved(j, r, e) => Unmoved(j2, r2, e)
               /\ SameInWorld(frames, j, r, e) => SameInWorld(frames, j2, r2, e)
    BY <2>6 DEF Unmoved, SameInWorld
  <2>9. \A i \in n + 1 .. Len(Boxes) : Boxes[i] # b
    BY <1>1, ShipsAre DEF b
  <2>10. TransferInv(frames, j2, r2, t2, n)
    BY <1>1, <1>6, <2>6, <2>7, <2>8, <2>9 DEF TransferInv
  <2> QED
    BY <2>5, <2>10 DEF b
<1> QED
  BY <1>7, <1>8

CrossesTo(frames, f, n) ==
  f = [i \in 0 .. n |->
         IF i = 0 THEN [jolt |-> jolt, rigid |-> rigid, transform |-> transform]
         ELSE IF Boxes[i] \notin DOMAIN rigid THEN f[i - 1]
         ELSE Crossed(frames, f[i - 1], Boxes[i])]

LEMMA CrossingsExist == ASSUME NEW frames PROVE \A n \in Nat : \E f : CrossesTo(frames, f, n)
<1> DEFINE S == {n \in Nat : \E f : CrossesTo(frames, f, n)}
           start == [jolt |-> jolt, rigid |-> rigid, transform |-> transform]
<1>1. 0 \in S
  <2>1. CrossesTo(frames, [i \in 0 .. 0 |-> start], 0)
    BY DEF CrossesTo
  <2> QED
    BY <2>1
<1>2. ASSUME NEW n \in Nat, n \in S PROVE n + 1 \in S
  <2>1. PICK f : CrossesTo(frames, f, n)
    BY <1>2
  <2> DEFINE Next1(g, i) == IF i = 0 THEN start
                            ELSE IF Boxes[i] \notin DOMAIN rigid THEN g[i - 1]
                            ELSE Crossed(frames, g[i - 1], Boxes[i])
             g == [i \in 0 .. n + 1 |-> IF i <= n THEN f[i] ELSE Next1(f, i)]
  <2>2. f = [i \in 0 .. n |-> Next1(f, i)]
    BY <2>1 DEF CrossesTo
  <2>3. \A i \in 0 .. n : f[i] = Next1(f, i) /\ g[i] = f[i]
    <3> HIDE DEF Next1
    <3> QED
      BY <2>2
  <2>4. \A i \in 0 .. n + 1 : g[i] = Next1(g, i)
    <3> SUFFICES ASSUME NEW i \in 0 .. n + 1 PROVE g[i] = Next1(g, i)
      OBVIOUS
    <3>1. CASE i = 0
      <4>1. 0 \in 0 .. n /\ g[0] = f[0] /\ f[0] = start
        BY <2>3
      <4> HIDE DEF g
      <4> QED
        BY <3>1, <4>1
    <3>2. CASE i # 0
      <4>1. i - 1 \in 0 .. n /\ g[i - 1] = f[i - 1]
        BY <3>2, <2>3
      <4>2. Next1(g, i) = Next1(f, i)
        BY <3>2, <4>1
      <4>3. g[i] = IF i <= n THEN f[i] ELSE Next1(f, i)
        OBVIOUS
      <4>4. i <= n => f[i] = Next1(f, i)
        <5> HIDE DEF Next1, g
        <5> QED
          BY <2>3
      <4> QED
        BY <4>2, <4>3, <4>4
    <3> QED
      BY <3>1, <3>2
  <2>5. CrossesTo(frames, g, n + 1)
    <3>1. g = [i \in 0 .. n + 1 |-> Next1(g, i)]
      <4> HIDE DEF Next1
      <4> QED
        BY <2>4
    <3> QED
      BY <3>1 DEF CrossesTo
  <2> QED
    BY <2>5
<1> HIDE DEF S
<1>3. \A n \in Nat : n \in S
  BY <1>1, <1>2, Induct
<1> QED
  BY <1>3 DEF S

LEMMA CrossingsAre == ASSUME NEW frames PROVE CrossesTo(frames, Crossings(frames), Len(Boxes))
<1>1. Len(Boxes) \in Nat
  BY ShipsAre
<1>2. \E f : CrossesTo(frames, f, Len(Boxes))
  BY <1>1, CrossingsExist
<1>3. Crossings(frames) = CHOOSE f : CrossesTo(frames, f, Len(Boxes))
  BY DEF Crossings, CrossesTo
<1> QED
  BY <1>2, <1>3

\* After transfer() every box is in the space it is to be in.
LEMMA TransferredIs ==
  ASSUME SpacesInv, NEW frames, Framed(frames)
  PROVE  \E j, r, t : /\ Transferred(frames) = [jolt |-> j, rigid |-> r, transform |-> t]
                      /\ TransferInv(frames, j, r, t, Len(Boxes))
<1> DEFINE f == Crossings(frames)
           Good(n) == \E j, r, t : /\ f[n] = [jolt |-> j, rigid |-> r, transform |-> t]
                                   /\ TransferInv(frames, j, r, t, n)
           S == {n \in Nat : n <= Len(Boxes) => Good(n)}
<1>1. Len(Boxes) \in Nat
  BY ShipsAre
<1>2. \A n \in 0 .. Len(Boxes) :
        f[n] = IF n = 0 THEN [jolt |-> jolt, rigid |-> rigid, transform |-> transform]
               ELSE IF Boxes[n] \notin DOMAIN rigid THEN f[n - 1]
               ELSE Crossed(frames, f[n - 1], Boxes[n])
  BY CrossingsAre DEF CrossesTo
<1> HIDE DEF f
<1>3. 0 \in S
  <2>1. f[0] = [jolt |-> jolt, rigid |-> rigid, transform |-> transform]
    BY <1>1, <1>2
  <2>2. TransferInv(frames, jolt, rigid, transform, 0)
    BY SpacesTypes DEF TransferInv, Unmoved, SameInWorld
  <2> QED
    BY <2>1, <2>2
<1>4. ASSUME NEW n \in Nat, n \in S PROVE n + 1 \in S
  <2> SUFFICES ASSUME n + 1 <= Len(Boxes) PROVE Good(n + 1)
    <3> HIDE DEF Good
    <3> QED
      OBVIOUS
  <2>1. n + 1 \in 1 .. Len(Boxes) /\ n + 1 \in 0 .. Len(Boxes) /\ (n + 1) - 1 = n
    BY <1>1
  <2>2. PICK j, r, t : /\ f[n] = [jolt |-> j, rigid |-> r, transform |-> t]
                       /\ TransferInv(frames, j, r, t, n)
    <3>1. Good(n)
      <4> HIDE DEF Good
      <4> QED
        BY <1>1, <1>4
    <3> QED
      BY <3>1
  <2>3. CASE Boxes[n + 1] \in DOMAIN rigid
    <3>1. f[n + 1] = Crossed(frames, [jolt |-> j, rigid |-> r, transform |-> t], Boxes[n + 1])
      BY <1>2, <2>1, <2>2, <2>3
    <3>2. TransferInv(frames, j, r, t, (n + 1) - 1)
      BY <2>1, <2>2
    <3> QED
      BY <2>1, <2>3, <3>1, <3>2, CrossedIs
  <2>4. CASE Boxes[n + 1] \notin DOMAIN rigid
    <3>1. f[n + 1] = [jolt |-> j, rigid |-> r, transform |-> t]
      BY <1>2, <2>1, <2>2, <2>4
    <3>2. TransferInv(frames, j, r, t, n + 1)
      BY <1>1, <2>1, <2>2 DEF TransferInv
    <3> QED
      BY <3>1, <3>2
  <2> QED
    BY <2>3, <2>4
<1> HIDE DEF S
<1>5. \A n \in Nat : n \in S
  BY <1>3, <1>4, Induct
<1> QED
  BY <1>1, <1>5 DEF S, f, Transferred

-----------------------------------------------------------------------------
(* What a step of Jolt does *)

LEMMA GravityIs ==
  ASSUME NEW frames, Framed(frames), NEW s \in Space
  PROVE  LET frame == FrameOf(frames, s)
         IN  /\ GravityIn(frames, s) \in Int
             /\ Turned(frame, GravityIn(frames, s)) = Gravity - frame.acceleration
<1> DEFINE frame == FrameOf(frames, s)
           g == Gravity - frame.acceleration
<1>1. frame.acceleration \in Int /\ Gravity \in Int /\ g \in Int
  BY FrameIs, NumbersAssumption
<1>2. CASE s = Null
  <2>1. frame = Still
    BY <1>2, FrameIs
  <2> QED
    BY <1>1, <1>2, <2>1 DEF GravityIn, Turned, Still
<1>3. CASE s # Null
  <2>1. GravityIn(frames, s) = Turned(frame, g)
    BY <1>3 DEF GravityIn, GravityAboard, FrameOf
  <2>2. Turned(frame, g) \in Int /\ Turned(frame, Turned(frame, g)) = g
    BY <1>1, WorldAndLocal
  <2> QED
    BY <2>1, <2>2
<1> QED
  BY <1>2, <1>3

\* It moves by the speed it has then, and it has gained by the gravity of its
\* space if nothing stopped it.
LEMMA MovedIs ==
  ASSUME NEW frames, Framed(frames), NEW s \in Space, NEW body \in BodyPose,
         NEW stopped \in BOOLEAN
  PROVE  LET moved == Moved(frames, s, body, stopped)
         IN  /\ moved \in BodyPose /\ moved.rotation = body.rotation
             /\ moved.position = body.position + moved.velocity
             /\ moved.velocity = 0 \/ moved.velocity = body.velocity + GravityIn(frames, s)
<1> DEFINE v == body.velocity + GravityIn(frames, s)
<1>1. body.position \in Int /\ body.velocity \in Int /\ v \in Int
  BY GravityIs DEF BodyPose
<1>2. CASE stopped
  <2>1. Moved(frames, s, body, stopped) = [body EXCEPT !.velocity = 0]
    BY <1>2 DEF Moved, Stops
  <2> QED
    BY <1>1, <2>1 DEF BodyPose
<1>3. CASE ~stopped
  <2>1. Moved(frames, s, body, stopped) =
          [body EXCEPT !.velocity = v, !.position = body.position + v]
    BY <1>3 DEF Moved, Floats
  <2>2. body.position + v \in Int
    BY <1>1
  <2> HIDE DEF v
  <2> QED
    BY <1>1, <2>1, <2>2 DEF BodyPose, v
<1> QED
  BY <1>2, <1>3

-----------------------------------------------------------------------------
(* The character *)

\* It is carried, and floats, as a body does.
AsBody(c) == [position |-> c.position, rotation |-> 1, velocity |-> c.velocity]

LEMMA WalkingIs ==
  ASSUME NEW c \in Walking
  PROVE  /\ c # NoCharacter /\ AsBody(c) \in BodyPose /\ c.space \in Space
         /\ c.position \in Int /\ c.velocity \in Int /\ c.up \in {1, -1} /\ c.feet \in Int
         /\ AsBody(c).position = c.position /\ AsBody(c).velocity = c.velocity
<1>1. DOMAIN c # DOMAIN NoCharacter
  BY DEF Walking, NoCharacter
<1> QED
  BY <1>1 DEF Walking, AsBody, BodyPose

\* In transfer() it too stays where it was in the world, and moves as it did.
LEMMA MovedCharacterIs ==
  ASSUME NEW frames, Framed(frames), character \in Walking
  PROVE  LET c == character
             moved == MovedCharacter(frames)
             from == FrameOf(frames, c.space)
             to == FrameOf(frames, moved.space)
         IN  /\ moved \in Walking
             /\ ToWorld(to, moved.position) = ToWorld(from, c.position)
             /\ Turned(to, moved.velocity) + to.velocity =
                  Turned(from, c.velocity) + from.velocity
<1> DEFINE c == character
           from == FrameOf(frames, c.space)
           middle == ToWorld(from, c.position) + Turned(from, c.up) * WalkerMiddle
           dest == Destination(frames, middle, WalkerRadius, c.space)
           to == FrameOf(frames, dest)
           carried == Carried(from, to, AsBody(c))
           up == Turned(to, Turned(from, c.up))
<1>1. /\ c.space \in Space /\ c.position \in Int /\ c.velocity \in Int /\ c.up \in {1, -1}
      /\ c # NoCharacter /\ AsBody(c) \in BodyPose
      /\ AsBody(c).position = c.position /\ AsBody(c).velocity = c.velocity
  BY WalkingIs
<1>2. Turned(from, c.up) \in {1, -1} /\ from.rotation \in {1, -1}
  BY <1>1, FrameIs, TurnsOfTurns DEF Turned
<1>3. middle \in Int
  <2>1. ToWorld(from, c.position) \in Int /\ WalkerMiddle \in Int
    BY <1>1, WorldAndLocal, NumbersAssumption
  <2>2. Turned(from, c.up) * WalkerMiddle \in Int
    BY <1>2, <2>1, TurnIs
  <2> QED
    BY <2>1, <2>2
<1>4. dest \in Space
  BY <1>1, <1>3, DestinationIs, NumbersAssumption
<1>5. up \in {1, -1}
  BY <1>2, <1>4, FrameIs, TurnsOfTurns DEF Turned
<1>6. /\ carried \in BodyPose
      /\ ToWorld(to, carried.position) = ToWorld(from, c.position)
      /\ Turned(to, carried.velocity) + to.velocity = Turned(from, c.velocity) + from.velocity
  BY <1>1, <1>4, CarriedIs
<1>7. CASE dest = c.space
  <2>1. MovedCharacter(frames) = c
    BY <1>1, <1>7 DEF MovedCharacter
  <2> QED
    BY <1>1, <2>1
<1>8. CASE dest # c.space
  <2>1. MovedCharacter(frames) = [c EXCEPT !.space = dest,
                                           !.position = CarriedPose(from, to, c.position),
                                           !.velocity = CarriedVelocity(from, to, c.velocity),
                                           !.up = up]
    BY <1>1, <1>8 DEF MovedCharacter
  <2>2. /\ carried.position = CarriedPose(from, to, c.position)
        /\ carried.velocity = CarriedVelocity(from, to, c.velocity)
        /\ carried.position \in Int /\ carried.velocity \in Int
    BY <1>1, <1>6 DEF Carried, BodyPose
  <2>3. MovedCharacter(frames) = [c EXCEPT !.space = dest, !.position = carried.position,
                                           !.velocity = carried.velocity, !.up = up]
    BY <2>1, <2>2
  <2>4. /\ MovedCharacter(frames) \in Walking
        /\ MovedCharacter(frames).space = dest
        /\ MovedCharacter(frames).position = carried.position
        /\ MovedCharacter(frames).velocity = carried.velocity
    <3> HIDE DEF carried, dest, up
    <3> QED
      BY <1>4, <1>5, <2>2, <2>3 DEF Walking
  <2> QED
    BY <1>6, <2>4
<1> QED
  BY <1>7, <1>8

LEMMA SteppedCharacterIs ==
  ASSUME NEW frames, Framed(frames), NEW c \in Walking, NEW stopped \in BOOLEAN
  PROVE  LET stepped == SteppedCharacter(frames, c, stopped)
             moved == Moved(frames, c.space, AsBody(c), stopped)
         IN  /\ stepped \in Walking /\ stepped.space = c.space
             /\ stepped.position = moved.position /\ stepped.velocity = moved.velocity
<1> DEFINE g == GravityIn(frames, c.space)
           moved == Moved(frames, c.space, c, stopped)
           body == Moved(frames, c.space, AsBody(c), stopped)
           up == IF g > 0 THEN -1 ELSE IF g < 0 THEN 1 ELSE c.up
           feet == ToWorld(FrameOf(frames, c.space), moved.position)
<1>1. /\ c.space \in Space /\ c.position \in Int /\ c.velocity \in Int /\ c.up \in {1, -1}
      /\ c.feet \in Int /\ AsBody(c) \in BodyPose
      /\ AsBody(c).position = c.position /\ AsBody(c).velocity = c.velocity
  BY WalkingIs
<1>2. body \in BodyPose
  BY <1>1, MovedIs
<1>3. /\ moved.position = body.position /\ moved.velocity = body.velocity
      /\ moved = [c EXCEPT !.velocity = body.velocity, !.position = body.position]
  <2>1. CASE stopped
    BY <1>1, <2>1 DEF Moved, Stops, Walking, AsBody
  <2>2. CASE ~stopped
    BY <1>1, <2>2 DEF Moved, Floats, Walking, AsBody
  <2> QED
    BY <2>1, <2>2
<1>4. moved.position \in Int /\ moved.velocity \in Int /\ up \in {1, -1} /\ feet \in Int
  <2>1. moved.position \in Int /\ moved.velocity \in Int
    BY <1>2, <1>3 DEF BodyPose
  <2> QED
    BY <1>1, <2>1, WorldAndLocal
<1> HIDE DEF body
<1>5. moved \in Walking /\ moved.up = c.up /\ moved.feet = c.feet /\ moved.space = c.space
  BY <1>3, <1>4 DEF Walking
<1>6. SteppedCharacter(frames, c, stopped) =
        [moved EXCEPT !.up = up, !.previous = c.feet, !.feet = feet]
  BY <1>5 DEF SteppedCharacter
<1> HIDE DEF moved, up, feet
<1>7. /\ SteppedCharacter(frames, c, stopped) \in Walking
      /\ SteppedCharacter(frames, c, stopped).space = moved.space
      /\ SteppedCharacter(frames, c, stopped).position = moved.position
      /\ SteppedCharacter(frames, c, stopped).velocity = moved.velocity
  BY <1>1, <1>4, <1>5, <1>6 DEF Walking
<1> QED
  BY <1>3, <1>5, <1>7 DEF body

-----------------------------------------------------------------------------
(* What a step leaves *)

\* Everything after a step, by what transfer() has made of the spaces.
SteppedTo(j, r, t) ==
  /\ space' = Followed /\ transform' = t
  /\ DOMAIN jolt' = Space
  /\ \A s \in Space : jolt'[s] = [b \in DOMAIN j[s] |-> jolt'[s][b]]
  /\ \A s \in Space : \A b \in DOMAIN j[s] :
       \E stopped \in BOOLEAN : jolt'[s][b] = Moved(Followed, s, j[s][b], stopped)
  /\ rigid' = [b \in DOMAIN rigid |->
                 [r[b] EXCEPT !.previous = r[b].position, !.turned = r[b].rotation,
                              !.position = jolt'[r[b].space][b].position,
                              !.rotation = jolt'[r[b].space][b].rotation]]
  /\ \E stopped \in BOOLEAN :
       character' = IF MovedCharacter(Followed) = NoCharacter THEN NoCharacter
                    ELSE SteppedCharacter(Followed, MovedCharacter(Followed), stopped)
  /\ border' = [b \in Box |-> [s \in Ship |->
       IF b \in DOMAIN rigid /\ r[b].space # rigid[b].space
          /\ s \in {r[b].space, rigid[b].space}
       THEN Outside(Followed[s], ToWorld(FrameOf(Followed, r[b].space), r[b].position))
       ELSE border[b][s]]]
  /\ steps < MaxSteps /\ steps' = steps + 1 /\ phase' = "stepping"
  /\ UNCHANGED <<world, alpha>>

LEMMA StepIs ==
  ASSUME SpacesInv, Step
  PROVE  /\ Framed(Followed)
         /\ \E j, r, t : TransferInv(Followed, j, r, t, Len(Boxes)) /\ SteppedTo(j, r, t)
<1>1. Framed(Followed)
  BY FollowedIs
<1>2. PICK j, r, t : /\ Transferred(Followed) = [jolt |-> j, rigid |-> r, transform |-> t]
                     /\ TransferInv(Followed, j, r, t, Len(Boxes))
  BY <1>1, TransferredIs
<1> DEFINE walker == MovedCharacter(Followed)
<1> DEFINE now == Transferred(Followed)
           Moves(stopped) == [s \in Space |-> [b \in DOMAIN now.jolt[s] |->
                                Moved(Followed, s, now.jolt[s][b], b \in stopped)]]
           Kept(stepped) == [b \in DOMAIN rigid |->
                               LET x == now.rigid[b]
                               IN [x EXCEPT !.previous = x.position, !.turned = x.rotation,
                                            !.position = stepped[x.space][b].position,
                                            !.rotation = stepped[x.space][b].rotation]]
<1>4. /\ space' = Followed /\ transform' = now.transform /\ border' = Borders(Followed, now)
      /\ steps < MaxSteps /\ steps' = steps + 1 /\ phase' = "stepping"
      /\ UNCHANGED <<world, alpha>>
      /\ \E stopped \in {{}} \cup {{x} : x \in Stepped} :
           /\ jolt' = Moves(stopped)
           /\ rigid' = Kept(Moves(stopped))
           /\ character' = IF walker = NoCharacter THEN walker
                           ELSE SteppedCharacter(Followed, walker, Walker \in stopped)
  BY ZenonT(60) DEF Step, StepFrames
<1>9. PICK stopped :
           /\ jolt' = Moves(stopped)
           /\ rigid' = Kept(Moves(stopped))
           /\ character' = IF walker = NoCharacter THEN walker
                           ELSE SteppedCharacter(Followed, walker, Walker \in stopped)
  <2> HIDE DEF Moves, Kept, walker
  <2> QED
    BY <1>4
<1>10. now.jolt = j /\ now.rigid = r /\ now.transform = t
  BY <1>2
<1>11. Kept(jolt') = [b \in DOMAIN rigid |->
             [r[b] EXCEPT !.previous = r[b].position, !.turned = r[b].rotation,
                          !.position = jolt'[r[b].space][b].position,
                          !.rotation = jolt'[r[b].space][b].rotation]]
  BY <1>10
<1>3. /\ jolt' = [s \in Space |-> [b \in DOMAIN j[s] |->
                      Moved(Followed, s, j[s][b], b \in stopped)]]
      /\ rigid' = Kept(jolt')
      /\ character' = IF walker = NoCharacter THEN walker
                      ELSE SteppedCharacter(Followed, walker, Walker \in stopped)
  <2> HIDE DEF Kept, now
  <2> QED
    BY <1>9, <1>10
<1>12. border' = [b \in Box |-> [s \in Ship |->
         IF b \in DOMAIN rigid /\ r[b].space # rigid[b].space
            /\ s \in {r[b].space, rigid[b].space}
         THEN Outside(Followed[s], ToWorld(FrameOf(Followed, r[b].space), r[b].position))
         ELSE border[b][s]]]
  BY <1>4, <1>10 DEF Borders
<1> HIDE DEF now, Kept, Moves
<1>5. ASSUME NEW s \in Space, NEW b \in DOMAIN j[s]
      PROVE  \E h \in BOOLEAN : jolt'[s][b] = Moved(Followed, s, j[s][b], h)
  <2>1. jolt'[s][b] = IF b \in stopped THEN Stops(j[s][b]) ELSE Floats(Followed, s, j[s][b])
    BY <1>3 DEF Moved
  <2>2. /\ Moved(Followed, s, j[s][b], TRUE) = Stops(j[s][b])
        /\ Moved(Followed, s, j[s][b], FALSE) = Floats(Followed, s, j[s][b])
    BY DEF Moved
  <2> QED
    BY <2>1, <2>2
<1>6. \E h \in BOOLEAN :
        character' = IF walker = NoCharacter THEN NoCharacter
                     ELSE SteppedCharacter(Followed, walker, h)
  <2>1. CASE Walker \in stopped
    <3>1. SteppedCharacter(Followed, walker, Walker \in stopped)
            = SteppedCharacter(Followed, walker, TRUE)
      BY <2>1 DEF SteppedCharacter, Moved
    <3> QED
      BY <1>3, <3>1
  <2>2. CASE Walker \notin stopped
    <3>1. SteppedCharacter(Followed, walker, Walker \in stopped)
            = SteppedCharacter(Followed, walker, FALSE)
      BY <2>2 DEF SteppedCharacter, Moved
    <3> QED
      BY <1>3, <3>1
  <2> QED
    BY <2>1, <2>2
<1>7. /\ DOMAIN jolt' = Space
      /\ \A s \in Space : jolt'[s] = [b \in DOMAIN j[s] |-> jolt'[s][b]]
  BY <1>3
<1>8. SteppedTo(j, r, t)
  BY <1>3, <1>4, <1>5, <1>6, <1>7, <1>10, <1>11, <1>12 DEF SteppedTo
<1> QED
  BY <1>1, <1>2, <1>8

\* A body is in the space transfer() has found for it, and has moved there.
LEMMA SteppedBodies ==
  ASSUME SpacesInv, Framed(Followed), NEW j, NEW r, NEW t,
         TransferInv(Followed, j, r, t, Len(Boxes)), SteppedTo(j, r, t),
         NEW b \in DOMAIN rigid
  PROVE  LET u == r[b].space
         IN  /\ u \in Space /\ b \in DOMAIN j[u] /\ j[u][b] \in BodyPose
             /\ jolt'[u][b] \in BodyPose
             /\ jolt'[u][b].rotation = j[u][b].rotation
             /\ jolt'[u][b].position = j[u][b].position + jolt'[u][b].velocity
             /\ \/ jolt'[u][b].velocity = 0
                \/ jolt'[u][b].velocity = j[u][b].velocity + GravityIn(Followed, u)
             /\ rigid'[b] \in Rigid /\ rigid'[b].space = u
             /\ rigid'[b].position = jolt'[u][b].position
             /\ rigid'[b].rotation = jolt'[u][b].rotation
<1> DEFINE u == r[b].space
<1>1. Aboard(j, r, t)
  BY DEF TransferInv
<1>2. /\ r[b] \in Rigid /\ u \in Space /\ b \in DOMAIN j[u] /\ j[u][b] \in BodyPose
      /\ r[b].position \in Int /\ r[b].rotation \in {1, -1}
  BY <1>1, AboardTypes
<1>3. \E stopped \in BOOLEAN : jolt'[u][b] = Moved(Followed, u, j[u][b], stopped)
  BY <1>2 DEF SteppedTo
<1>4. /\ jolt'[u][b] \in BodyPose
      /\ jolt'[u][b].rotation = j[u][b].rotation
      /\ jolt'[u][b].position = j[u][b].position + jolt'[u][b].velocity
      /\ \/ jolt'[u][b].velocity = 0
         \/ jolt'[u][b].velocity = j[u][b].velocity + GravityIn(Followed, u)
  BY <1>2, <1>3, MovedIs
<1>5. rigid'[b] = [r[b] EXCEPT !.previous = r[b].position, !.turned = r[b].rotation,
                               !.position = jolt'[u][b].position,
                               !.rotation = jolt'[u][b].rotation]
  BY DEF SteppedTo
<1>6. jolt'[u][b].position \in Int /\ jolt'[u][b].rotation \in {1, -1}
  BY <1>4 DEF BodyPose
<1>7. /\ rigid'[b] \in Rigid /\ rigid'[b].space = r[b].space
      /\ rigid'[b].position = jolt'[u][b].position
      /\ rigid'[b].rotation = jolt'[u][b].rotation
  BY <1>2, <1>5, <1>6 DEF Rigid
<1> QED
  BY <1>2, <1>4, <1>7

LEMMA StepKeepsSpaces == SpacesInv /\ Step => SpacesInv'
<1> SUFFICES ASSUME SpacesInv, Step PROVE SpacesInv'
  OBVIOUS
<1>1. Framed(Followed)
  BY FollowedIs
<1>2. PICK j, r, t : TransferInv(Followed, j, r, t, Len(Boxes)) /\ SteppedTo(j, r, t)
  BY StepIs
<1>3. /\ Aboard(j, r, t) /\ \A s \in Ship \cap DOMAIN rigid : r[s] = rigid[s]
      /\ \A e \in DOMAIN transform \ Box : t[e] = transform[e]
  BY <1>2 DEF TransferInv, Unmoved
<1>4. /\ DOMAIN rigid' = DOMAIN rigid /\ DOMAIN transform' = DOMAIN transform
      /\ DOMAIN jolt' = Space /\ \A s \in Space : DOMAIN jolt'[s] = DOMAIN j[s]
      /\ transform' = t /\ space' = Followed
  BY <1>2, <1>3 DEF SteppedTo, Aboard
<1>5. \A b \in DOMAIN rigid :
        /\ rigid'[b] \in Rigid /\ rigid'[b].space = r[b].space
        /\ rigid'[b].position = jolt'[r[b].space][b].position
        /\ rigid'[b].rotation = jolt'[r[b].space][b].rotation
        /\ jolt'[r[b].space][b] \in BodyPose
  BY <1>1, <1>2, SteppedBodies
<1>6. TypeOK'
  <2>1. transform' \in [DOMAIN transform' -> Local] /\ DOMAIN Scenery \subseteq DOMAIN transform'
    BY <1>3, <1>4 DEF Aboard, SpacesInv, EachInOneSpace, TypeOK
  <2>2. space' \in [Ship -> Frame] /\ \A s \in Ship : IsFiniteSet(space'[s].volume)
    BY <1>1, <1>4 DEF Framed
  <2>3. ASSUME NEW s \in Space PROVE jolt'[s] \in [DOMAIN jolt'[s] -> BodyPose]
    <3>1. /\ jolt'[s] = [b \in DOMAIN j[s] |-> jolt'[s][b]]
          /\ \A b \in DOMAIN j[s] :
               \E stopped \in BOOLEAN : jolt'[s][b] = Moved(Followed, s, j[s][b], stopped)
      BY <1>2 DEF SteppedTo
    <3>2. \A b \in DOMAIN j[s] : j[s][b] \in BodyPose
      BY <1>3 DEF Aboard
    <3>3. \A b \in DOMAIN j[s] : jolt'[s][b] \in BodyPose
      BY <1>1, <3>1, <3>2, MovedIs
    <3> QED
      BY <3>1, <3>3
  <2>4. rigid' \in [DOMAIN rigid' -> Rigid]
    <3> DEFINE after(b) == [r[b] EXCEPT !.previous = r[b].position, !.turned = r[b].rotation,
                                        !.position = jolt'[r[b].space][b].position,
                                        !.rotation = jolt'[r[b].space][b].rotation]
    <3>2. rigid' = [b \in DOMAIN rigid |-> after(b)]
      BY <1>2 DEF SteppedTo
    <3> HIDE DEF after
    <3>1. rigid' = [b \in DOMAIN rigid |-> rigid'[b]]
      BY <3>2
    <3> QED
      BY <1>4, <1>5, <3>1
  <2>5. DOMAIN rigid' \subseteq (Box \cup Ship) \cap DOMAIN transform'
    BY <1>4 DEF SpacesInv, EachInOneSpace, TypeOK
  <2>6. character' \in Walking \cup {NoCharacter}
    <3>1. CASE character = NoCharacter
      BY <1>2, <3>1 DEF SteppedTo, MovedCharacter
    <3>2. CASE character # NoCharacter
      <4>1. character \in Walking
        BY <3>2 DEF SpacesInv, EachInOneSpace, TypeOK
      <4>2. MovedCharacter(Followed) \in Walking
        BY <1>1, <4>1, MovedCharacterIs
      <4>3. \A h \in BOOLEAN : SteppedCharacter(Followed, MovedCharacter(Followed), h) \in Walking
        BY <1>1, <4>2, SteppedCharacterIs
      <4> QED
        BY <1>2, <4>3 DEF SteppedTo
    <3> QED
      BY <3>1, <3>2
  <2>7. alpha' \in {0, 1} /\ phase' = "stepping" /\ steps' \in 0 .. MaxSteps
    <3>1. alpha' = alpha /\ phase' = "stepping" /\ steps < MaxSteps /\ steps' = steps + 1
      BY <1>2 DEF SteppedTo
    <3>2. alpha \in {0, 1} /\ steps \in 0 .. MaxSteps /\ MaxSteps \in Nat
      BY NumbersAssumption DEF SpacesInv, EachInOneSpace, TypeOK
    <3> QED
      BY <3>1, <3>2
  <2>8. border' \in [Box -> [Ship -> Int]]
    <3>1. ASSUME NEW b \in Box, NEW s \in Ship, b \in DOMAIN rigid
          PROVE  Outside(Followed[s], ToWorld(FrameOf(Followed, r[b].space), r[b].position)) \in Int
      <4>1. r[b].space \in Space /\ r[b].position \in Int
        BY <1>3, <3>1, AboardTypes
      <4> QED
        BY <1>1, <4>1, WorldAndLocal, OutsideIs
    <3>2. border \in [Box -> [Ship -> Int]]
      BY DEF SpacesInv, EachInOneSpace, TypeOK
    <3> QED
      BY <1>2, <3>1, <3>2 DEF SteppedTo
  <2> QED
    BY <1>4, <2>1, <2>2, <2>3, <2>4, <2>5, <2>6, <2>7, <2>8 DEF TypeOK
<1>7. \A s \in Space : DOMAIN jolt'[s] = {b \in DOMAIN rigid' : rigid'[b].space = s}
  BY <1>3, <1>4, <1>5 DEF Aboard
<1>8. \A b \in DOMAIN rigid' :
        /\ rigid'[b].position = jolt'[rigid'[b].space][b].position
        /\ rigid'[b].rotation = jolt'[rigid'[b].space][b].rotation
        /\ transform'[b].parent = rigid'[b].space
  BY <1>3, <1>4, <1>5 DEF Aboard
<1>9. \A s \in Ship : Cardinality(DOMAIN jolt'[s]) <= ShipMaxBodies
  BY <1>3, <1>4, ShipsAre DEF Aboard
<1>10. \A s \in Ship \cap DOMAIN rigid' : rigid'[s].space = Null
  BY <1>3, <1>4, <1>5, SpacesTypes
<1>11. RestInv'
  <2> SUFFICES ASSUME NEW s \in Ship \ DOMAIN rigid'
               PROVE  /\ transform'[s].parent = Null
                      /\ transform'[s].position = space'[s].position
                      /\ transform'[s].rotation = space'[s].rotation
                      /\ space'[s].velocity = 0 /\ space'[s].acceleration = 0
    BY DEF RestInv
  <2>1. s \notin DOMAIN rigid /\ s \in DOMAIN transform \ Box
    BY <1>4, ShipsAre, EntitiesAssumption DEF SpacesInv, EachInOneSpace, TypeOK
  <2>2. s \notin DOMAIN jolt[Null]
    BY <2>1, ShipsAre DEF SpacesInv, EachInOneSpace
  <2>3. Followed[s] = space[s] /\ t[s] = transform[s]
    BY <1>3, <2>1, <2>2 DEF Followed
  <2> QED
    BY <1>4, <2>1, <2>3 DEF SpacesInv, RestInv
<1> QED
  BY <1>6, <1>7, <1>8, <1>9, <1>10, <1>11 DEF SpacesInv, EachInOneSpace

-----------------------------------------------------------------------------
(* The other actions *)

LEMMA InitIsRight == Init => SpacesInv
<1> SUFFICES ASSUME Init PROVE SpacesInv
  OBVIOUS
<1>1. /\ transform = Scenery /\ rigid = <<>> /\ character = NoCharacter
      /\ alpha = 1 /\ phase = "written" /\ steps = 0
      /\ jolt = [s \in Space |-> <<>>] /\ border = [b \in Box |-> [s \in Ship |-> Far]]
      /\ space = [s \in Ship |->
                    [position |-> Scenery[s].position, rotation |-> Scenery[s].rotation,
                     velocity |-> 0, acceleration |-> 0, volume |-> {}]]
  BY DEF Init
<1>2. DOMAIN rigid = {} /\ \A s \in Space : DOMAIN jolt[s] = {}
  BY <1>1
<1>3. \A s \in Ship :
        /\ s \in DOMAIN Scenery /\ Scenery[s] \in Local /\ Scenery[s].parent = Null
        /\ Scenery[s].position \in Int /\ Scenery[s].rotation \in {1, -1}
  BY EntitiesAssumption DEF Local
<1>4. TypeOK
  <2>1. transform \in [DOMAIN transform -> Local] /\ DOMAIN Scenery \subseteq DOMAIN transform
    BY <1>1, EntitiesAssumption
  <2>2. space \in [Ship -> Frame] /\ \A s \in Ship : IsFiniteSet(space[s].volume)
    <3>1. \A s \in Ship :
            [position |-> Scenery[s].position, rotation |-> Scenery[s].rotation,
             velocity |-> 0, acceleration |-> 0, volume |-> {}] \in Frame
      BY <1>3 DEF Frame
    <3>2. space \in [Ship -> Frame] /\ \A s \in Ship : space[s].volume = {}
      BY <1>1, <3>1
    <3> QED
      BY <3>2, FS_EmptySet
  <2>3. DOMAIN jolt = Space /\ \A s \in Space : jolt[s] \in [DOMAIN jolt[s] -> BodyPose]
    BY <1>1
  <2>4. rigid \in [DOMAIN rigid -> Rigid] /\ DOMAIN rigid \subseteq (Box \cup Ship) \cap DOMAIN transform
    BY <1>1
  <2>5. /\ alpha \in {0, 1} /\ phase \in {"frame", "stepping", "written"} /\ steps \in 0 .. MaxSteps
        /\ border \in [Box -> [Ship -> Int]] /\ character \in Walking \cup {NoCharacter}
    BY <1>1, NumbersAssumption DEF Far
  <2> QED
    BY <2>1, <2>2, <2>3, <2>4, <2>5 DEF TypeOK
<1>5. \A s \in Ship : Cardinality(DOMAIN jolt[s]) <= ShipMaxBodies
  <2>1. \A s \in Ship : DOMAIN jolt[s] = {}
    BY <1>2, ShipsAre
  <2>2. Cardinality({}) = 0 /\ ShipMaxBodies \in Nat
    BY FS_EmptySet, NumbersAssumption
  <2> QED
    BY <2>1, <2>2
<1>6. EachInOneSpace
  BY <1>2, <1>4, <1>5 DEF EachInOneSpace
<1>7. RestInv
  BY <1>1, <1>3 DEF RestInv
<1> QED
  BY <1>6, <1>7 DEF SpacesInv

\* A body that add_body() makes is one of the world's.
LEMMA RigidAtKeeps ==
  ASSUME SpacesInv, NEW e \in Box \cup Ship, e \in DOMAIN rigid => rigid[e].space = Null,
         NEW t \in Local, RigidAt(e, t)
  PROVE  /\ rigid' \in [DOMAIN rigid' -> Rigid] /\ DOMAIN rigid' = {e} \cup DOMAIN rigid
         /\ rigid'[e].space = Null /\ \A b \in DOMAIN rigid \ {e} : rigid'[b] = rigid[b]
         /\ DOMAIN jolt' = Space /\ \A s \in Ship : jolt'[s] = jolt[s]
         /\ \A s \in Space : jolt'[s] \in [DOMAIN jolt'[s] -> BodyPose]
         /\ \A s \in Space : DOMAIN jolt'[s] = {b \in DOMAIN rigid' : rigid'[b].space = s}
         /\ \A b \in DOMAIN rigid' :
              /\ rigid'[b].position = jolt'[rigid'[b].space][b].position
              /\ rigid'[b].rotation = jolt'[rigid'[b].space][b].rotation
         /\ \A s \in Ship : Cardinality(DOMAIN jolt'[s]) <= ShipMaxBodies
         /\ \A s \in Ship \cap DOMAIN rigid' : rigid'[s].space = Null
<1> DEFINE new == [previous |-> t.position, position |-> t.position,
                   turned |-> t.rotation, rotation |-> t.rotation, space |-> Null]
           body == [position |-> t.position, rotation |-> t.rotation, velocity |-> 0]
<1>1. /\ new \in Rigid /\ new.space = Null /\ body \in BodyPose
      /\ new.position = body.position /\ new.rotation = body.rotation
  BY ShipsAre DEF Rigid, BodyPose, Local
<1>2. /\ rigid' = With(rigid, e, new)
      /\ jolt' = [jolt EXCEPT ![Null] = With(jolt[Null], e, body)]
  BY DEF RigidAt
<1> HIDE DEF new, body
<1>3. /\ rigid \in [DOMAIN rigid -> Rigid] /\ DOMAIN jolt = Space
      /\ \A s \in Space : jolt[s] \in [DOMAIN jolt[s] -> BodyPose]
      /\ \A s \in Space : DOMAIN jolt[s] = {b \in DOMAIN rigid : rigid[b].space = s}
      /\ \A b \in DOMAIN rigid : rigid[b].position = jolt[rigid[b].space][b].position
                                   /\ rigid[b].rotation = jolt[rigid[b].space][b].rotation
      /\ \A s \in Ship : Cardinality(DOMAIN jolt[s]) <= ShipMaxBodies
      /\ \A s \in Ship \cap DOMAIN rigid : rigid[s].space = Null
      /\ \A b \in DOMAIN rigid : rigid[b].space \in Space
  BY SpacesTypes DEF SpacesInv, EachInOneSpace, TypeOK
<1>4. /\ DOMAIN rigid' = {e} \cup DOMAIN rigid /\ rigid'[e] = new
      /\ \A b \in DOMAIN rigid \ {e} : rigid'[b] = rigid[b]
      /\ rigid' \in [DOMAIN rigid' -> Rigid]
  BY <1>1, <1>2, <1>3 DEF With
<1>5. /\ DOMAIN jolt' = Space /\ jolt'[Null] = With(jolt[Null], e, body)
      /\ \A s \in Ship : jolt'[s] = jolt[s]
  BY <1>2, <1>3, ShipsAre
<1>6. /\ DOMAIN jolt'[Null] = {e} \cup DOMAIN jolt[Null] /\ jolt'[Null][e] = body
      /\ \A b \in DOMAIN jolt[Null] \ {e} : jolt'[Null][b] = jolt[Null][b]
      /\ jolt'[Null] \in [DOMAIN jolt'[Null] -> BodyPose]
  BY <1>1, <1>3, <1>5, ShipsAre DEF With
<1>7. ASSUME NEW s \in Space
      PROVE  /\ jolt'[s] \in [DOMAIN jolt'[s] -> BodyPose]
             /\ DOMAIN jolt'[s] = {b \in DOMAIN rigid' : rigid'[b].space = s}
  <2>1. CASE s = Null
    BY <1>1, <1>3, <1>4, <1>6, <2>1
  <2>2. CASE s # Null
    <3>1. s \in Ship /\ jolt'[s] = jolt[s]
      BY <1>5, <2>2, ShipsAre
    <3> QED
      BY <1>1, <1>3, <1>4, <2>2, <3>1
  <2> QED
    BY <2>1, <2>2
<1>8. ASSUME NEW b \in DOMAIN rigid'
      PROVE  /\ rigid'[b].position = jolt'[rigid'[b].space][b].position
             /\ rigid'[b].rotation = jolt'[rigid'[b].space][b].rotation
  <2>1. CASE b = e
    BY <1>1, <1>4, <1>6, <2>1
  <2>2. CASE b # e /\ rigid[b].space = Null
    <3>1. b \in DOMAIN rigid /\ b \in DOMAIN jolt[Null]
      BY <1>3, <1>4, <2>2, ShipsAre
    <3> QED
      BY <1>3, <1>4, <1>6, <2>2, <3>1
  <2>3. CASE b # e /\ rigid[b].space # Null
    <3>1. b \in DOMAIN rigid /\ rigid[b].space \in Ship
      BY <1>3, <1>4, <2>3, ShipsAre
    <3> QED
      BY <1>3, <1>4, <1>5, <2>3, <3>1
  <2> QED
    BY <2>1, <2>2, <2>3
<1> QED
  BY <1>1, <1>3, <1>4, <1>5, <1>7, <1>8

LEMMA TakeShapesKeeps == ASSUME SpacesInv, NEW s \in Ship, TakeShapes(s) PROVE SpacesInv'
<1>1. /\ space' = [space EXCEPT ![s].volume = Volumes[s]]
      /\ IF s \in Hulled THEN RigidAt(s, transform[s]) ELSE UNCHANGED <<rigid, jolt>>
      /\ UNCHANGED <<transform, world, character, alpha, phase, steps, border>>
  BY DEF TakeShapes
<1>2. TypeOK /\ RestInv /\ s \in DOMAIN transform /\ transform[s] \in Local
  BY EntitiesAssumption DEF SpacesInv, EachInOneSpace, TypeOK
<1>3. /\ space' \in [Ship -> Frame] /\ \A x \in Ship : IsFiniteSet(space'[x].volume)
      /\ \A x \in Ship : /\ space'[x].position = space[x].position
                         /\ space'[x].rotation = space[x].rotation
                         /\ space'[x].velocity = space[x].velocity
                         /\ space'[x].acceleration = space[x].acceleration
  <2>1. Volumes[s] \in SUBSET (Int \X Int) /\ IsFiniteSet(Volumes[s])
    BY NumbersAssumption
  <2>2. space \in [Ship -> Frame] /\ \A x \in Ship : IsFiniteSet(space[x].volume)
    BY <1>2 DEF TypeOK
  <2>3. \A x \in Ship : space'[x] = IF x = s THEN [space[s] EXCEPT !.volume = Volumes[s]]
                                    ELSE space[x]
    BY <1>1, <2>2
  <2>4. [space[s] EXCEPT !.volume = Volumes[s]] \in Frame
    BY <2>1, <2>2 DEF Frame
  <2>5. space' \in [Ship -> Frame]
    BY <1>1, <2>2, <2>4
  <2> QED
    BY <2>1, <2>2, <2>3, <2>5 DEF Frame
<1>4. CASE s \notin Hulled
  <2>1. UNCHANGED <<rigid, jolt, transform, character, alpha, phase, steps, border>>
    BY <1>1, <1>4
  <2>2. TypeOK'
    BY <1>2, <1>3, <2>1 DEF TypeOK
  <2> QED
    BY <1>2, <1>3, <2>1, <2>2 DEF SpacesInv, EachInOneSpace, RestInv
<1>5. CASE s \in Hulled
  <2>1. RigidAt(s, transform[s]) /\ UNCHANGED <<transform, character, alpha, phase, steps, border>>
    BY <1>1, <1>5
  <2>2. s \in Box \cup Ship /\ (s \in DOMAIN rigid => rigid[s].space = Null)
    BY SpacesTypes
  <2>3. transform[s].parent = Null
    <3>1. CASE s \in DOMAIN rigid
      BY <2>2, <3>1 DEF SpacesInv, EachInOneSpace
    <3>2. CASE s \notin DOMAIN rigid
      BY <1>2, <3>2 DEF RestInv
    <3> QED
      BY <3>1, <3>2
  <2>4. /\ rigid' \in [DOMAIN rigid' -> Rigid] /\ DOMAIN rigid' = {s} \cup DOMAIN rigid
        /\ rigid'[s].space = Null /\ \A b \in DOMAIN rigid \ {s} : rigid'[b] = rigid[b]
        /\ DOMAIN jolt' = Space /\ \A x \in Space : jolt'[x] \in [DOMAIN jolt'[x] -> BodyPose]
        /\ \A x \in Space : DOMAIN jolt'[x] = {b \in DOMAIN rigid' : rigid'[b].space = x}
        /\ \A b \in DOMAIN rigid' :
              /\ rigid'[b].position = jolt'[rigid'[b].space][b].position
              /\ rigid'[b].rotation = jolt'[rigid'[b].space][b].rotation
        /\ \A x \in Ship : Cardinality(DOMAIN jolt'[x]) <= ShipMaxBodies
        /\ \A x \in Ship \cap DOMAIN rigid' : rigid'[x].space = Null
    BY <1>2, <2>1, <2>2, RigidAtKeeps
  <2>5. TypeOK'
    BY <1>2, <1>3, <2>1, <2>4 DEF TypeOK
  <2>6. \A b \in DOMAIN rigid' : transform'[b].parent = rigid'[b].space
    BY <2>1, <2>3, <2>4 DEF SpacesInv, EachInOneSpace
  <2>7. RestInv'
    BY <1>2, <1>3, <2>1, <2>4 DEF RestInv
  <2> QED
    BY <2>4, <2>5, <2>6, <2>7 DEF SpacesInv, EachInOneSpace
<1> QED
  BY <1>4, <1>5

LEMMA AddBoxKeeps ==
  ASSUME SpacesInv, NEW b \in Box, NEW p \in Int, AddBox(b, p)
  PROVE  SpacesInv'
<1> DEFINE t == [position |-> p, rotation |-> 1, parent |-> Null]
<1>1. /\ b \notin DOMAIN transform /\ transform' = With(transform, b, t) /\ RigidAt(b, t)
      /\ UNCHANGED <<world, space, character, alpha, phase, steps, border>>
  BY DEF AddBox
<1>2. t \in Local /\ t.parent = Null
  BY ShipsAre DEF Local, Parent
<1> HIDE DEF t
<1>3. TypeOK /\ RestInv /\ b \notin DOMAIN rigid
  BY <1>1 DEF SpacesInv, EachInOneSpace, TypeOK
<1>4. /\ DOMAIN transform' = {b} \cup DOMAIN transform /\ transform'[b] = t
      /\ \A e \in DOMAIN transform : transform'[e] = transform[e]
      /\ transform' \in [DOMAIN transform' -> Local]
  BY <1>1, <1>2, <1>3 DEF With, TypeOK
<1>5. /\ rigid' \in [DOMAIN rigid' -> Rigid] /\ DOMAIN rigid' = {b} \cup DOMAIN rigid
      /\ rigid'[b].space = Null /\ \A e \in DOMAIN rigid \ {b} : rigid'[e] = rigid[e]
      /\ DOMAIN jolt' = Space /\ \A x \in Space : jolt'[x] \in [DOMAIN jolt'[x] -> BodyPose]
      /\ \A x \in Space : DOMAIN jolt'[x] = {e \in DOMAIN rigid' : rigid'[e].space = x}
      /\ \A e \in DOMAIN rigid' :
            /\ rigid'[e].position = jolt'[rigid'[e].space][e].position
            /\ rigid'[e].rotation = jolt'[rigid'[e].space][e].rotation
      /\ \A x \in Ship : Cardinality(DOMAIN jolt'[x]) <= ShipMaxBodies
      /\ \A x \in Ship \cap DOMAIN rigid' : rigid'[x].space = Null
  BY <1>1, <1>2, <1>3, RigidAtKeeps
<1>6. TypeOK'
  BY <1>1, <1>3, <1>4, <1>5 DEF TypeOK
<1>7. \A e \in DOMAIN rigid' : transform'[e].parent = rigid'[e].space
  <2>1. \A e \in DOMAIN rigid : e \in DOMAIN transform /\ transform[e].parent = rigid[e].space
    BY DEF SpacesInv, EachInOneSpace, TypeOK
  <2> QED
    BY <1>2, <1>3, <1>4, <1>5, <2>1
<1>8. RestInv'
  <2>1. \A s \in Ship : s \in DOMAIN transform
    BY <1>3, EntitiesAssumption DEF TypeOK
  <2> QED
    BY <1>1, <1>3, <1>4, <1>5, <2>1 DEF RestInv
<1> QED
  BY <1>5, <1>6, <1>7, <1>8 DEF SpacesInv, EachInOneSpace

LEMMA AddCharacterKeeps ==
  ASSUME SpacesInv, NEW p \in Int, AddCharacter(p)
  PROVE  SpacesInv'
<1> DEFINE s == Containing(space, p, WalkerRadius)
           frame == FrameOf(space, s)
           g == GravityIn(space, s)
           up == IF g > 0 THEN -1 ELSE IF g < 0 THEN 1 ELSE frame.rotation
           at == ToLocal(frame, p)
<1>1. /\ character' = [space |-> s, position |-> at, velocity |-> 0, up |-> up,
                       feet |-> p, previous |-> p]
      /\ UNCHANGED <<transform, world, space, jolt, rigid, alpha, phase, steps, border>>
  BY DEF AddCharacter
<1>2. Framed(space)
  BY DEF Framed, SpacesInv, EachInOneSpace, TypeOK
<1>3. s \in Space
  BY ReachedIs, ShipsAre DEF Containing
<1>4. at \in Int /\ up \in {1, -1}
  BY <1>2, <1>3, WorldAndLocal, FrameIs
<1>5. character' \in Walking
  <2> HIDE DEF s, at, up
  <2> QED
    BY <1>1, <1>3, <1>4 DEF Walking
<1>6. TypeOK'
  BY <1>1, <1>5 DEF SpacesInv, EachInOneSpace, TypeOK
<1> QED
  BY <1>1, <1>6 DEF SpacesInv, EachInOneSpace, RestInv

LEMMA WriteKeeps == ASSUME SpacesInv, NEW a \in {0, 1}, Write(a) PROVE SpacesInv'
<1> DEFINE at(e) == IF a = 0 THEN rigid[e].previous ELSE rigid[e].position
           turn(e) == IF a = 0 THEN rigid[e].turned ELSE rigid[e].rotation
           placed(e) == [transform[e] EXCEPT !.position = at(e), !.rotation = turn(e)]
<1>1. /\ transform' = [e \in DOMAIN transform |->
                         IF e \notin DOMAIN rigid THEN transform[e] ELSE placed(e)]
      /\ alpha' = a /\ phase' = "written"
      /\ UNCHANGED <<world, space, jolt, rigid, character, steps, border>>
  BY DEF Write
<1>2. TypeOK
  BY DEF SpacesInv, EachInOneSpace
<1>3. \A e \in DOMAIN rigid : at(e) \in Int /\ turn(e) \in {1, -1}
  BY <1>2 DEF TypeOK, Rigid
<1>4. \A e \in DOMAIN rigid : e \in DOMAIN transform /\ transform[e] \in Local
  BY <1>2 DEF TypeOK
<1>5. \A e \in DOMAIN rigid : placed(e) \in Local /\ placed(e).parent = transform[e].parent
  <2> HIDE DEF at, turn
  <2> QED
    BY <1>3, <1>4, LocalPlaced
<1> HIDE DEF placed
<1>6. /\ DOMAIN transform' = DOMAIN transform /\ transform' \in [DOMAIN transform -> Local]
      /\ \A e \in DOMAIN transform : transform'[e].parent = transform[e].parent
      /\ \A e \in DOMAIN transform \ DOMAIN rigid : transform'[e] = transform[e]
  BY <1>1, <1>2, <1>5 DEF TypeOK
<1>7. TypeOK'
  BY <1>1, <1>2, <1>6 DEF TypeOK
<1>8. RestInv'
  <2>1. \A s \in Ship : s \in DOMAIN transform
    BY <1>2, EntitiesAssumption DEF TypeOK
  <2> QED
    BY <1>1, <1>6, <2>1 DEF SpacesInv, RestInv
<1>9. \A b \in DOMAIN rigid' : transform'[b].parent = rigid'[b].space
  BY <1>1, <1>4, <1>6 DEF SpacesInv, EachInOneSpace
<1> QED
  BY <1>1, <1>7, <1>8, <1>9 DEF SpacesInv, EachInOneSpace

LEMMA UnchangedKeeps ==
  ASSUME SpacesInv, Compose \/ UNCHANGED vars
  PROVE  SpacesInv'
<1>1. /\ UNCHANGED <<transform, space, jolt, rigid, character, alpha, steps, border>>
      /\ phase' = "frame" \/ phase' = phase
  BY DEF Compose, vars
<1>2. TypeOK'
  BY <1>1 DEF SpacesInv, EachInOneSpace, TypeOK
<1> QED
  BY <1>1, <1>2 DEF SpacesInv, EachInOneSpace, RestInv

LEMMA NextKeepsSpaces == SpacesInv /\ [Next]_vars => SpacesInv'
<1> SUFFICES ASSUME SpacesInv, [Next]_vars PROVE SpacesInv'
  OBVIOUS
<1>1. CASE \E s \in Ship : TakeShapes(s)
  BY <1>1, TakeShapesKeeps
<1>2. CASE \E b \in Box : \E p \in Places[b] : AddBox(b, p)
  BY <1>2, AddBoxKeeps, NumbersAssumption
<1>3. CASE \E p \in Places[Walker] : AddCharacter(p)
  BY <1>3, AddCharacterKeeps, NumbersAssumption
<1>4. CASE Step
  BY <1>4, StepKeepsSpaces
<1>5. CASE \E a \in {0, 1} : Write(a)
  BY <1>5, WriteKeeps
<1>6. CASE Compose \/ UNCHANGED vars
  BY <1>6, UnchangedKeeps
<1> QED
  BY <1>1, <1>2, <1>3, <1>4, <1>5, <1>6 DEF Next

THEOREM SpacesStayRight == Spec => []SpacesInv
BY InitIsRight, NextKeepsSpaces, PTL DEF Spec

\* Every rigid body stays in one Jolt system, with the pose it says it has, a
\* child of the ship it is aboard, whatever crosses in a step and whatever has
\* no room: transfer(), move_body() and write_transforms().
THEOREM EachStaysInOneSpace == Spec => []EachInOneSpace
<1>1. SpacesInv => EachInOneSpace
  BY DEF SpacesInv
<1> QED
  BY <1>1, SpacesStayRight, PTL

-----------------------------------------------------------------------------
(* No chatter *)

LEMMA InitBorders == Init => BorderInv
<1> SUFFICES ASSUME Init, NEW b \in Box, NEW s \in Ship
             PROVE  b \notin DOMAIN jolt[s] /\ border[b][s] >= BoxRadius + Hysteresis
  BY DEF BorderInv
<1>1. jolt = [x \in Space |-> <<>>] /\ border = [x \in Box |-> [y \in Ship |-> Far]]
  BY DEF Init
<1>2. DOMAIN jolt[s] = {} /\ border[b][s] = Far
  BY <1>1, ShipsAre
<1>3. BoxRadius + Hysteresis <= Far /\ BoxRadius \in Nat /\ Hysteresis \in Nat
  BY NumbersAssumption
<1> QED
  BY <1>2, <1>3 DEF Far

\* How far out a box was when a step took it across a border.
LEMMA SteppedBorders ==
  ASSUME SpacesInv, Step, NEW b \in Box \cap DOMAIN rigid, NEW s \in Ship
  PROVE  /\ rigid'[b].space \in Space /\ rigid[b].space \in Space
         /\ rigid'[b].space = rigid[b].space \/ s \notin {rigid'[b].space, rigid[b].space}
              => border'[b][s] = border[b][s]
         /\ rigid'[b].space # rigid[b].space /\ s = rigid'[b].space
              => border'[b][s] < BoxRadius
         /\ rigid'[b].space # rigid[b].space /\ s = rigid[b].space
              => border'[b][s] >= BoxRadius + Hysteresis
<1>1. Framed(Followed)
  BY FollowedIs
<1>2. PICK j, r, t : TransferInv(Followed, j, r, t, Len(Boxes)) /\ SteppedTo(j, r, t)
  BY StepIs
<1> DEFINE u == r[b].space
           point == ToWorld(FrameOf(Followed, u), r[b].position)
<1>3. rigid'[b].space = u /\ u \in Space /\ rigid[b].space \in Space
  BY <1>1, <1>2, SteppedBodies, SpacesTypes
<1>4. border'[b][s] = IF u # rigid[b].space /\ s \in {u, rigid[b].space}
                      THEN Outside(Followed[s], point) ELSE border[b][s]
  BY <1>2 DEF SteppedTo
<1>5. u # rigid[b].space =>
        /\ u \in Ship => Outside(Followed[u], point) < BoxRadius
        /\ rigid[b].space \in Ship =>
             Outside(Followed[rigid[b].space], point) >= BoxRadius + Hysteresis
  <2>1. SameInWorld(Followed, j, r, b) /\ Aboard(j, r, t)
    BY <1>2 DEF TransferInv
  <2>2. r[b].position = j[u][b].position
    BY <2>1 DEF Aboard
  <2>3. point = ToWorld(FrameOf(Followed, rigid[b].space), jolt[rigid[b].space][b].position)
    BY <2>1, <2>2 DEF SameInWorld
  <2> HIDE DEF point
  <2> QED
    BY <2>1, <2>3 DEF SameInWorld
<1> HIDE DEF u, point
<1> QED
  BY <1>3, <1>4, <1>5

LEMMA NextKeepsBorders == SpacesInv /\ BorderInv /\ [Next]_vars => BorderInv'
<1> DEFINE Right(bodies, at) == \A b \in Box, s \in Ship :
             IF b \in DOMAIN bodies[s] THEN at[b][s] < BoxRadius
             ELSE at[b][s] >= BoxRadius + Hysteresis
<1> SUFFICES ASSUME SpacesInv, BorderInv, [Next]_vars PROVE Right(jolt', border')
  BY DEF BorderInv
<1>1. Right(jolt, border)
  BY DEF BorderInv
<1>2. CASE border' = border /\ \A s \in Ship : DOMAIN jolt'[s] = DOMAIN jolt[s]
  BY <1>1, <1>2
<1>3. ASSUME NEW e \in Box \cup Ship, e \in DOMAIN rigid => rigid[e].space = Null,
             NEW t \in Local, RigidAt(e, t), border' = border
      PROVE  Right(jolt', border')
  <2>1. \A s \in Ship : jolt'[s] = jolt[s]
    BY <1>3, RigidAtKeeps
  <2> HIDE DEF Right
  <2> QED
    BY <1>2, <1>3, <2>1
<1>4. CASE \E s \in Ship : TakeShapes(s)
  <2>1. PICK s \in Ship : TakeShapes(s)
    BY <1>4
  <2>2. s \in Box \cup Ship /\ (s \in DOMAIN rigid => rigid[s].space = Null)
        /\ transform[s] \in Local
    BY SpacesTypes, EntitiesAssumption DEF SpacesInv, EachInOneSpace, TypeOK
  <2>3. border' = border /\ (RigidAt(s, transform[s]) \/ jolt' = jolt)
    BY <2>1 DEF TakeShapes
  <2> HIDE DEF Right
  <2> QED
    BY <1>2, <1>3, <2>2, <2>3
<1>5. CASE \E b \in Box : \E p \in Places[b] : AddBox(b, p)
  <2>5. PICK b \in Box : \E p \in Places[b] : AddBox(b, p)
    BY <1>5
  <2>1. PICK p \in Places[b] : AddBox(b, p)
    BY <2>5
  <2> DEFINE t == [position |-> p, rotation |-> 1, parent |-> Null]
  <2>2. p \in Int /\ t \in Local
    BY ShipsAre, NumbersAssumption DEF Local, Parent
  <2>3. b \notin DOMAIN rigid /\ RigidAt(b, t) /\ border' = border
    BY <2>1 DEF AddBox, SpacesInv, EachInOneSpace, TypeOK
  <2> HIDE DEF Right, t
  <2> QED
    BY <1>3, <2>2, <2>3
<1>6. CASE Step
  <2>1. SpacesInv' /\ DOMAIN rigid' = DOMAIN rigid
    BY <1>6, NextKeepsSpaces DEF Step
  <2> SUFFICES ASSUME NEW b \in Box, NEW s \in Ship
               PROVE  IF b \in DOMAIN jolt'[s] THEN border'[b][s] < BoxRadius
                      ELSE border'[b][s] >= BoxRadius + Hysteresis
    OBVIOUS
  <2>2. /\ b \in DOMAIN jolt[s] <=> b \in DOMAIN rigid /\ rigid[b].space = s
        /\ b \in DOMAIN jolt'[s] <=> b \in DOMAIN rigid /\ rigid'[b].space = s
    BY <2>1, ShipsAre DEF SpacesInv, EachInOneSpace
  <2>3. CASE b \in DOMAIN rigid
    BY <1>1, <1>6, <2>2, <2>3, SteppedBorders
  <2>4. CASE b \notin DOMAIN rigid
    <3>1. border'[b][s] = border[b][s]
      BY <1>6, <2>4 DEF Step, Borders
    <3> QED
      BY <1>1, <2>2, <2>4, <3>1
  <2> QED
    BY <2>3, <2>4
<1>7. CASE (\E p \in Places[Walker] : AddCharacter(p)) \/ (\E a \in {0, 1} : Write(a))
           \/ Compose \/ UNCHANGED vars
  <2>1. border' = border /\ jolt' = jolt
    BY <1>7 DEF AddCharacter, Write, Compose, vars
  <2> HIDE DEF Right
  <2> QED
    BY <1>2, <2>1
<1> HIDE DEF Right
<1> QED
  BY <1>4, <1>5, <1>6, <1>7 DEF Next

LEMMA NextIsQuiet ==
  SpacesInv /\ BorderInv /\ [Next]_vars =>
    \A b \in Box \cap DOMAIN rigid, s \in Ship :
      rigid'[b].space # rigid[b].space /\ s \in {rigid'[b].space, rigid[b].space}
        => border'[b][s] - border[b][s] \notin -Hysteresis .. Hysteresis
<1> SUFFICES ASSUME SpacesInv, BorderInv, [Next]_vars, NEW b \in Box \cap DOMAIN rigid,
                    NEW s \in Ship, rigid'[b].space # rigid[b].space,
                    s \in {rigid'[b].space, rigid[b].space}
             PROVE  border'[b][s] - border[b][s] \notin -Hysteresis .. Hysteresis
  OBVIOUS
<1>1. Step
  <2>1. ASSUME NEW e \in Box \cup Ship, e \in DOMAIN rigid => rigid[e].space = Null,
               NEW t \in Local, RigidAt(e, t)
        PROVE  rigid'[b].space = rigid[b].space
    BY <2>1, RigidAtKeeps
  <2>2. ASSUME NEW x \in Ship, TakeShapes(x) PROVE rigid'[b].space = rigid[b].space
    <3>1. x \in Box \cup Ship /\ (x \in DOMAIN rigid => rigid[x].space = Null)
          /\ transform[x] \in Local
      BY SpacesTypes, EntitiesAssumption DEF SpacesInv, EachInOneSpace, TypeOK
    <3>2. RigidAt(x, transform[x]) \/ rigid' = rigid
      BY <2>2 DEF TakeShapes
    <3> QED
      BY <2>1, <3>1, <3>2
  <2>3. ASSUME NEW x \in Box, NEW p \in Places[x], AddBox(x, p)
        PROVE  rigid'[b].space = rigid[b].space
    <3> DEFINE t == [position |-> p, rotation |-> 1, parent |-> Null]
    <3>1. p \in Int /\ t \in Local
      BY ShipsAre, NumbersAssumption DEF Local, Parent
    <3>2. x \notin DOMAIN rigid /\ RigidAt(x, t)
      BY <2>3 DEF AddBox, SpacesInv, EachInOneSpace, TypeOK
    <3> HIDE DEF t
    <3> QED
      BY <2>1, <3>1, <3>2
  <2>4. (\E p \in Places[Walker] : AddCharacter(p)) \/ (\E a \in {0, 1} : Write(a))
           \/ Compose \/ UNCHANGED vars => rigid' = rigid
    BY DEF AddCharacter, Write, Compose, vars
  <2> QED
    BY <2>2, <2>3, <2>4 DEF Next
<1>2. SpacesInv' /\ BorderInv'
  BY NextKeepsSpaces, NextKeepsBorders
<1>3. /\ border[b][s] \in Int /\ border'[b][s] \in Int
      /\ BoxRadius \in Nat /\ Hysteresis \in Nat
  BY <1>2, NumbersAssumption DEF SpacesInv, EachInOneSpace, TypeOK
<1>4. /\ s # rigid[b].space => border[b][s] >= BoxRadius + Hysteresis
      /\ s = rigid[b].space => border[b][s] < BoxRadius
  <2>1. b \in DOMAIN jolt[s] <=> rigid[b].space = s
    BY ShipsAre DEF SpacesInv, EachInOneSpace
  <2> QED
    BY <2>1 DEF BorderInv
<1>5. /\ s = rigid'[b].space => border'[b][s] < BoxRadius
      /\ s = rigid[b].space => border'[b][s] >= BoxRadius + Hysteresis
  BY <1>1, SteppedBorders
<1>6. CASE s = rigid'[b].space
  <2>1. border'[b][s] < BoxRadius /\ border[b][s] >= BoxRadius + Hysteresis
    BY <1>4, <1>5, <1>6
  <2>2. border'[b][s] - border[b][s] < -Hysteresis
    BY <1>3, <2>1
  <2> QED
    BY <1>3, <2>2
<1>7. CASE s = rigid[b].space
  <2>1. border[b][s] < BoxRadius /\ border'[b][s] >= BoxRadius + Hysteresis
    BY <1>4, <1>5, <1>7
  <2>2. border'[b][s] - border[b][s] > Hysteresis
    BY <1>3, <2>1
  <2> QED
    BY <1>3, <2>2
<1> QED
  BY <1>6, <1>7

\* A box crosses a ship's border the other way only after it has moved by more
\* than the hysteresis: what destination() and kShipSpaceHysteresis are for.
THEOREM BordersAreQuiet == Spec => NoChatter
<1>1. SpacesInv /\ SpacesInv' /\ BorderInv /\ [Next]_vars =>
        [\A b \in Box \cap DOMAIN rigid, s \in Ship :
           rigid'[b].space # rigid[b].space /\ s \in {rigid'[b].space, rigid[b].space}
             => border'[b][s] - border[b][s] \notin -Hysteresis .. Hysteresis]_vars
  BY NextIsQuiet
<1>2. Spec => []BorderInv
  BY InitBorders, NextKeepsBorders, SpacesStayRight, PTL DEF Spec
<1> QED
  BY <1>1, <1>2, SpacesStayRight, PTL DEF Spec, NoChatter

-----------------------------------------------------------------------------
(* What crosses keeps its motion *)

\* Where a ship is after the last step; Null is the world.
ShipNow(s) == IF s = Null THEN [position |-> 0, rotation |-> 1] ELSE PoseOf(s, 1)

LEMMA NoSpeedOfNull == SpacesInv => Null \notin DOMAIN rigid /\ SpeedOf(Null) = 0
<1> SUFFICES ASSUME SpacesInv PROVE Null \notin DOMAIN rigid
  BY DEF SpeedOf
<1>1. DOMAIN rigid \subseteq Box \cup Ship
  BY SpacesTypes
<1> QED
  BY <1>1, ShipsAre

LEMMA ShipsMotion ==
  ASSUME SpacesInv, NEW s \in Space
  PROVE  LET frame == FrameOf(Followed, s)
         IN  /\ frame.position = ShipNow(s).position /\ frame.rotation = ShipNow(s).rotation
             /\ frame.velocity = SpeedOf(s)
<1>1. CASE s = Null
  <2>1. FrameOf(Followed, s) = Still
    BY <1>1 DEF FrameOf
  <2> QED
    BY <1>1, <2>1, NoSpeedOfNull DEF Still, ShipNow
<1>2. CASE s # Null
  <2>1. s \in Ship /\ FrameOf(Followed, s) = Followed[s] /\ ShipNow(s) = PoseOf(s, 1)
    BY <1>2, ShipsAre DEF FrameOf, ShipNow
  <2> QED
    BY <2>1, FollowedIs
<1> QED
  BY <1>1, <1>2

\* In a step a ship moves on, from the frame that was taken from it, by its
\* speed; it turns about no more.
LEMMA ShipsStep ==
  ASSUME SpacesInv, Step, NEW s \in Space
  PROVE  LET frame == FrameOf(Followed, s)
         IN  /\ ShipNow(s)'.position = frame.position + SpeedOf(s)'
             /\ ShipNow(s)'.rotation = frame.rotation
             /\ SpeedOf(s)' \in Int
             /\ Late(s)' = SpeedOf(s)' - frame.velocity - frame.acceleration
<1> DEFINE frame == FrameOf(Followed, s)
<1>1. SpacesInv' /\ DOMAIN rigid' = DOMAIN rigid
  BY StepKeepsSpaces DEF Step
<1>2. Framed(Followed)
  BY FollowedIs
<1>3. PICK j, r, t : TransferInv(Followed, j, r, t, Len(Boxes)) /\ SteppedTo(j, r, t)
  BY StepIs
<1>4. frame.position \in Int /\ frame.velocity \in Int /\ frame.acceleration \in Int
  BY <1>2, FrameIs
<1>5. CASE s = Null
  <2>1. frame = Still
    BY <1>5 DEF FrameOf
  <2>2. SpeedOf(s)' = 0
    BY <1>1, <1>5, NoSpeedOfNull DEF SpeedOf
  <2>3. ShipNow(s)' = [position |-> 0, rotation |-> 1] /\ Late(s)' = 0
    BY <1>5 DEF ShipNow, Late
  <2> QED
    BY <2>1, <2>2, <2>3 DEF Still
<1>6. CASE s # Null
  <2>1. s \in Ship /\ frame = Followed[s]
    BY <1>6, ShipsAre DEF FrameOf
  <2>2. Late(s)' = SpeedOf(s)' - frame.velocity - frame.acceleration
    BY <1>3, <1>6, <2>1 DEF Late, SteppedTo
  <2>3. CASE s \in DOMAIN rigid
    <3>1. rigid[s].space = Null /\ r[s] = rigid[s] /\ j[Null][s] = jolt[Null][s]
      BY <1>3, <2>1, <2>3, SpacesTypes DEF TransferInv, Unmoved
    <3>2. /\ j[Null][s] \in BodyPose /\ jolt'[Null][s] \in BodyPose
          /\ jolt'[Null][s].rotation = j[Null][s].rotation
          /\ jolt'[Null][s].position = j[Null][s].position + jolt'[Null][s].velocity
          /\ rigid'[s].position = jolt'[Null][s].position
          /\ rigid'[s].rotation = jolt'[Null][s].rotation
      BY <1>2, <1>3, <2>3, <3>1, SteppedBodies
    <3>3. SpeedOf(s)' = jolt'[Null][s].velocity
      BY <1>1, <2>3 DEF SpeedOf
    <3>4. /\ ShipNow(s)'.position = rigid'[s].position
          /\ ShipNow(s)'.rotation = rigid'[s].rotation
      BY <1>1, <1>6, <2>3 DEF ShipNow, PoseOf
    <3>5. frame.position = jolt[Null][s].position /\ frame.rotation = jolt[Null][s].rotation
      <4>1. s \in DOMAIN jolt[Null]
        BY <2>3, <3>1, ShipsAre DEF SpacesInv, EachInOneSpace
      <4> QED
        BY <2>1, <4>1 DEF Followed
    <3> QED
      BY <2>2, <3>1, <3>2, <3>3, <3>4, <3>5 DEF BodyPose
  <2>4. CASE s \notin DOMAIN rigid
    <3>1. SpeedOf(s)' = 0
      BY <1>1, <2>4 DEF SpeedOf
    <3>2. t[s] = transform[s] /\ transform' = t
      BY <1>3, <2>1, ShipsAre, EntitiesAssumption
        DEF TransferInv, SteppedTo, SpacesInv, EachInOneSpace, TypeOK
    <3>3. /\ ShipNow(s)'.position = t[s].position
          /\ ShipNow(s)'.rotation = t[s].rotation
      BY <1>1, <1>6, <2>4, <3>2 DEF ShipNow, PoseOf, AsRoot
    <3>4. frame.position = transform[s].position /\ frame.rotation = transform[s].rotation
      <4>1. s \notin DOMAIN jolt[Null]
        BY <2>4, ShipsAre DEF SpacesInv, EachInOneSpace
      <4>2. Followed[s] = space[s]
        BY <2>1, <4>1 DEF Followed
      <4> QED
        BY <2>1, <2>4, <4>2 DEF SpacesInv, RestInv
    <3> QED
      BY <1>4, <2>2, <3>1, <3>2, <3>3, <3>4
  <2> QED
    BY <2>3, <2>4
<1> QED
  BY <1>5, <1>6

\* What is in a space with the motion in the world it had in another, and is
\* then moved there by a step, has fallen from where it was.
LEMMA FallsOn ==
  ASSUME SpacesInv, Step, NEW s \in Space, NEW u \in Space,
         NEW was \in BodyPose, NEW is \in BodyPose, NEW moved \in BodyPose,
         ToWorld(FrameOf(Followed, u), is.position) = ToWorld(FrameOf(Followed, s), was.position),
         Turned(FrameOf(Followed, u), is.velocity) + FrameOf(Followed, u).velocity =
           Turned(FrameOf(Followed, s), was.velocity) + FrameOf(Followed, s).velocity,
         moved.position = is.position + moved.velocity,
         moved.velocity = 0 \/ moved.velocity = is.velocity + GravityIn(Followed, u)
  PROVE  LET at == ShipNow(s).position + ShipNow(s).rotation * was.position
             speed == SpeedOf(s) + ShipNow(s).rotation * was.velocity
             atNext == ShipNow(u)'.position + ShipNow(u)'.rotation * moved.position
             speedNext == SpeedOf(u)' + ShipNow(u)'.rotation * moved.velocity
         IN  /\ atNext = at + speedNext
             /\ moved.velocity = 0 \/ speedNext = speed + Gravity + Late(u)'
<1> DEFINE from == FrameOf(Followed, s)
           frame == FrameOf(Followed, u)
           g == GravityIn(Followed, u)
           S == SpeedOf(u)'
           late == Late(u)'
           P == ShipNow(u)'.position
           R == ShipNow(u)'.rotation
<1>1. Framed(Followed)
  BY FollowedIs
<1>2. /\ was.position \in Int /\ was.velocity \in Int /\ is.position \in Int
      /\ is.velocity \in Int /\ moved.position \in Int /\ moved.velocity \in Int
  BY DEF BodyPose
<1>3. /\ from.position = ShipNow(s).position /\ from.rotation = ShipNow(s).rotation
      /\ from.velocity = SpeedOf(s)
  BY ShipsMotion
<1>4. P = frame.position + S /\ R = frame.rotation /\ S \in Int
      /\ late = S - frame.velocity - frame.acceleration
  BY ShipsStep
<1>5. /\ frame.position \in Int /\ frame.rotation \in {1, -1} /\ frame.velocity \in Int
      /\ frame.acceleration \in Int
      /\ from.position \in Int /\ from.rotation \in {1, -1} /\ from.velocity \in Int
  BY <1>1, FrameIs
<1>6. g \in Int /\ frame.rotation * g = Gravity - frame.acceleration /\ Gravity \in Int
  BY <1>1, GravityIs, NumbersAssumption DEF Turned
<1>7. /\ frame.position + frame.rotation * is.position =
           from.position + from.rotation * was.position
      /\ frame.rotation * is.velocity + frame.velocity =
           from.rotation * was.velocity + from.velocity
  BY DEF ToWorld, Turned
<1> HIDE DEF from, frame, g, S, late, P, R
<1>8. /\ frame.rotation * is.position \in Int /\ frame.rotation * moved.velocity \in Int
      /\ frame.rotation * is.velocity \in Int
      /\ from.rotation * was.position \in Int /\ from.rotation * was.velocity \in Int
      /\ frame.rotation * moved.position =
           frame.rotation * is.position + frame.rotation * moved.velocity
      /\ frame.rotation * (is.velocity + g) = frame.rotation * is.velocity + frame.rotation * g
  BY <1>2, <1>5, <1>6, TurnIs
<1>9. P + R * moved.position =
        from.position + from.rotation * was.position + (S + R * moved.velocity)
  BY <1>4, <1>5, <1>7, <1>8
<1>10. ASSUME moved.velocity # 0
       PROVE  S + R * moved.velocity
                = from.velocity + from.rotation * was.velocity + Gravity + late
  <2>1. moved.velocity = is.velocity + g
    BY <1>10 DEF g
  <2>2. R * moved.velocity = frame.rotation * is.velocity + (Gravity - frame.acceleration)
    BY <1>4, <1>6, <1>8, <2>1
  <2> QED
    BY <1>4, <1>5, <1>6, <1>7, <1>8, <2>2
<1> QED
  BY <1>3, <1>9, <1>10 DEF S, late, P, R

LEMMA FallsFromIs ==
  ASSUME NEW at, NEW speed, NEW stopped, NEW late, NEW atNext, NEW speedNext, NEW v, NEW lateNext,
         atNext = at + speedNext, v = 0 \/ speedNext = speed + Gravity + lateNext
  PROVE  FallsFrom([at |-> atNext, speed |-> speedNext, stopped |-> v = 0, late |-> lateNext],
                   [at |-> at, speed |-> speed, stopped |-> stopped, late |-> late])
BY DEF FallsFrom

LEMMA BoxesFall ==
  ASSUME SpacesInv, Step, NEW b \in Box \cap DOMAIN rigid
  PROVE  FallsFrom(BoxMotion(b)', BoxMotion(b))
<1>1. Framed(Followed)
  BY FollowedIs
<1>2. PICK j, r, t : TransferInv(Followed, j, r, t, Len(Boxes)) /\ SteppedTo(j, r, t)
  BY StepIs
<1> DEFINE s == rigid[b].space
           u == r[b].space
           was == jolt[s][b]
           is == j[u][b]
           moved == jolt'[u][b]
<1>3. s \in Space /\ was \in BodyPose
  BY RigidTypes DEF SpacesInv
<1>4. /\ u \in Space /\ is \in BodyPose /\ moved \in BodyPose /\ rigid'[b].space = u
      /\ moved.position = is.position + moved.velocity
      /\ moved.velocity = 0 \/ moved.velocity = is.velocity + GravityIn(Followed, u)
  BY <1>1, <1>2, SteppedBodies
<1>5. /\ ToWorld(FrameOf(Followed, u), is.position) = ToWorld(FrameOf(Followed, s), was.position)
      /\ Turned(FrameOf(Followed, u), is.velocity) + FrameOf(Followed, u).velocity =
           Turned(FrameOf(Followed, s), was.velocity) + FrameOf(Followed, s).velocity
  BY <1>2 DEF TransferInv, SameInWorld
<1>6. PICK s0, u0, was0, moved0 : s0 = s /\ u0 = u /\ was0 = was /\ moved0 = moved
  OBVIOUS
<1>7. LET at == ShipNow(s0).position + ShipNow(s0).rotation * was0.position
          speed == SpeedOf(s0) + ShipNow(s0).rotation * was0.velocity
          atNext == ShipNow(u0)'.position + ShipNow(u0)'.rotation * moved0.position
          speedNext == SpeedOf(u0)' + ShipNow(u0)'.rotation * moved0.velocity
      IN  /\ atNext = at + speedNext
          /\ moved0.velocity = 0 \/ speedNext = speed + Gravity + Late(u0)'
  <2> HIDE DEF s, u, was, is, moved
  <2> QED
    BY <1>3, <1>4, <1>5, <1>6, FallsOn
<1>8. /\ BoxMotion(b) =
           [at |-> ShipNow(s0).position + ShipNow(s0).rotation * was0.position,
            speed |-> SpeedOf(s0) + ShipNow(s0).rotation * was0.velocity,
            stopped |-> was0.velocity = 0, late |-> Late(s0)]
      /\ BoxMotion(b)' =
           [at |-> ShipNow(u0)'.position + ShipNow(u0)'.rotation * moved0.position,
            speed |-> SpeedOf(u0)' + ShipNow(u0)'.rotation * moved0.velocity,
            stopped |-> moved0.velocity = 0, late |-> Late(u0)']
  BY <1>4, <1>6 DEF BoxMotion, MotionOf, ShipNow, On, PoseOf, SpeedOf, Late
<1> QED
  BY <1>7, <1>8, FallsFromIs

LEMMA WalkerFalls ==
  ASSUME SpacesInv, Step, character # NoCharacter
  PROVE  FallsFrom(WalkerMotion', WalkerMotion)
<1>1. Framed(Followed)
  BY FollowedIs
<1>2. PICK j, r, t : SteppedTo(j, r, t)
  BY StepIs
<1> DEFINE c == character
           walker == MovedCharacter(Followed)
           s == c.space
           u == walker.space
           was == AsBody(c)
           is == AsBody(walker)
<1>3. c \in Walking
  BY DEF SpacesInv, EachInOneSpace, TypeOK
<1>4. /\ s \in Space /\ was \in BodyPose
      /\ was.position = c.position /\ was.velocity = c.velocity
  BY <1>3, WalkingIs
<1>5. /\ walker \in Walking
      /\ ToWorld(FrameOf(Followed, u), walker.position) = ToWorld(FrameOf(Followed, s), c.position)
      /\ Turned(FrameOf(Followed, u), walker.velocity) + FrameOf(Followed, u).velocity =
           Turned(FrameOf(Followed, s), c.velocity) + FrameOf(Followed, s).velocity
  BY <1>1, <1>3, MovedCharacterIs
<1>6. /\ walker # NoCharacter /\ u \in Space /\ is \in BodyPose
      /\ is.position = walker.position /\ is.velocity = walker.velocity
  BY <1>5, WalkingIs
<1>7. PICK stopped \in BOOLEAN : character' = SteppedCharacter(Followed, walker, stopped)
  BY <1>2, <1>6 DEF SteppedTo
<1> DEFINE moved == Moved(Followed, u, is, stopped)
<1>8. /\ character'.space = u
      /\ character'.position = moved.position /\ character'.velocity = moved.velocity
  BY <1>1, <1>5, <1>7, SteppedCharacterIs
<1>9. /\ moved \in BodyPose /\ moved.position = is.position + moved.velocity
      /\ moved.velocity = 0 \/ moved.velocity = is.velocity + GravityIn(Followed, u)
  BY <1>1, <1>6, MovedIs
<1>10. PICK s0, u0, was0, moved0 : s0 = s /\ u0 = u /\ was0 = was /\ moved0 = moved
  OBVIOUS
<1>11. LET at == ShipNow(s0).position + ShipNow(s0).rotation * was0.position
           speed == SpeedOf(s0) + ShipNow(s0).rotation * was0.velocity
           atNext == ShipNow(u0)'.position + ShipNow(u0)'.rotation * moved0.position
           speedNext == SpeedOf(u0)' + ShipNow(u0)'.rotation * moved0.velocity
       IN  /\ atNext = at + speedNext
           /\ moved0.velocity = 0 \/ speedNext = speed + Gravity + Late(u0)'
  <2>1. /\ ToWorld(FrameOf(Followed, u), is.position) = ToWorld(FrameOf(Followed, s), was.position)
        /\ Turned(FrameOf(Followed, u), is.velocity) + FrameOf(Followed, u).velocity =
             Turned(FrameOf(Followed, s), was.velocity) + FrameOf(Followed, s).velocity
    BY <1>4, <1>5, <1>6
  <2> HIDE DEF s, u, was, is, moved
  <2> QED
    BY <1>4, <1>6, <1>9, <1>10, <2>1, FallsOn
<1>12. /\ WalkerMotion =
            [at |-> ShipNow(s0).position + ShipNow(s0).rotation * was0.position,
             speed |-> SpeedOf(s0) + ShipNow(s0).rotation * was0.velocity,
             stopped |-> was0.velocity = 0, late |-> Late(s0)]
       /\ WalkerMotion' =
            [at |-> ShipNow(u0)'.position + ShipNow(u0)'.rotation * moved0.position,
             speed |-> SpeedOf(u0)' + ShipNow(u0)'.rotation * moved0.velocity,
             stopped |-> moved0.velocity = 0, late |-> Late(u0)']
  <2> HIDE DEF was, moved
  <2> QED
    BY <1>4, <1>8, <1>10 DEF WalkerMotion, MotionOf, ShipNow, On, PoseOf, SpeedOf, Late
<1> QED
  BY <1>11, <1>12, FallsFromIs

LEMMA StepsFall ==
  SpacesInv /\ [Next]_vars =>
    (steps' # steps =>
       /\ \A b \in Box \cap DOMAIN rigid : FallsFrom(BoxMotion(b)', BoxMotion(b))
       /\ character # NoCharacter => FallsFrom(WalkerMotion', WalkerMotion))
<1> SUFFICES ASSUME SpacesInv, [Next]_vars, steps' # steps
             PROVE  /\ \A b \in Box \cap DOMAIN rigid : FallsFrom(BoxMotion(b)', BoxMotion(b))
                    /\ character # NoCharacter => FallsFrom(WalkerMotion', WalkerMotion)
  OBVIOUS
<1>1. Step
  BY DEF Next, TakeShapes, AddBox, AddCharacter, Write, Compose, vars
<1> QED
  BY <1>1, BoxesFall, WalkerFalls

\* What floats gains the world's gravity, and nothing else, also through the
\* step it crosses in: "keeping its pose and its velocity in the world".
THEOREM CrossingsKeepMotion == Spec => CrossingKeepsMotion
<1>1. SpacesInv /\ SpacesInv' /\ [Next]_vars =>
        [steps' # steps =>
           /\ \A b \in Box \cap DOMAIN rigid : FallsFrom(BoxMotion(b)', BoxMotion(b))
           /\ character # NoCharacter => FallsFrom(WalkerMotion', WalkerMotion)]_vars
  BY StepsFall
<1> QED
  BY <1>1, SpacesStayRight, PTL DEF Spec, CrossingKeepsMotion

-----------------------------------------------------------------------------
(* Recursive functions *)

\* What repeats a step from number to number.
Repeated(f, n, V, start, g) ==
  /\ f \in [0 .. n -> V]
  /\ \A i \in 0 .. n : f[i] = IF i = 0 THEN start ELSE g[i][f[i - 1]]

LEMMA Repeats ==
  ASSUME NEW V, NEW start \in V, NEW g \in [Nat -> [V -> V]]
  PROVE  \A n \in Nat : \E f : Repeated(f, n, V, start, g)
<1> DEFINE Right(n, f) == \A i \in 0 .. n : f[i] = IF i = 0 THEN start ELSE g[i][f[i - 1]]
           S == {n \in Nat : \E f \in [0 .. n -> V] : Right(n, f)}
<1>1. 0 \in S
  <2>1. [i \in 0 .. 0 |-> start] \in [0 .. 0 -> V] /\ Right(0, [i \in 0 .. 0 |-> start])
    OBVIOUS
  <2> QED
    BY <2>1
<1>2. ASSUME NEW n \in Nat, n \in S PROVE n + 1 \in S
  <2>1. PICK f \in [0 .. n -> V] : Right(n, f)
    BY <1>2
  <2>2. n \in 0 .. n /\ f[n] \in V /\ g[n + 1][f[n]] \in V
    OBVIOUS
  <2> DEFINE h == [i \in 0 .. n + 1 |-> IF i <= n THEN f[i] ELSE g[n + 1][f[n]]]
  <2>3. h \in [0 .. n + 1 -> V]
    <3>1. ASSUME NEW i \in 0 .. n + 1 PROVE (IF i <= n THEN f[i] ELSE g[n + 1][f[n]]) \in V
      BY <2>2
    <3> QED
      BY <3>1
  <2>4. /\ \A i \in 0 .. n : h[i] = f[i]
        /\ h[n + 1] = g[n + 1][f[n]]
    OBVIOUS
  <2> HIDE DEF h
  <2>5. ASSUME NEW i \in 0 .. n + 1 PROVE h[i] = IF i = 0 THEN start ELSE g[i][h[i - 1]]
    <3>1. CASE i = n + 1
      <4>1. i - 1 = n /\ i # 0 /\ n \in 0 .. n
        BY <3>1
      <4> QED
        BY <2>4, <3>1, <4>1
    <3>2. CASE i # n + 1
      <4>1. i \in 0 .. n /\ (i # 0 => i - 1 \in 0 .. n)
        BY <3>2
      <4>2. f[i] = IF i = 0 THEN start ELSE g[i][f[i - 1]]
        BY <2>1, <4>1
      <4> QED
        BY <2>4, <4>1, <4>2
    <3> QED
      BY <3>1, <3>2
  <2> QED
    BY <2>3, <2>5
<1> HIDE DEF S
<1>3. \A n \in Nat : n \in S
  BY <1>1, <1>2, Induct
<1> QED
  BY <1>3 DEF S, Repeated

\* Poses are placed on each other down a hierarchy.
PlacedOn(f, D, up, pose) ==
  f = [x \in D |-> IF up[x] = Null THEN AsRoot(pose[x]) ELSE On(f[up[x]], pose[x])]

LEMMA PlacedExist ==
  ASSUME NEW D, NEW up, NEW pose, NEW depth, NEW most \in Nat,
         \A x \in D : depth[x] \in 1 .. most,
         \A x \in D : up[x] = Null \/ (up[x] \in D /\ depth[up[x]] < depth[x])
  PROVE  \E f : PlacedOn(f, D, up, pose)
<1> DEFINE To(n) == {x \in D : depth[x] <= n}
           At(f, x) == IF up[x] = Null THEN AsRoot(pose[x]) ELSE On(f[up[x]], pose[x])
           S == {n \in Nat : \E f : DOMAIN f = To(n) /\ \A x \in To(n) : f[x] = At(f, x)}
<1>1. 0 \in S
  <2>1. To(0) = {}
    OBVIOUS
  <2>2. DOMAIN [x \in {} |-> 0] = {}
    OBVIOUS
  <2> HIDE DEF At, To
  <2> QED
    BY <2>1, <2>2
<1>2. ASSUME NEW n \in Nat, n \in S PROVE n + 1 \in S
  <2>1. PICK f : DOMAIN f = To(n) /\ \A x \in To(n) : f[x] = At(f, x)
    BY <1>2
  <2> DEFINE g == [x \in To(n + 1) |-> At(f, x)]
  <2>2. ASSUME NEW x \in To(n + 1) PROVE up[x] = Null \/ up[x] \in To(n)
    BY <2>2
  <2>3. To(n) \subseteq To(n + 1)
    OBVIOUS
  <2>4. \A x \in To(n) : g[x] = f[x]
    <3> HIDE DEF At, To
    <3> QED
      BY <2>1, <2>3
  <2>5. DOMAIN g = To(n + 1) /\ \A x \in To(n + 1) : g[x] = At(f, x)
    <3> HIDE DEF At, To
    <3> QED
      OBVIOUS
  <2> HIDE DEF g, To
  <2>6. \A x \in To(n + 1) : At(g, x) = At(f, x)
    BY <2>2, <2>4
  <2> HIDE DEF At
  <2> QED
    BY <2>5, <2>6
<1> HIDE DEF S
<1>3. most \in S
  BY <1>1, <1>2, Induct
<1>4. To(most) = D
  BY SMT
<1> HIDE DEF To
<1>5. PICK f : DOMAIN f = D /\ \A x \in D : f[x] = At(f, x)
  <2> HIDE DEF At
  <2> QED
    BY <1>3, <1>4 DEF S
<1>6. PlacedOn([x \in D |-> At(f, x)], D, up, pose)
  <2> DEFINE h == [x \in D |-> At(f, x)]
  <2>1. \A x \in D : h[x] = f[x]
    <3> HIDE DEF At
    <3> QED
      BY <1>5
  <2>2. \A x \in D : up[x] # Null => up[x] \in D
    OBVIOUS
  <2>3. ASSUME NEW x \in D PROVE At(h, x) = At(f, x)
    <3> HIDE DEF h
    <3> QED
      BY <2>1, <2>2
  <2>4. h = [x \in D |-> At(h, x)]
    <3>1. \A x \in D : h[x] = At(h, x)
      <4> HIDE DEF At
      <4> QED
        BY <2>3
    <3> HIDE DEF At
    <3> QED
      BY <2>3
  <2> QED
    BY <2>4 DEF PlacedOn
<1> QED
  BY <1>6

-----------------------------------------------------------------------------
(* The hierarchy *)

IsDepth(depth) ==
  /\ depth \in [Entity -> 1 .. MaxDepth]
  /\ \A e \in DOMAIN Scenery : Scenery[e].parent \in Entity => depth[Scenery[e].parent] < depth[e]
  /\ \A s \in Ship, b \in Box : depth[s] < depth[b]

Depth == CHOOSE depth : IsDepth(depth)

LEMMA DepthIs == IsDepth(Depth)
<1>1. \E depth : IsDepth(depth)
  BY HierarchyAssumption DEF IsDepth
<1> QED
  BY <1>1 DEF Depth

\* What has no body is where it was put.
SceneryInv ==
  \A e \in DOMAIN transform \ DOMAIN rigid : e \in DOMAIN Scenery /\ transform[e] = Scenery[e]

\* Between update() and the frame's pass, what has one is written where it is drawn.
WrittenInv ==
  phase = "written" =>
    \A e \in DOMAIN rigid : /\ transform[e].position = PoseOf(e, alpha).position
                            /\ transform[e].rotation = PoseOf(e, alpha).rotation

DrawnInv == SpacesInv /\ SceneryInv /\ WrittenInv

LEMMA HierarchyIs ==
  ASSUME SpacesInv, SceneryInv, NEW x \in DOMAIN transform
  PROVE  /\ x \in Entity /\ x # Null /\ transform[x] \in Local
         /\ Depth[x] \in 1 .. MaxDepth
         /\ CarrierOf(x) = Above(x)
         /\ Above(x) = Null \/ (Above(x) \in DOMAIN transform /\ Depth[Above(x)] < Depth[x])
<1>1. /\ transform \in [DOMAIN transform -> Local] /\ DOMAIN Scenery \subseteq DOMAIN transform
      /\ DOMAIN rigid \subseteq (Box \cup Ship) \cap DOMAIN transform
      /\ \A s \in Ship \cap DOMAIN rigid : rigid[s].space = Null
      /\ \A b \in DOMAIN rigid : transform[b].parent = rigid[b].space
      /\ \A b \in DOMAIN rigid : rigid[b].space \in Space
  BY SpacesTypes DEF SpacesInv, EachInOneSpace, TypeOK
<1>2. DOMAIN Scenery \subseteq Entity /\ Box \subseteq Entity /\ Null \notin Entity
  BY HierarchyAssumption
<1>3. Ship \subseteq DOMAIN Scenery
  BY EntitiesAssumption
<1>4. DOMAIN transform \subseteq Entity /\ Null \notin DOMAIN transform
  BY <1>1, <1>2, <1>3 DEF SceneryInv
<1>5. x \in Entity /\ x # Null /\ transform[x] \in Local /\ Depth[x] \in 1 .. MaxDepth
  BY <1>1, <1>4, DepthIs DEF IsDepth
<1>6. CASE x \in DOMAIN rigid
  <2>1. CarrierOf(x) = rigid[x].space /\ transform[x].parent = rigid[x].space
    BY <1>1, <1>6 DEF CarrierOf
  <2>2. CASE rigid[x].space = Null
    BY <1>4, <1>5, <2>1, <2>2 DEF Above
  <2>3. CASE rigid[x].space # Null
    <3>1. rigid[x].space \in Ship /\ x \in Box
      BY <1>1, <1>6, <2>3, ShipsAre
    <3>2. rigid[x].space \in DOMAIN transform /\ Depth[rigid[x].space] < Depth[x]
      BY <1>1, <1>3, <3>1, DepthIs DEF IsDepth
    <3> QED
      BY <1>5, <2>1, <3>2 DEF Above
  <2> QED
    BY <2>2, <2>3
<1>7. CASE x \notin DOMAIN rigid
  <2>1. CarrierOf(x) = Above(x) /\ x \in DOMAIN Scenery /\ transform[x] = Scenery[x]
    BY <1>7 DEF CarrierOf, SceneryInv
  <2>2. Scenery[x].parent \in Entity => Depth[Scenery[x].parent] < Depth[x]
    BY <2>1, DepthIs DEF IsDepth
  <2> QED
    BY <1>4, <1>5, <2>1, <2>2 DEF Above
<1> QED
  BY <1>6, <1>7

LEMMA InitIsDrawn == Init => SceneryInv /\ WrittenInv
<1> SUFFICES ASSUME Init PROVE SceneryInv /\ WrittenInv
  OBVIOUS
<1>1. transform = Scenery /\ DOMAIN rigid = {}
  BY DEF Init
<1> QED
  BY <1>1 DEF SceneryInv, WrittenInv

LEMMA NextKeepsDrawn == DrawnInv /\ [Next]_vars => SceneryInv' /\ WrittenInv'
<1> SUFFICES ASSUME DrawnInv, [Next]_vars PROVE SceneryInv' /\ WrittenInv'
  OBVIOUS
<1>1. SpacesInv /\ SceneryInv /\ WrittenInv
  BY DEF DrawnInv
<1>2. CASE Step
  <2>1. PICK j, r, t : TransferInv(Followed, j, r, t, Len(Boxes)) /\ SteppedTo(j, r, t)
    BY <1>1, <1>2, StepIs
  <2>2. /\ transform' = t /\ DOMAIN t = DOMAIN transform /\ DOMAIN rigid' = DOMAIN rigid
        /\ phase' = "stepping"
        /\ \A e \in DOMAIN transform \ DOMAIN rigid : t[e] = transform[e]
    BY <2>1 DEF SteppedTo, TransferInv, Aboard
  <2> QED
    BY <1>1, <2>2 DEF SceneryInv, WrittenInv
<1>3. ASSUME NEW s \in Ship, TakeShapes(s) PROVE SceneryInv' /\ WrittenInv'
  <2>1. transform' = transform /\ phase' = phase /\ phase = "frame"
    BY <1>3 DEF TakeShapes
  <2>2. DOMAIN rigid \subseteq DOMAIN rigid'
    BY <1>3 DEF TakeShapes, RigidAt, With
  <2> QED
    BY <1>1, <2>1, <2>2 DEF SceneryInv, WrittenInv
<1>4. ASSUME NEW b \in Box, NEW p \in Places[b], AddBox(b, p) PROVE SceneryInv' /\ WrittenInv'
  <2>1. /\ phase' = phase /\ phase = "frame" /\ DOMAIN transform' = {b} \cup DOMAIN transform
        /\ \A e \in DOMAIN transform \ {b} : transform'[e] = transform[e]
        /\ DOMAIN rigid' = {b} \cup DOMAIN rigid
    BY <1>4 DEF AddBox, RigidAt, With
  <2> QED
    BY <1>1, <2>1 DEF SceneryInv, WrittenInv
<1>5. ASSUME NEW p, AddCharacter(p) PROVE SceneryInv' /\ WrittenInv'
  <2>1. UNCHANGED <<transform, rigid, phase>> /\ phase = "frame"
    BY <1>5 DEF AddCharacter
  <2> QED
    BY <1>1, <2>1 DEF SceneryInv, WrittenInv
<1>6. ASSUME NEW a \in {0, 1}, Write(a) PROVE SceneryInv' /\ WrittenInv'
  <2> DEFINE P(e) == IF a = 0 THEN rigid[e].previous ELSE rigid[e].position
             Q(e) == IF a = 0 THEN rigid[e].turned ELSE rigid[e].rotation
  <2>1. /\ rigid' = rigid /\ alpha' = a
        /\ transform' = [e \in DOMAIN transform |->
             IF e \notin DOMAIN rigid THEN transform[e]
             ELSE [transform[e] EXCEPT !.position = P(e), !.rotation = Q(e)]]
    BY <1>6 DEF Write
  <2>2. DOMAIN transform' = DOMAIN transform
    BY <2>1
  <2>3. \A e \in DOMAIN transform \ DOMAIN rigid : transform'[e] = transform[e]
    BY <2>1
  <2>4. ASSUME NEW e \in DOMAIN rigid
        PROVE  transform'[e].position = P(e) /\ transform'[e].rotation = Q(e)
    <3>1. e \in DOMAIN transform /\ transform[e] \in Local
      BY <1>1, <2>4 DEF SpacesInv, EachInOneSpace, TypeOK
    <3>2. transform'[e] = [transform[e] EXCEPT !.position = P(e), !.rotation = Q(e)]
      BY <2>1, <2>4, <3>1
    <3> HIDE DEF P, Q
    <3> QED
      BY <3>1, <3>2 DEF Local
  <2>5. SceneryInv'
    BY <1>1, <2>1, <2>2, <2>3 DEF SceneryInv
  <2>6. WrittenInv'
    BY <2>1, <2>4 DEF WrittenInv, PoseOf
  <2> QED
    BY <2>5, <2>6
<1>7. CASE Compose
  <2>1. UNCHANGED <<transform, rigid>> /\ phase' = "frame"
    BY <1>7 DEF Compose
  <2> QED
    BY <1>1, <2>1 DEF SceneryInv, WrittenInv
<1>8. CASE UNCHANGED vars
  <2>1. UNCHANGED <<transform, rigid, phase, alpha>>
    BY <1>8 DEF vars
  <2> QED
    BY <1>1, <2>1 DEF SceneryInv, WrittenInv, PoseOf
<1> QED
  BY <1>2, <1>3, <1>4, <1>5, <1>6, <1>7, <1>8 DEF Next

-----------------------------------------------------------------------------
(* Where things are shown *)

ShownTo(f, a) ==
  f = [x \in DOMAIN transform |->
         IF CarrierOf(x) = Null THEN PoseOf(x, a) ELSE On(f[CarrierOf(x)], PoseOf(x, a))]

\* Shown is what its recursive definition says.
ShownInv ==
  \A a \in {0, 1} : \E f : ShownTo(f, a) /\ \A x \in DOMAIN transform : Shown(x, a) = f[x]

LEMMA ShownIs == SpacesInv /\ SceneryInv => ShownInv
<1> SUFFICES ASSUME SpacesInv, SceneryInv, NEW a \in {0, 1}
             PROVE  \E f : ShownTo(f, a) /\ \A x \in DOMAIN transform : Shown(x, a) = f[x]
  BY DEF ShownInv
<1> DEFINE D == DOMAIN transform
           up == [x \in D |-> CarrierOf(x)]
           pose == [x \in D |-> PoseOf(x, a)]
<1>1. \A x \in D : Depth[x] \in 1 .. MaxDepth
  BY HierarchyIs
<1>2. \A x \in D : up[x] = Null \/ (up[x] \in D /\ Depth[up[x]] < Depth[x])
  BY HierarchyIs
<1>3. \E f : PlacedOn(f, D, up, pose)
  <2>1. MaxDepth \in Nat
    BY HierarchyAssumption
  <2> HIDE DEF D, up, pose
  <2> QED
    BY <1>1, <1>2, <2>1, PlacedExist
<1>4. \A x \in D : AsRoot(PoseOf(x, a)) = PoseOf(x, a)
  BY DEF AsRoot, PoseOf
<1>5. \E f : ShownTo(f, a)
  <2>1. PICK f : PlacedOn(f, D, up, pose)
    BY <1>3
  <2>2. f = [x \in D |-> IF up[x] = Null THEN AsRoot(pose[x]) ELSE On(f[up[x]], pose[x])]
    BY <2>1 DEF PlacedOn
  <2>3. \A x \in D : up[x] = CarrierOf(x) /\ pose[x] = PoseOf(x, a)
    OBVIOUS
  <2> HIDE DEF up, pose
  <2>4. f = [x \in D |-> IF CarrierOf(x) = Null THEN PoseOf(x, a) ELSE On(f[CarrierOf(x)], PoseOf(x, a))]
    BY <1>4, <2>2, <2>3
  <2> QED
    BY <2>4 DEF ShownTo
<1> DEFINE shown == CHOOSE f : ShownTo(f, a)
<1>6. ShownTo(shown, a)
  BY <1>5
<1>7. \A x \in D : Shown(x, a) = shown[x]
  BY DEF Shown, ShownTo
<1> QED
  BY <1>6, <1>7

LEMMA ShownNext == SpacesInv' /\ SceneryInv' => ShownInv'
BY ShownIs, PTL

-----------------------------------------------------------------------------
(* A step begins where the last one ended *)

LEMMA PosedIs ==
  ASSUME NEW p, NEW q, NEW e, NEW a, e \in DOMAIN rigid,
         p = IF a = 0 THEN rigid[e].previous ELSE rigid[e].position,
         q = IF a = 0 THEN rigid[e].turned ELSE rigid[e].rotation
  PROVE  PoseOf(e, a) = [position |-> p, rotation |-> q]
BY DEF PoseOf

\* What the step makes of the poses before it, and of who carries them.
LEMMA StepPoses ==
  ASSUME SpacesInv, SceneryInv, Step
  PROVE  /\ DOMAIN transform' = DOMAIN transform /\ DOMAIN rigid' = DOMAIN rigid
         /\ \A e \in DOMAIN transform \ (Box \cap DOMAIN rigid) :
              CarrierOf(e)' = CarrierOf(e) /\ PoseOf(e, 0)' = PoseOf(e, 1)
         /\ \A e \in Box \cap DOMAIN rigid :
              LET from == FrameOf(Followed, CarrierOf(e))
                  to == FrameOf(Followed, CarrierOf(e)')
              IN  /\ CarrierOf(e) \in Space /\ CarrierOf(e)' \in Space
                  /\ ToWorld(to, (PoseOf(e, 0)').position) = ToWorld(from, PoseOf(e, 1).position)
                  /\ to.rotation * (PoseOf(e, 0)').rotation = from.rotation * PoseOf(e, 1).rotation
<1>1. PICK j, r, t : TransferInv(Followed, j, r, t, Len(Boxes)) /\ SteppedTo(j, r, t)
  BY StepIs
<1>2. /\ transform' = t /\ DOMAIN t = DOMAIN transform /\ DOMAIN rigid' = DOMAIN rigid
      /\ DOMAIN r = DOMAIN rigid
      /\ \A e \in DOMAIN transform \ (Box \cap DOMAIN rigid) : t[e] = transform[e]
      /\ \A e \in Ship \cap DOMAIN rigid : r[e] = rigid[e]
      /\ \A e \in DOMAIN rigid : rigid'[e] =
           [r[e] EXCEPT !.previous = r[e].position, !.turned = r[e].rotation,
                        !.position = jolt'[r[e].space][e].position,
                        !.rotation = jolt'[r[e].space][e].rotation]
  BY <1>1 DEF SteppedTo, TransferInv, Aboard, Unmoved
<1>3. DOMAIN rigid \subseteq DOMAIN transform /\ DOMAIN rigid \subseteq Box \cup Ship
  BY SpacesTypes
<1>4. ASSUME NEW e \in DOMAIN rigid
      PROVE  /\ rigid'[e].space = r[e].space /\ r[e].space \in Space
             /\ rigid'[e].previous = r[e].position /\ rigid'[e].turned = r[e].rotation
  <2>1. Aboard(j, r, t)
    BY <1>1 DEF TransferInv
  <2>2. r[e] \in Rigid
    BY <2>1 DEF Aboard
  <2> DEFINE p == jolt'[r[e].space][e].position
             q == jolt'[r[e].space][e].rotation
  <2>3. rigid'[e] = [r[e] EXCEPT !.previous = r[e].position, !.turned = r[e].rotation,
                                 !.position = p, !.rotation = q]
    BY <1>2
  <2> HIDE DEF p, q
  <2> QED
    BY <2>2, <2>3 DEF Rigid
<1>5. ASSUME NEW e \in DOMAIN rigid
      PROVE  /\ CarrierOf(e)' = r[e].space /\ CarrierOf(e) = rigid[e].space
             /\ PoseOf(e, 0)' = [position |-> r[e].position, rotation |-> r[e].rotation]
             /\ PoseOf(e, 1) = [position |-> rigid[e].position, rotation |-> rigid[e].rotation]
  <2>1. e \in DOMAIN rigid'
    BY <1>2
  <2>2. CarrierOf(e)' = rigid'[e].space
    BY <2>1 DEF CarrierOf
  <2>3. PoseOf(e, 0)' = [position |-> rigid'[e].previous, rotation |-> rigid'[e].turned]
    BY <2>1 DEF PoseOf
  <2>4. /\ CarrierOf(e) = rigid[e].space
        /\ PoseOf(e, 1) = [position |-> rigid[e].position, rotation |-> rigid[e].rotation]
    BY DEF CarrierOf, PoseOf
  <2> QED
    BY <1>4, <2>2, <2>3, <2>4
<1>6. ASSUME NEW e \in DOMAIN transform \ (Box \cap DOMAIN rigid)
      PROVE  CarrierOf(e)' = CarrierOf(e) /\ PoseOf(e, 0)' = PoseOf(e, 1)
  <2>1. CASE e \in DOMAIN rigid
    <3>1. r[e] = rigid[e]
      BY <1>2, <1>3, <2>1
    <3> QED
      BY <1>5, <2>1, <3>1
  <2>2. CASE e \notin DOMAIN rigid
    <3>1. transform'[e] = transform[e] /\ DOMAIN transform' = DOMAIN transform
      BY <1>2
    <3> QED
      BY <1>2, <2>2, <3>1 DEF CarrierOf, PoseOf, AsRoot, Above
  <2> QED
    BY <2>1, <2>2
<1>7. ASSUME NEW e \in Box \cap DOMAIN rigid
      PROVE  LET from == FrameOf(Followed, rigid[e].space)
                 to == FrameOf(Followed, r[e].space)
             IN  /\ rigid[e].space \in Space /\ r[e].space \in Space
                 /\ ToWorld(to, r[e].position) = ToWorld(from, rigid[e].position)
                 /\ to.rotation * r[e].rotation = from.rotation * rigid[e].rotation
  <2>1. SameInWorld(Followed, j, r, e) /\ Aboard(j, r, t)
    BY <1>1 DEF TransferInv
  <2>2. r[e].position = j[r[e].space][e].position
    BY <2>1 DEF Aboard
  <2>3. rigid[e].position = jolt[rigid[e].space][e].position /\ rigid[e].space \in Space
    BY RigidTypes DEF SpacesInv, EachInOneSpace
  <2> QED
    BY <1>4, <2>1, <2>2, <2>3 DEF SameInWorld
<1>8. ASSUME NEW e \in Box \cap DOMAIN rigid
      PROVE  LET from == FrameOf(Followed, CarrierOf(e))
                 to == FrameOf(Followed, CarrierOf(e)')
             IN  /\ CarrierOf(e) \in Space /\ CarrierOf(e)' \in Space
                 /\ ToWorld(to, (PoseOf(e, 0)').position) = ToWorld(from, PoseOf(e, 1).position)
                 /\ to.rotation * (PoseOf(e, 0)').rotation = from.rotation * PoseOf(e, 1).rotation
  BY <1>5, <1>7
<1> QED
  BY <1>2, <1>6, <1>8

LEMMA StepShows ==
  ASSUME SpacesInv, SceneryInv, SpacesInv', SceneryInv', Step
  PROVE  \A e \in DOMAIN transform : Shown(e, 0)' = Shown(e, 1)
<1>1. PICK f : ShownTo(f, 1) /\ \A x \in DOMAIN transform : Shown(x, 1) = f[x]
  BY ShownIs DEF ShownInv
<1>2. PICK g : ShownTo(g, 0)' /\ \A x \in DOMAIN transform' : Shown(x, 0)' = g[x]
  BY ShownNext DEF ShownInv
<1> DEFINE D == DOMAIN transform
           wasOn == [x \in D |-> CarrierOf(x)]
           isOn == [x \in D |-> CarrierOf(x)']
           was == [x \in D |-> PoseOf(x, 1)]
           is == [x \in D |-> PoseOf(x, 0)']
<1>3. /\ D = DOMAIN transform' /\ DOMAIN rigid' = DOMAIN rigid
      /\ \A x \in D \ (Box \cap DOMAIN rigid) : isOn[x] = wasOn[x] /\ is[x] = was[x]
      /\ \A x \in Box \cap DOMAIN rigid :
              LET from == FrameOf(Followed, wasOn[x])
                  to == FrameOf(Followed, isOn[x])
              IN  /\ wasOn[x] \in Space /\ isOn[x] \in Space
                  /\ ToWorld(to, is[x].position) = ToWorld(from, was[x].position)
                  /\ to.rotation * is[x].rotation = from.rotation * was[x].rotation
  <2>1. DOMAIN rigid \subseteq D
    BY SpacesTypes
  <2> QED
    BY <2>1, StepPoses
<1>4. \A x \in D : f[x] = IF wasOn[x] = Null THEN was[x] ELSE On(f[wasOn[x]], was[x])
  BY <1>1 DEF ShownTo
<1>5. \A x \in D : g[x] = IF isOn[x] = Null THEN is[x] ELSE On(g[isOn[x]], is[x])
  BY <1>2, <1>3 DEF ShownTo
<1>6. \A s \in Ship : s \in D /\ wasOn[s] = Null /\ isOn[s] = Null /\ is[s] = was[s]
                      /\ f[s] = was[s] /\ g[s] = is[s]
                      /\ Followed[s].position = was[s].position
                      /\ Followed[s].rotation = was[s].rotation
  <2> SUFFICES ASSUME NEW s \in Ship
               PROVE  s \in D /\ wasOn[s] = Null /\ isOn[s] = Null /\ is[s] = was[s]
                      /\ f[s] = was[s] /\ g[s] = is[s]
                      /\ Followed[s].position = was[s].position
                      /\ Followed[s].rotation = was[s].rotation
    OBVIOUS
  <2>1. s \in D
    BY EntitiesAssumption DEF SpacesInv, EachInOneSpace, TypeOK
  <2>2. s \notin Box
    BY ShipsAre
  <2>3. CarrierOf(s) = Null
    <3>1. CASE s \in DOMAIN rigid
      BY <3>1, SpacesTypes DEF CarrierOf
    <3>2. CASE s \notin DOMAIN rigid
      <4>1. transform[s].parent = Null
        BY <3>2 DEF SpacesInv, RestInv
      <4> QED
        BY <3>2, <4>1 DEF CarrierOf, Above
    <3> QED
      BY <3>1, <3>2
  <2>4. Followed[s].position = PoseOf(s, 1).position /\ Followed[s].rotation = PoseOf(s, 1).rotation
    BY FollowedIs
  <2>5. wasOn[s] = CarrierOf(s) /\ was[s] = PoseOf(s, 1)
    BY <2>1
  <2> HIDE DEF wasOn, isOn, was, is
  <2> QED
    BY <1>3, <1>4, <1>5, <2>1, <2>2, <2>3, <2>4, <2>5
<1>7. ASSUME NEW x \in D PROVE wasOn[x] = Null \/ (wasOn[x] \in D /\ Depth[wasOn[x]] < Depth[x])
  BY HierarchyIs
<1>8. \A x \in D : Depth[x] \in 1 .. MaxDepth
  BY HierarchyIs
<1>9. ASSUME NEW x \in Box \cap DOMAIN rigid PROVE g[x] = f[x]
  <2>1. x \in D
    BY SpacesTypes
  <2>2. was[x] = [position |-> was[x].position, rotation |-> was[x].rotation]
    BY <1>9, <2>1 DEF PoseOf
  <2>3. is[x] = [position |-> is[x].position, rotation |-> is[x].rotation]
    BY <1>3, <1>9, <2>1 DEF PoseOf
  <2>4. f[x] = [position |-> ToWorld(FrameOf(Followed, wasOn[x]), was[x].position),
                rotation |-> FrameOf(Followed, wasOn[x]).rotation * was[x].rotation]
    <3>1. wasOn[x] \in Space
      BY <1>3
    <3>2. was[x].position \in Int /\ was[x].rotation \in Int
      <4>1. rigid[x] \in Rigid
        BY RigidTypes DEF SpacesInv
      <4> QED
        BY <2>1, <4>1 DEF PoseOf, Rigid
    <3> HIDE DEF wasOn, isOn, was, is
    <3>3. CASE wasOn[x] = Null
      BY <1>4, <2>1, <2>2, <3>2, <3>3 DEF FrameOf, Still, ToWorld
    <3>4. CASE wasOn[x] # Null
      <4>1. wasOn[x] \in Ship
        BY <3>1, <3>4, ShipsAre
      <4>2. /\ f[wasOn[x]].position = Followed[wasOn[x]].position
            /\ f[wasOn[x]].rotation = Followed[wasOn[x]].rotation
        BY <1>6, <4>1
      <4> QED
        BY <1>4, <2>1, <3>4, <4>2 DEF FrameOf, On, ToWorld
    <3> QED
      BY <3>3, <3>4
  <2>5. g[x] = [position |-> ToWorld(FrameOf(Followed, isOn[x]), is[x].position),
                rotation |-> FrameOf(Followed, isOn[x]).rotation * is[x].rotation]
    <3>1. isOn[x] \in Space
      BY <1>3
    <3>2. is[x].position \in Int /\ is[x].rotation \in Int
      <4>1. x \in DOMAIN rigid' /\ rigid'[x] \in Rigid
        BY <1>3 DEF SpacesInv, EachInOneSpace, TypeOK
      <4> QED
        BY <2>1, <4>1 DEF PoseOf, Rigid
    <3> HIDE DEF wasOn, isOn, was, is
    <3>3. CASE isOn[x] = Null
      BY <1>5, <2>1, <2>3, <3>2, <3>3 DEF FrameOf, Still, ToWorld
    <3>4. CASE isOn[x] # Null
      <4>1. isOn[x] \in Ship
        BY <3>1, <3>4, ShipsAre
      <4>2. /\ g[isOn[x]].position = Followed[isOn[x]].position
            /\ g[isOn[x]].rotation = Followed[isOn[x]].rotation
        BY <1>6, <4>1
      <4> QED
        BY <1>5, <2>1, <3>4, <4>2 DEF FrameOf, On, ToWorld
    <3> QED
      BY <3>3, <3>4
  <2> QED
    BY <1>3, <1>9, <2>4, <2>5
<1> DEFINE S == {n \in Nat : \A x \in D : Depth[x] <= n => g[x] = f[x]}
<1>10. 0 \in S
  BY <1>8
<1>11. ASSUME NEW n \in Nat, n \in S PROVE n + 1 \in S
  <2> SUFFICES ASSUME NEW x \in D, Depth[x] <= n + 1 PROVE g[x] = f[x]
    OBVIOUS
  <2>1. CASE x \in Box \cap DOMAIN rigid
    BY <1>9, <2>1
  <2>2. CASE x \notin Box \cap DOMAIN rigid
    <3>1. isOn[x] = wasOn[x] /\ is[x] = was[x]
      BY <1>3, <2>2
    <3>2. wasOn[x] # Null => g[wasOn[x]] = f[wasOn[x]]
      <4> SUFFICES ASSUME wasOn[x] # Null PROVE g[wasOn[x]] = f[wasOn[x]]
        OBVIOUS
      <4>1. wasOn[x] \in D /\ Depth[wasOn[x]] < Depth[x]
        BY <1>7
      <4>2. Depth[wasOn[x]] <= n
        BY <1>8, <4>1
      <4> HIDE DEF wasOn
      <4> QED
        BY <1>11, <4>1, <4>2
    <3> HIDE DEF wasOn, isOn, was, is
    <3> QED
      BY <1>4, <1>5, <3>1, <3>2
  <2> QED
    BY <2>1, <2>2
<1> HIDE DEF S
<1>12. \A n \in Nat : n \in S
  BY <1>10, <1>11, Induct
<1>13. MaxDepth \in S
  BY <1>12, HierarchyAssumption
<1> QED
  BY <1>1, <1>2, <1>3, <1>8, <1>13, HierarchyAssumption DEF S

-----------------------------------------------------------------------------
(* The pass *)

Pose == [position : Int, rotation : {1, -1}]

LEMMA PosesAre ==
  ASSUME SpacesInv, SceneryInv, NEW x \in DOMAIN transform
  PROVE  /\ AsRoot(transform[x]) \in Pose
         /\ \A p \in Pose : On(p, transform[x]) \in Pose
<1>1. transform[x].position \in Int /\ transform[x].rotation \in {1, -1}
  BY HierarchyIs DEF Local
<1>2. AsRoot(transform[x]) \in Pose
  BY <1>1 DEF AsRoot, Pose
<1>3. ASSUME NEW p \in Pose PROVE On(p, transform[x]) \in Pose
  <2>1. p.position \in Int /\ p.rotation \in {1, -1}
    BY DEF Pose
  <2>2. p.rotation * transform[x].position \in Int /\ p.rotation * transform[x].rotation \in {1, -1}
    BY <1>1, <2>1, TurnIs, TurnsOfTurns
  <2>3. p.position + p.rotation * transform[x].position \in Int
    BY <2>1, <2>2
  <2> QED
    BY <2>2, <2>3 DEF On, Pose
<1> QED
  BY <1>2, <1>3

AscendsTo(f, done, e) ==
  f = [n \in 0 .. MaxDepth |->
         IF n = 0 THEN e
         ELSE IF f[n - 1] \in done \cup {Null} THEN f[n - 1] ELSE Above(f[n - 1])]

LEMMA AscentIs ==
  ASSUME SpacesInv, SceneryInv, NEW done \in SUBSET DOMAIN transform, NEW e \in DOMAIN transform
  PROVE  LET at == Ascent(done, e)
         IN  /\ at \in [0 .. MaxDepth -> DOMAIN transform \cup {Null}] /\ at[0] = e
             /\ \A n \in 1 .. MaxDepth :
                  at[n] = IF at[n - 1] \in done \cup {Null} THEN at[n - 1] ELSE Above(at[n - 1])
<1> DEFINE V == DOMAIN transform \cup {Null}
           Up(x) == IF x \in done \cup {Null} THEN x ELSE Above(x)
           g == [i \in Nat |-> [x \in V |-> Up(x)]]
<1>1. MaxDepth \in Nat
  BY HierarchyAssumption
<1>2. \A x \in V : Up(x) \in V
  BY HierarchyIs
<1>3. g \in [Nat -> [V -> V]]
  <2> HIDE DEF Up, V
  <2> QED
    BY <1>2
<1>4. e \in V
  OBVIOUS
<1>5. PICK f \in [0 .. MaxDepth -> V] :
        \A i \in 0 .. MaxDepth : f[i] = IF i = 0 THEN e ELSE g[i][f[i - 1]]
  <2> HIDE DEF V, g
  <2>1. \E f : Repeated(f, MaxDepth, V, e, g)
    BY <1>1, <1>3, <1>4, Repeats
  <2> QED
    BY <2>1 DEF Repeated
<1>6. \A i \in 0 .. MaxDepth : f[i] = IF i = 0 THEN e ELSE Up(f[i - 1])
  <2> SUFFICES ASSUME NEW i \in 0 .. MaxDepth PROVE f[i] = IF i = 0 THEN e ELSE Up(f[i - 1])
    OBVIOUS
  <2>1. i # 0 => i \in Nat /\ f[i - 1] \in V
    BY <1>1
  <2>2. i # 0 => g[i][f[i - 1]] = Up(f[i - 1])
    <3> HIDE DEF V, Up
    <3> QED
      BY <2>1
  <2> HIDE DEF V, Up, g
  <2> QED
    BY <1>5, <2>2
<1>7. f = [i \in 0 .. MaxDepth |-> IF i = 0 THEN e ELSE Up(f[i - 1])]
  <2> HIDE DEF V, Up, g
  <2> QED
    BY <1>6
<1>8. \E h : AscendsTo(h, done, e)
  BY <1>7 DEF AscendsTo
<1>9. Ascent(done, e) = CHOOSE h : AscendsTo(h, done, e)
  BY DEF Ascent, AscendsTo
<1> DEFINE at == Ascent(done, e)
<1>10. AscendsTo(at, done, e)
  BY <1>8, <1>9
<1>11. DOMAIN at = 0 .. MaxDepth /\ \A n \in 0 .. MaxDepth : at[n] = IF n = 0 THEN e ELSE Up(at[n - 1])
  <2> HIDE DEF at
  <2> QED
    BY <1>10 DEF AscendsTo
<1> HIDE DEF at, Up, g
<1> DEFINE S == {n \in Nat : n <= MaxDepth => at[n] \in V}
<1>12. 0 \in S
  BY <1>1, <1>4, <1>11
<1>13. ASSUME NEW n \in Nat, n \in S PROVE n + 1 \in S
  <2> SUFFICES ASSUME n + 1 <= MaxDepth PROVE at[n + 1] \in V
    OBVIOUS
  <2>1. at[n] \in V /\ n + 1 \in 0 .. MaxDepth /\ (n + 1) - 1 = n /\ n + 1 # 0
    BY <1>1, <1>13
  <2>2. at[n + 1] = Up(at[n])
    BY <1>11, <2>1
  <2> HIDE DEF V
  <2> QED
    BY <1>2, <2>1, <2>2
<1> HIDE DEF S
<1>14. \A n \in Nat : n \in S
  BY <1>12, <1>13, Induct
<1>15. \A n \in 0 .. MaxDepth : at[n] \in V
  <2> HIDE DEF V
  <2> QED
    BY <1>1, <1>14 DEF S
<1>16. at = [n \in 0 .. MaxDepth |-> at[n]]
  <2>1. AscendsTo(at, done, e)
    BY <1>10
  <2> QED
    BY <2>1 DEF AscendsTo
<1>17. at \in [0 .. MaxDepth -> V]
  <2> HIDE DEF V
  <2> QED
    BY <1>15, <1>16
<1>18. at[0] = e
  BY <1>1, <1>11
<1>19. \A n \in 1 .. MaxDepth : at[n] = Up(at[n - 1])
  BY <1>1, <1>11
<1> QED
  BY <1>17, <1>18, <1>19 DEF at, Up

\* What is on the way up from an entity, to what is composed or to nothing.
Way(done, e, at, length) ==
  /\ length \in Nat /\ at[0] = e /\ at[length] \in done \cup {Null}
  /\ \A n \in 0 .. length - 1 : at[n] \in DOMAIN transform \ done /\ at[n + 1] = Above(at[n])

LEMMA ClimbIs ==
  ASSUME SpacesInv, SceneryInv, NEW done \in SUBSET DOMAIN transform, NEW e \in DOMAIN transform
  PROVE  \E at, length :
           /\ Climb(done, e) = [chain |-> [n \in 1 .. length |-> at[n - 1]], above |-> at[length]]
           /\ Way(done, e, at, length)
<1> DEFINE at == Ascent(done, e)
           ends == {n \in 0 .. MaxDepth : at[n] \in done \cup {Null}}
           length == Min(ends)
<1>1. MaxDepth \in Nat
  BY HierarchyAssumption
<1>2. /\ at[0] = e /\ \A n \in 0 .. MaxDepth : at[n] \in DOMAIN transform \cup {Null}
      /\ \A n \in 1 .. MaxDepth :
           at[n] = IF at[n - 1] \in done \cup {Null} THEN at[n - 1] ELSE Above(at[n - 1])
  <2>1. at \in [0 .. MaxDepth -> DOMAIN transform \cup {Null}]
    BY AscentIs
  <2> HIDE DEF at
  <2>2. \A n \in 0 .. MaxDepth : at[n] \in DOMAIN transform \cup {Null}
    BY <2>1
  <2> QED
    BY <2>2, AscentIs DEF at
<1> HIDE DEF at
<1>3. ends # {}
  <2> SUFFICES ASSUME ends = {} PROVE FALSE
    OBVIOUS
  <2>1. \A n \in 0 .. MaxDepth : at[n] \in DOMAIN transform /\ at[n] \notin done \cup {Null}
    BY <1>2
  <2> DEFINE S == {n \in Nat : n <= MaxDepth => Depth[at[n]] + n <= MaxDepth}
  <2>2. \A x \in DOMAIN transform : Depth[x] \in 1 .. MaxDepth
    BY HierarchyIs
  <2>3. 0 \in S
    BY <1>1, <1>2, <2>1, <2>2
  <2>4. ASSUME NEW n \in Nat, n \in S PROVE n + 1 \in S
    <3> SUFFICES ASSUME n + 1 <= MaxDepth PROVE Depth[at[n + 1]] + (n + 1) <= MaxDepth
      OBVIOUS
    <3>1. n \in 0 .. MaxDepth /\ n + 1 \in 0 .. MaxDepth /\ n + 1 \in 1 .. MaxDepth /\ (n + 1) - 1 = n
      BY <1>1
    <3>2. at[n + 1] = Above(at[n]) /\ at[n + 1] # Null
      BY <1>2, <2>1, <3>1
    <3>3. Depth[at[n + 1]] < Depth[at[n]]
      BY <2>1, <3>1, <3>2, HierarchyIs
    <3>4. Depth[at[n + 1]] \in Int /\ Depth[at[n]] \in Int
      BY <2>1, <2>2, <3>1
    <3>5. Depth[at[n]] + n <= MaxDepth
      BY <1>1, <2>4, <3>1
    <3> QED
      BY <1>1, <3>3, <3>4, <3>5
  <2> HIDE DEF S
  <2>5. MaxDepth \in S
    BY <1>1, <2>3, <2>4, Induct
  <2>6. Depth[at[MaxDepth]] + MaxDepth <= MaxDepth
    BY <1>1, <2>5 DEF S
  <2>7. Depth[at[MaxDepth]] \in 1 .. MaxDepth
    BY <1>1, <2>1, <2>2
  <2> QED
    BY <1>1, <2>6, <2>7
<1>4. length \in ends /\ \A n \in ends : length <= n
  <2>1. ends \in SUBSET Nat
    BY <1>1
  <2> HIDE DEF ends
  <2> QED
    BY <1>3, <2>1, LeastNumber DEF Min
<1>5. Climb(done, e) = [chain |-> [n \in 1 .. length |-> at[n - 1]], above |-> at[length]]
  BY <1>3 DEF Climb, at
<1> HIDE DEF length
<1>6. length \in 0 .. MaxDepth /\ at[length] \in done \cup {Null}
  BY <1>4
<1>7. ASSUME NEW n \in 0 .. length - 1
      PROVE  at[n] \in DOMAIN transform \ done /\ at[n + 1] = Above(at[n])
  <2>1. n \in 0 .. MaxDepth /\ n + 1 \in 1 .. MaxDepth /\ ~(length <= n) /\ (n + 1) - 1 = n
    BY <1>1, <1>6
  <2>2. at[n] \notin done \cup {Null}
    BY <1>4, <2>1
  <2> QED
    BY <1>2, <2>1, <2>2
<1>8. Way(done, e, at, length)
  BY <1>1, <1>2, <1>6, <1>7 DEF Way
<1> QED
  BY <1>5, <1>8

\* An entity is placed on the one above it.
PlacedBy(now, x, above) ==
  [now EXCEPT ![x] = IF above = Null THEN AsRoot(transform[x]) ELSE On(now[above], transform[x])]

DescendsTo(f, composed, climb, length) ==
  f = [n \in 0 .. length |->
         IF n = 0 THEN composed
         ELSE PlacedBy(f[n - 1], climb.chain[length + 1 - n],
                       IF n = 1 THEN climb.above ELSE climb.chain[length + 2 - n])]

\* What a descent makes of the poses, entity by entity.
DescendsBy(f, composed, climb, at, length) ==
  /\ Len(climb.chain) = length
  /\ f[0] = composed
  /\ \A n \in 0 .. length : f[n] \in [DOMAIN transform -> Pose]
  /\ \A n \in 1 .. length : f[n] = PlacedBy(f[n - 1], at[length - n], at[length - n + 1])

LEMMA DescentIs ==
  ASSUME SpacesInv, SceneryInv, NEW done \in SUBSET DOMAIN transform, NEW e \in DOMAIN transform,
         NEW at, NEW length, Way(done, e, at, length),
         NEW composed \in [DOMAIN transform -> Pose], NEW climb,
         climb = [chain |-> [n \in 1 .. length |-> at[n - 1]], above |-> at[length]]
  PROVE  DescendsBy(Descent(composed, climb), composed, climb, at, length)
<1> DEFINE V == [DOMAIN transform -> Pose]
           Place(i, now) == IF i \in 1 .. length THEN PlacedBy(now, at[length - i], at[length - i + 1])
                            ELSE now
           g == [i \in Nat |-> [now \in V |-> Place(i, now)]]
<1>1. /\ length \in Nat
      /\ \A n \in 0 .. length - 1 : at[n] \in DOMAIN transform /\ at[n + 1] = Above(at[n])
  BY DEF Way
<1>2. Len(climb.chain) = length
  <2> DEFINE chain == [n \in 1 .. length |-> at[n - 1]]
  <2>1. \A n \in 1 .. length : at[n - 1] \in DOMAIN transform
    BY <1>1
  <2>2. chain \in Seq(DOMAIN transform) /\ Len(chain) = length
    BY <1>1, <2>1
  <2> QED
    BY <2>2
<1>3. ASSUME NEW i \in 1 .. length
      PROVE  /\ climb.chain[length + 1 - i] = at[length - i]
             /\ (IF i = 1 THEN climb.above ELSE climb.chain[length + 2 - i]) = at[length - i + 1]
  <2>1. climb.chain[length + 1 - i] = at[length - i]
    <3>1. length + 1 - i \in 1 .. length /\ (length + 1 - i) - 1 = length - i
      BY <1>1
    <3> QED
      BY <3>1
  <2>2. CASE i = 1
    BY <1>1, <2>2
  <2>3. CASE i # 1
    <3>1. length + 2 - i \in 1 .. length /\ (length + 2 - i) - 1 = length - i + 1
      BY <1>1, <2>3
    <3> QED
      BY <2>1, <2>3, <3>1
  <2> QED
    BY <2>1, <2>2, <2>3
<1>4. ASSUME NEW i \in Nat, NEW now \in V PROVE Place(i, now) \in V
  <2>1. CASE i \in 1 .. length
    <3> DEFINE x == at[length - i]
               above == at[length - i + 1]
               pose == IF above = Null THEN AsRoot(transform[x]) ELSE On(now[above], transform[x])
    <3>1. length - i \in 0 .. length - 1
      BY <1>1, <2>1
    <3>2. x \in DOMAIN transform /\ above = Above(x)
      BY <1>1, <3>1
    <3>3. above = Null \/ above \in DOMAIN transform
      BY <3>2, HierarchyIs
    <3>4. pose \in Pose
      <4>1. above # Null => now[above] \in Pose
        BY <3>3
      <4> HIDE DEF x, above
      <4> QED
        BY <3>2, <4>1, PosesAre
    <3>5. Place(i, now) = [now EXCEPT ![x] = pose]
      BY <2>1 DEF PlacedBy
    <3> HIDE DEF x, pose, Place
    <3> QED
      BY <3>2, <3>4, <3>5
  <2>2. CASE i \notin 1 .. length
    BY <2>2
  <2> QED
    BY <2>1, <2>2
<1>5. g \in [Nat -> [V -> V]]
  <2> HIDE DEF Place, V
  <2> QED
    BY <1>4
<1>6. PICK h : Repeated(h, length, V, composed, g)
  <2> HIDE DEF g
  <2> QED
    BY <1>1, <1>5, Repeats
<1>7. h \in [0 .. length -> V] /\ \A i \in 0 .. length : h[i] = IF i = 0 THEN composed ELSE g[i][h[i - 1]]
  BY <1>6 DEF Repeated
<1> DEFINE Next1(f, n) ==
             PlacedBy(f[n - 1], climb.chain[length + 1 - n],
                      IF n = 1 THEN climb.above ELSE climb.chain[length + 2 - n])
<1>8. \A i \in 0 .. length : h[i] = IF i = 0 THEN composed ELSE Next1(h, i)
  <2> SUFFICES ASSUME NEW i \in 0 .. length, i # 0 PROVE h[i] = Next1(h, i)
    <3> HIDE DEF g, Next1, V
    <3> QED
      BY <1>7
  <2>1. i \in 1 .. length /\ i \in Nat /\ i - 1 \in 0 .. length
    BY <1>1
  <2>2. h[i - 1] \in V /\ h[i] = g[i][h[i - 1]]
    <3> HIDE DEF g, V
    <3> QED
      BY <1>7, <2>1
  <2>3. h[i] = Place(i, h[i - 1])
    <3> HIDE DEF Place, V
    <3> QED
      BY <2>1, <2>2
  <2> QED
    BY <1>3, <2>1, <2>3
<1>9. h = [i \in 0 .. length |-> IF i = 0 THEN composed ELSE Next1(h, i)]
  <2> HIDE DEF Next1, V
  <2> QED
    BY <1>7, <1>8
<1>10. \E f : DescendsTo(f, composed, climb, length)
  BY <1>9 DEF DescendsTo
<1>11. Descent(composed, climb) = CHOOSE f : DescendsTo(f, composed, climb, Len(climb.chain))
  BY DEF Descent, DescendsTo, PlacedBy
<1> DEFINE f == Descent(composed, climb)
<1>12. DescendsTo(f, composed, climb, length)
  BY <1>2, <1>10, <1>11
<1> HIDE DEF f
<1>13. \A n \in 0 .. length : f[n] = IF n = 0 THEN composed ELSE Next1(f, n)
  <2> HIDE DEF Next1
  <2>1. f = [n \in 0 .. length |-> IF n = 0 THEN composed ELSE Next1(f, n)]
    BY <1>12 DEF DescendsTo, Next1
  <2> QED
    BY <2>1
<1>14. f[0] = composed
  BY <1>1, <1>13
<1>15. \A n \in 1 .. length : f[n] = PlacedBy(f[n - 1], at[length - n], at[length - n + 1])
  <2> SUFFICES ASSUME NEW n \in 1 .. length
               PROVE  f[n] = PlacedBy(f[n - 1], at[length - n], at[length - n + 1])
    OBVIOUS
  <2>1. n \in 0 .. length /\ n # 0
    BY <1>1
  <2>2. f[n] = Next1(f, n)
    <3> HIDE DEF Next1
    <3> QED
      BY <1>13, <2>1
  <2> QED
    BY <1>3, <2>2
<1> DEFINE S == {n \in Nat : n <= length => f[n] \in V}
<1>16. 0 \in S
  BY <1>14
<1>17. ASSUME NEW n \in Nat, n \in S PROVE n + 1 \in S
  <2> SUFFICES ASSUME n + 1 <= length PROVE f[n + 1] \in V
    OBVIOUS
  <2>1. f[n] \in V /\ n + 1 \in 1 .. length /\ (n + 1) - 1 = n /\ n + 1 \in Nat
    <3> HIDE DEF V
    <3> QED
      BY <1>1, <1>17
  <2>2. f[n + 1] = Place(n + 1, f[n])
    BY <1>15, <2>1
  <2> HIDE DEF V, Place
  <2> QED
    BY <1>4, <2>1, <2>2
<1> HIDE DEF S
<1>18. \A n \in Nat : n \in S
  BY <1>16, <1>17, Induct
<1>19. \A n \in 0 .. length : f[n] \in V
  <2> HIDE DEF V
  <2> QED
    BY <1>1, <1>18 DEF S
<1> QED
  BY <1>2, <1>14, <1>15, <1>19 DEF f, DescendsBy

\* Poses composed down the hierarchy.
ComposedRight(P) ==
  \A x \in DOMAIN transform :
    P[x] = IF Above(x) = Null THEN AsRoot(transform[x]) ELSE On(P[Above(x)], transform[x])

\* What is composed going down is right, if what it starts from is.
LEMMA DescendIs ==
  ASSUME SpacesInv, SceneryInv, NEW done \in SUBSET DOMAIN transform, NEW e \in DOMAIN transform,
         NEW composed \in [DOMAIN transform -> Pose]
  PROVE  LET chain == Climb(done, e).chain
             after == Descend(composed, Climb(done, e))
         IN  /\ after \in [DOMAIN transform -> Pose]
             /\ ToSet(chain) \subseteq DOMAIN transform /\ e \in done \cup ToSet(chain)
             /\ \A P : ComposedRight(P) /\ (\A x \in done : composed[x] = P[x])
                         => \A x \in done \cup ToSet(chain) : after[x] = P[x]
<1>1. PICK at, length :
        /\ Climb(done, e) = [chain |-> [n \in 1 .. length |-> at[n - 1]], above |-> at[length]]
        /\ Way(done, e, at, length)
  BY ClimbIs
<1> DEFINE climb == Climb(done, e)
           f == Descent(composed, climb)
           after == Descend(composed, climb)
<1>2. /\ Len(climb.chain) = length
      /\ f[0] = composed
      /\ \A n \in 0 .. length : f[n] \in [DOMAIN transform -> Pose]
      /\ \A n \in 1 .. length : f[n] = PlacedBy(f[n - 1], at[length - n], at[length - n + 1])
  <2> HIDE DEF climb
  <2>1. climb = [chain |-> [n \in 1 .. length |-> at[n - 1]], above |-> at[length]]
    BY <1>1 DEF climb
  <2>2. DescendsBy(f, composed, climb, at, length)
    BY <1>1, <2>1, DescentIs
  <2> QED
    BY <2>2 DEF DescendsBy
<1>3. after = f[length]
  BY <1>2 DEF Descend
<1>4. /\ length \in Nat /\ at[0] = e /\ at[length] \in done \cup {Null}
      /\ \A n \in 0 .. length - 1 : at[n] \in DOMAIN transform \ done /\ at[n + 1] = Above(at[n])
  BY <1>1 DEF Way
<1>5. ToSet(climb.chain) = {at[n] : n \in 0 .. length - 1}
  <2>1. climb.chain = [n \in 1 .. length |-> at[n - 1]]
    BY <1>1
  <2>2. ToSet(climb.chain) = {at[n - 1] : n \in 1 .. length}
    BY <2>1 DEF ToSet
  <2>3. ASSUME NEW n \in 0 .. length - 1 PROVE n + 1 \in 1 .. length /\ (n + 1) - 1 = n
    BY <1>4
  <2>4. ASSUME NEW n \in 1 .. length PROVE n - 1 \in 0 .. length - 1
    BY <1>4
  <2> QED
    BY <2>2, <2>3, <2>4
<1> HIDE DEF climb, f
<1>6. after \in [DOMAIN transform -> Pose]
  BY <1>2, <1>3, <1>4
<1>7. ToSet(climb.chain) \subseteq DOMAIN transform
  BY <1>4, <1>5
<1>8. e \in done \cup ToSet(climb.chain)
  <2>1. CASE length = 0
    <3>1. e # Null
      BY HierarchyIs
    <3> QED
      BY <1>4, <2>1, <3>1
  <2>2. CASE length # 0
    <3>1. 0 \in 0 .. length - 1
      BY <1>4, <2>2
    <3> QED
      BY <1>4, <1>5, <3>1
  <2> QED
    BY <2>1, <2>2
<1>9. ASSUME NEW P, ComposedRight(P), \A x \in done : composed[x] = P[x]
      PROVE  \A x \in done \cup ToSet(climb.chain) : after[x] = P[x]
  <2> DEFINE Right(n) == /\ \A x \in done : f[n][x] = P[x]
                         /\ \A k \in length - n .. length - 1 : f[n][at[k]] = P[at[k]]
             S == {n \in Nat : n <= length => Right(n)}
  <2>1. 0 \in S
    BY <1>2, <1>4, <1>9
  <2>2. ASSUME NEW n \in Nat, n \in S PROVE n + 1 \in S
    <3> SUFFICES ASSUME n + 1 <= length PROVE Right(n + 1)
      <4> HIDE DEF Right
      <4> QED
        OBVIOUS
    <3>1. Right(n)
      <4> HIDE DEF Right
      <4> QED
        BY <1>4, <2>2
    <3> DEFINE m == length - (n + 1)
               x == at[m]
               above == at[m + 1]
    <3>2. /\ n + 1 \in 1 .. length /\ (n + 1) - 1 = n /\ n \in 0 .. length
          /\ m \in 0 .. length - 1 /\ m + 1 = length - n
          /\ length - (n + 1) + 1 = m + 1
      BY <1>4
    <3>3. /\ x \in DOMAIN transform /\ x \notin done /\ above = Above(x)
          /\ f[n] \in [DOMAIN transform -> Pose]
      BY <1>2, <1>4, <3>2
    <3>4. f[n + 1] = [f[n] EXCEPT ![x] = IF above = Null THEN AsRoot(transform[x])
                                         ELSE On(f[n][above], transform[x])]
      BY <1>2, <3>2 DEF PlacedBy
    <3>5. above # Null => f[n][above] = P[above]
      <4> SUFFICES ASSUME above # Null PROVE f[n][above] = P[above]
        OBVIOUS
      <4>1. CASE n = 0
        <5>1. above \in done
          BY <1>4, <3>2, <4>1
        <5> QED
          BY <3>1, <5>1
      <4>2. CASE n # 0
        <5>1. m + 1 \in length - n .. length - 1
          BY <1>4, <3>2, <4>2
        <5> QED
          BY <3>1, <5>1
      <4> QED
        BY <4>1, <4>2
    <3> HIDE DEF m, x, above
    <3>6. /\ f[n + 1][x] = P[x]
          /\ \A y \in DOMAIN transform \ {x} : f[n + 1][y] = f[n][y]
      BY <1>9, <3>3, <3>4, <3>5 DEF ComposedRight
    <3>7. \A y \in done : f[n + 1][y] = P[y]
      BY <3>1, <3>3, <3>6
    <3>8. ASSUME NEW k \in length - (n + 1) .. length - 1 PROVE f[n + 1][at[k]] = P[at[k]]
      <4>1. CASE at[k] = x
        BY <3>6, <4>1
      <4>2. CASE at[k] # x
        <5>1. k # m /\ k \in 0 .. length - 1 /\ k \in length - n .. length - 1
          BY <1>4, <3>2, <4>2 DEF m, x
        <5>2. at[k] \in DOMAIN transform
          BY <1>4, <5>1
        <5> QED
          BY <3>1, <3>6, <4>2, <5>1, <5>2
      <4> QED
        BY <4>1, <4>2
    <3> QED
      BY <3>7, <3>8
  <2> HIDE DEF S
  <2>3. length \in S
    BY <1>4, <2>1, <2>2, Induct
  <2>4. Right(length)
    <3> HIDE DEF Right
    <3> QED
      BY <1>4, <2>3 DEF S
  <2>5. length - length = 0
    BY <1>4
  <2> QED
    BY <1>3, <1>5, <2>4, <2>5
<1> QED
  BY <1>6, <1>7, <1>8, <1>9 DEF climb

\* One entity of the storage, and the first of them.
ComposedAt(now, e) ==
  [composed |-> Descend(now.composed, Climb(now.done, e)),
   done |-> now.done \cup ToSet(Climb(now.done, e).chain)]

Uncomposed == [composed |-> [e \in DOMAIN transform |-> AsRoot(transform[e])], done |-> {}]

PassesTo(f, order) ==
  f = [n \in 0 .. Len(order) |->
         IF n = 0 THEN Uncomposed
         ELSE IF order[n] \notin DOMAIN transform THEN f[n - 1]
         ELSE ComposedAt(f[n - 1], order[n])]

PassPoses == [composed : [DOMAIN transform -> Pose], done : SUBSET DOMAIN transform]

LEMMA ComposedAtIs ==
  ASSUME SpacesInv, SceneryInv, NEW now \in PassPoses, NEW e \in DOMAIN transform
  PROVE  LET next == ComposedAt(now, e)
         IN  /\ next \in PassPoses
             /\ now.done \subseteq next.done /\ e \in next.done
             /\ \A P : ComposedRight(P) /\ (\A x \in now.done : now.composed[x] = P[x])
                         => \A x \in next.done : next.composed[x] = P[x]
<1> DEFINE done == now.done
           composed == now.composed
           chain == Climb(done, e).chain
           after == Descend(composed, Climb(done, e))
<1>1. done \in SUBSET DOMAIN transform /\ composed \in [DOMAIN transform -> Pose]
  BY DEF PassPoses
<1>2. /\ after \in [DOMAIN transform -> Pose]
      /\ ToSet(chain) \subseteq DOMAIN transform /\ e \in done \cup ToSet(chain)
      /\ \A P : ComposedRight(P) /\ (\A x \in done : composed[x] = P[x])
                  => \A x \in done \cup ToSet(chain) : after[x] = P[x]
  <2> HIDE DEF done, composed
  <2> QED
    BY <1>1, DescendIs
<1>3. ComposedAt(now, e) = [composed |-> after, done |-> done \cup ToSet(chain)]
  BY DEF ComposedAt
<1> HIDE DEF done, composed, chain, after
<1>4. /\ ComposedAt(now, e).composed = after /\ ComposedAt(now, e).done = done \cup ToSet(chain)
      /\ ComposedAt(now, e) \in PassPoses
  BY <1>1, <1>2, <1>3 DEF PassPoses
<1> QED
  BY <1>2, <1>4 DEF done, composed

LEMMA PassIs ==
  ASSUME SpacesInv, SceneryInv, NEW order \in Orders
  PROVE  PassesTo(Pass(order), order)
<1> DEFINE V == PassPoses
           At(n, now) == IF n \in 1 .. Len(order) /\ order[n] \in DOMAIN transform
                         THEN ComposedAt(now, order[n]) ELSE now
           g == [n \in Nat |-> [now \in V |-> At(n, now)]]
<1>1. order \in Seq(Entity) /\ Len(order) \in Nat
  BY HierarchyAssumption
<1>2. Uncomposed \in V
  <2>1. [e \in DOMAIN transform |-> AsRoot(transform[e])] \in [DOMAIN transform -> Pose]
    BY PosesAre
  <2> QED
    BY <2>1 DEF Uncomposed, PassPoses
<1>3. ASSUME NEW n \in Nat, NEW now \in V PROVE At(n, now) \in V
  BY ComposedAtIs
<1> HIDE DEF V
<1>4. g \in [Nat -> [V -> V]]
  <2> HIDE DEF At
  <2> QED
    BY <1>3
<1>5. PICK h : Repeated(h, Len(order), V, Uncomposed, g)
  <2> HIDE DEF g
  <2> QED
    BY <1>1, <1>2, <1>4, Repeats
<1>6. /\ h \in [0 .. Len(order) -> V]
      /\ \A i \in 0 .. Len(order) : h[i] = IF i = 0 THEN Uncomposed ELSE g[i][h[i - 1]]
  BY <1>5 DEF Repeated
<1> DEFINE Next1(f, n) == IF order[n] \notin DOMAIN transform THEN f[n - 1]
                          ELSE ComposedAt(f[n - 1], order[n])
<1>7. \A i \in 0 .. Len(order) : h[i] = IF i = 0 THEN Uncomposed ELSE Next1(h, i)
  <2> SUFFICES ASSUME NEW i \in 0 .. Len(order), i # 0 PROVE h[i] = Next1(h, i)
    <3> HIDE DEF g, Next1
    <3> QED
      BY <1>6
  <2>1. i \in 1 .. Len(order) /\ i \in Nat /\ i - 1 \in 0 .. Len(order)
    BY <1>1
  <2>2. h[i - 1] \in V /\ h[i] = g[i][h[i - 1]]
    <3> HIDE DEF g
    <3> QED
      BY <1>6, <2>1
  <2>3. h[i] = At(i, h[i - 1])
    <3> HIDE DEF At
    <3> QED
      BY <2>1, <2>2
  <2> QED
    BY <2>1, <2>3
<1>8. h = [i \in 0 .. Len(order) |-> IF i = 0 THEN Uncomposed ELSE Next1(h, i)]
  <2> HIDE DEF Next1
  <2> QED
    BY <1>6, <1>7
<1>9. \E f : PassesTo(f, order)
  BY <1>8 DEF PassesTo
<1>10. Pass(order) = CHOOSE f : PassesTo(f, order)
  BY DEF Pass, PassesTo, Uncomposed, ComposedAt
<1> QED
  BY <1>9, <1>10

\* Whatever the order of the storage, every entity ends up on those above it.
LEMMA ComposedInIs ==
  ASSUME SpacesInv, SceneryInv, NEW order \in Orders, NEW P, ComposedRight(P)
  PROVE  \A x \in DOMAIN transform : ComposedIn(order)[x] = P[x]
<1> DEFINE f == Pass(order)
           Right(n) == /\ f[n] \in PassPoses
                       /\ \A x \in f[n].done : f[n].composed[x] = P[x]
                       /\ \A i \in 1 .. n : order[i] \in DOMAIN transform => order[i] \in f[n].done
           S == {n \in Nat : n <= Len(order) => Right(n)}
<1>1. order \in Seq(Entity) /\ Len(order) \in Nat /\ Entity \subseteq ToSet(order)
  BY HierarchyAssumption
<1>2. \A n \in 0 .. Len(order) :
        f[n] = IF n = 0 THEN Uncomposed
               ELSE IF order[n] \notin DOMAIN transform THEN f[n - 1]
               ELSE ComposedAt(f[n - 1], order[n])
  <2>1. PassesTo(f, order)
    BY PassIs
  <2> HIDE DEF f
  <2> QED
    BY <2>1 DEF PassesTo
<1> HIDE DEF f
<1>3. 0 \in S
  <2>1. f[0] = Uncomposed
    BY <1>1, <1>2
  <2>2. [e \in DOMAIN transform |-> AsRoot(transform[e])] \in [DOMAIN transform -> Pose]
    BY PosesAre
  <2>3. Uncomposed \in PassPoses /\ Uncomposed.done = {}
    BY <2>2 DEF Uncomposed, PassPoses
  <2> QED
    BY <2>1, <2>3
<1>4. ASSUME NEW n \in Nat, n \in S PROVE n + 1 \in S
  <2> SUFFICES ASSUME n + 1 <= Len(order) PROVE Right(n + 1)
    <3> HIDE DEF Right
    <3> QED
      OBVIOUS
  <2>1. Right(n) /\ n + 1 \in 0 .. Len(order) /\ n + 1 # 0 /\ (n + 1) - 1 = n
    <3> HIDE DEF Right
    <3> QED
      BY <1>1, <1>4
  <2>2. \A i \in 1 .. n + 1 : i \in 1 .. n \/ i = n + 1
    OBVIOUS
  <2>3. CASE order[n + 1] \in DOMAIN transform
    <3>1. f[n + 1] = ComposedAt(f[n], order[n + 1])
      BY <1>2, <2>1, <2>3
    <3>2. /\ f[n + 1] \in PassPoses
          /\ f[n].done \subseteq f[n + 1].done /\ order[n + 1] \in f[n + 1].done
          /\ ComposedRight(P) /\ (\A x \in f[n].done : f[n].composed[x] = P[x])
               => \A x \in f[n + 1].done : f[n + 1].composed[x] = P[x]
      BY <2>1, <2>3, <3>1, ComposedAtIs
    <3> QED
      BY <2>1, <2>2, <3>2
  <2>4. CASE order[n + 1] \notin DOMAIN transform
    <3>1. f[n + 1] = f[n]
      BY <1>2, <2>1, <2>4
    <3> QED
      BY <2>1, <2>2, <2>4, <3>1
  <2> QED
    BY <2>3, <2>4
<1> HIDE DEF S
<1>5. Len(order) \in S
  BY <1>1, <1>3, <1>4, Induct
<1>6. Right(Len(order))
  <2> HIDE DEF Right
  <2> QED
    BY <1>1, <1>5 DEF S
<1>7. ASSUME NEW x \in DOMAIN transform PROVE x \in f[Len(order)].done
  <2>1. x \in Entity
    BY HierarchyIs
  <2>2. PICK i \in 1 .. Len(order) : order[i] = x
    BY <1>1, <2>1 DEF ToSet
  <2> QED
    BY <1>6, <2>2
<1>8. ComposedIn(order) = f[Len(order)].composed
  BY DEF ComposedIn, f
<1> QED
  BY <1>6, <1>7, <1>8

LEMMA PassShows ==
  ASSUME DrawnInv, Compose
  PROVE  \A e \in DOMAIN transform : world'[e] = Shown(e, alpha)
<1>1. SpacesInv /\ SceneryInv /\ WrittenInv
  BY DEF DrawnInv
<1>2. PICK order \in Orders : world' = ComposedIn(order)
  BY DEF Compose, PropagateTransforms
<1>3. alpha \in {0, 1} /\ phase = "written"
  BY <1>1 DEF Compose, SpacesInv, EachInOneSpace, TypeOK
<1>4. PICK f : ShownTo(f, alpha) /\ \A x \in DOMAIN transform : Shown(x, alpha) = f[x]
  BY <1>1, <1>3, ShownIs DEF ShownInv
<1>5. ASSUME NEW x \in DOMAIN transform
      PROVE  f[x] = IF Above(x) = Null THEN AsRoot(transform[x]) ELSE On(f[Above(x)], transform[x])
  <2>1. CarrierOf(x) = Above(x)
    BY <1>1, HierarchyIs
  <2>2. /\ PoseOf(x, alpha) = AsRoot(PoseOf(x, alpha))
        /\ PoseOf(x, alpha).position = transform[x].position
        /\ PoseOf(x, alpha).rotation = transform[x].rotation
    <3>1. CASE x \in DOMAIN rigid
      <4>1. PoseOf(x, alpha) = AsRoot(PoseOf(x, alpha))
        BY <3>1 DEF PoseOf, AsRoot
      <4> QED
        BY <1>1, <1>3, <3>1, <4>1 DEF WrittenInv
    <3>2. CASE x \notin DOMAIN rigid
      BY <3>2 DEF PoseOf, AsRoot
    <3> QED
      BY <3>1, <3>2
  <2>3. f[x] = IF CarrierOf(x) = Null THEN PoseOf(x, alpha) ELSE On(f[CarrierOf(x)], PoseOf(x, alpha))
    BY <1>4 DEF ShownTo
  <2>4. /\ AsRoot(transform[x]) = PoseOf(x, alpha)
        /\ \A p : On(p, transform[x]) = On(p, PoseOf(x, alpha))
    BY <2>2 DEF AsRoot, On
  <2> QED
    BY <2>1, <2>3, <2>4
<1>6. ComposedRight(f)
  BY <1>5 DEF ComposedRight
<1> QED
  BY <1>1, <1>2, <1>4, <1>6, ComposedInIs

LEMMA NextDraws ==
  DrawnInv /\ DrawnInv' /\ [Next]_vars =>
    [/\ steps' # steps => \A e \in DOMAIN transform : Shown(e, 0)' = Shown(e, 1)
     /\ phase = "written" => \A e \in DOMAIN transform : world'[e] = Shown(e, alpha)]_vars
<1> SUFFICES ASSUME DrawnInv, DrawnInv', Next
             PROVE  /\ steps' # steps => \A e \in DOMAIN transform : Shown(e, 0)' = Shown(e, 1)
                    /\ phase = "written" => \A e \in DOMAIN transform : world'[e] = Shown(e, alpha)
  OBVIOUS
<1>1. steps' # steps => Step
  BY DEF Next, TakeShapes, AddBox, AddCharacter, Write, Compose
<1>2. phase = "written" => Compose
  BY DEF Next, TakeShapes, AddBox, AddCharacter, Step, Write
<1>3. SpacesInv /\ SceneryInv /\ SpacesInv' /\ SceneryInv'
  BY DEF DrawnInv
<1>4. ASSUME Step PROVE \A e \in DOMAIN transform : Shown(e, 0)' = Shown(e, 1)
  BY <1>3, <1>4, StepShows
<1>5. ASSUME Compose PROVE \A e \in DOMAIN transform : world'[e] = Shown(e, alpha)
  BY <1>5, PassShows
<1> QED
  BY <1>1, <1>2, <1>4, <1>5

\* The invariant of what is drawn: nothing without a body moves, and update()
\* leaves the transforms of the others as they are drawn.
THEOREM StaysDrawn == Spec => []DrawnInv
<1>1. Init => SceneryInv /\ WrittenInv
  BY InitIsDrawn
<1>2. DrawnInv /\ [Next]_vars => SceneryInv' /\ WrittenInv'
  BY NextKeepsDrawn
<1>3. SpacesInv /\ SceneryInv /\ WrittenInv <=> DrawnInv
  BY DEF DrawnInv
<1> QED
  BY <1>1, <1>2, <1>3, SpacesStayRight, PTL DEF Spec

\* A step begins, for what is drawn, where the last one ended, and each pass
\* composes that: "so it draws where it was".
THEOREM DrawsWhereItIs == Spec => DrawnWhereItIs
<1>1. DrawnInv /\ DrawnInv' /\ [Next]_vars =>
        [/\ steps' # steps => \A e \in DOMAIN transform : Shown(e, 0)' = Shown(e, 1)
         /\ phase = "written" => \A e \in DOMAIN transform : world'[e] = Shown(e, alpha)]_vars
  BY NextDraws
<1> QED
  BY <1>1, StaysDrawn, PTL DEF Spec, DrawnWhereItIs
=============================================================================
