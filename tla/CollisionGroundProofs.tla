----------------------- MODULE CollisionGroundProofs -----------------------
(***************************************************************************)
(* Proofs about CollisionGround, for any bodies, positions and chunks; and *)
(* that it implements SolidGround: where bodies are placed only while no   *)
(* ground is waited for, what Jolt is given does not depend on when the    *)
(* pool's jobs end.                                                        *)
(***************************************************************************)
EXTENDS CollisionGround, FiniteSetTheorems, TLAPS

-----------------------------------------------------------------------------
(* Type correctness. *)

\* A body that is added, moved or removed keeps the types.
LEMMA InputKeepsTypes ==
  ASSUME BodiesType, Input
  PROVE  BodiesType'
<1>1. Nowhere \in Position
  BY GroundAssumption DEF Nowhere
<1>2. ASSUME NEW b \in Box, NEW p \in Position, AddBox(b, p) PROVE BodiesType'
  BY <1>2 DEF AddBox, BodiesType, Body
<1>3. ASSUME NEW b \in Walker, NEW p \in Position, AddWalker(b, p) PROVE BodiesType'
  BY <1>3 DEF AddWalker, Crossed, BodiesType, Body
<1>4. ASSUME NEW b \in Walker, NEW p \in Position, TeleportWalker(b, p) PROVE BodiesType'
  BY <1>4 DEF TeleportWalker, Crossed, BodiesType, Body
<1>5. ASSUME NEW b \in Walker, RemoveWalker(b) PROVE BodiesType'
  BY <1>1, <1>5 DEF RemoveWalker, BodiesType, Body
<1> QED
  BY <1>2, <1>3, <1>4, <1>5 DEF Input

\* So does a step of the world, wherever it takes them.
LEMMA StepKeepsTypes ==
  ASSUME BodiesType, StepBodies
  PROVE  BodiesType'
<1>1. left' \in 0 .. MaxSteps /\ phase' \in {"idle", "stepping"}
  BY GroundAssumption DEF StepBodies, BodiesType
<1>2. place' \in [Body -> Position]
  BY DEF StepBodies, BodiesType, Added
<1>3. state' \in [Body -> {"none", "held", "awake", "asleep"}]
  BY DEF StepBodies, BodiesType
<1>4. \A b \in Body : state[b] # "none" => state'[b] # "none"
  BY DEF StepBodies, BodiesType, Added
<1>5. aboard' \subseteq aboard \cup Added
  BY DEF StepBodies, Transfers
<1>6. aboard' \subseteq {b \in Body : state'[b] # "none"}
  BY <1>4, <1>5 DEF BodiesType, Added
<1>7. moved' \subseteq Body
  BY <1>5 DEF StepBodies, BodiesType, Added
<1> QED
  BY <1>1, <1>2, <1>3, <1>6, <1>7 DEF BodiesType

\* Every step of the loop around them does.
LEMMA BodiesKeepTypes ==
  ASSUME BodiesType, Input \/ BeginSteps \/ StepBodies \/ EndSteps \/ UNCHANGED bodyVars
  PROVE  BodiesType'
<1>1. CASE BeginSteps
  BY <1>1 DEF BeginSteps, BodiesType
<1>2. CASE EndSteps
  BY <1>2 DEF EndSteps, BodiesType
<1>3. CASE UNCHANGED bodyVars
  BY <1>3 DEF bodyVars, BodiesType
<1> QED
  BY <1>1, <1>2, <1>3, InputKeepsTypes, StepKeepsTypes

ChunksType ==
  /\ chunk \in [Chunk -> {"none", "building", "built", "ready"}]
  /\ age \in [Chunk -> 0 .. KeepSteps + 1]
  /\ solid \subseteq Surface
  /\ jobs \subseteq Chunk

\* Only a chunk with a surface waits to be a body.
BuiltHasSurface == \A c \in Chunk : chunk[c] = "built" => c \in Surface

\* What the ground's inductive invariant adds to the bodies' types: the count,
\* the map and Jolt's bodies agree.
GroundInv == ChunksType /\ BuildingExact /\ SolidIsReady /\ BuiltHasSurface

LEMMA GroundInvInit == Init => BodiesType /\ GroundInv
<1> SUFFICES ASSUME Init PROVE BodiesType /\ GroundInv
  OBVIOUS
<1>1. BodiesType
  BY GroundAssumption DEF Init, BodiesInit, BodiesType, Nowhere
<1>2. ChunksType /\ SolidIsReady /\ BuiltHasSurface
  BY GroundAssumption DEF Init, ChunksType, SolidIsReady, BuiltHasSurface
<1>3. BuildingExact
  BY FS_EmptySet DEF Init, BuildingExact
<1> QED
  BY <1>1, <1>2, <1>3 DEF GroundInv

LEMMA JobsFinite ==
  ASSUME ChunksType
  PROVE  IsFiniteSet(jobs) /\ Cardinality(jobs) \in Nat
BY GroundAssumption, FS_Subset, FS_CardinalityType DEF ChunksType

\* A completion takes its own job off the count, and off no other chunk's.
LEMMA FinishKeepsGround ==
  ASSUME GroundInv, NEW c \in Chunk, Finish(c)
  PROVE  GroundInv'
<1>1. ChunksType'
  BY DEF GroundInv, ChunksType, Finish
<1>2. BuildingExact'
  <2>1. Cardinality(jobs \ {c}) = Cardinality(jobs) - 1
    BY JobsFinite, FS_RemoveElement DEF GroundInv, Finish
  <2>2. jobs' = {d \in Chunk : chunk'[d] = "building"}
    BY DEF GroundInv, ChunksType, BuildingExact, Finish
  <2> QED
    BY <2>1, <2>2 DEF GroundInv, BuildingExact, Finish
<1>3. SolidIsReady' /\ BuiltHasSurface'
  BY GroundAssumption
     DEF GroundInv, ChunksType, BuildingExact, SolidIsReady, BuiltHasSurface, Finish
<1> QED
  BY <1>1, <1>2, <1>3 DEF GroundInv

\* An update counts what it asks for, all of it new, and makes bodies of what
\* it calls ready.
LEMMA UpdateKeepsGround ==
  ASSUME BodiesType, GroundInv, Update
  PROVE  GroundInv'
<1> DEFINE new == {c \in Asked : chunk[c] = "none"}
<1>1. Asked \subseteq Chunk /\ AddBuilt \subseteq {c \in Surface : chunk[c] = "built"}
  <2>1. AddBuilt \subseteq {c \in Surface : chunk[c] = "built"}
    BY DEF AddBuilt, GroundInv, BuiltHasSurface
  <2>2. \A b \in Asking : Near[place[b]] \subseteq Chunk
    BY GroundAssumption DEF Asking, InWorld, BodiesType
  <2> QED
    BY <2>1, <2>2 DEF Asked
<1>2. /\ chunk' = [c \in Chunk |-> IF c \in AddBuilt THEN "ready"
                                   ELSE IF c \in new THEN "building" ELSE chunk[c]]
      /\ age' = [c \in Chunk |-> IF c \in Kept THEN 0 ELSE age[c]]
      /\ solid' = solid \cup AddBuilt
      /\ jobs' = jobs \cup new
      /\ building' = building + Cardinality(new)
  BY DEF Update
<1> HIDE DEF new
<1>3. new \subseteq Chunk /\ \A c \in Chunk : c \in new <=> c \in Asked /\ chunk[c] = "none"
  BY <1>1 DEF new
<1>4. ChunksType'
  BY <1>1, <1>2, <1>3, GroundAssumption DEF GroundInv, ChunksType
<1>5. BuildingExact'
  <2>1. jobs \cap new = {}
    BY <1>3 DEF GroundInv, BuildingExact
  <2>2. IsFiniteSet(new) /\ Cardinality(new) \in Nat
    BY <1>3, GroundAssumption, FS_Subset, FS_CardinalityType
  <2>3. Cardinality(jobs \cup new) = Cardinality(jobs) + Cardinality(new)
    BY <2>1, <2>2, JobsFinite, FS_Union, FS_EmptySet DEF GroundInv
  <2>4. jobs' = {c \in Chunk : chunk'[c] = "building"}
    BY <1>1, <1>2, <1>3 DEF GroundInv, ChunksType, BuildingExact
  <2> QED
    BY <1>2, <2>3, <2>4 DEF GroundInv, BuildingExact
<1>6. SolidIsReady' /\ BuiltHasSurface'
  BY <1>1, <1>2, <1>3, GroundAssumption
     DEF GroundInv, ChunksType, SolidIsReady, BuiltHasSurface
<1> QED
  BY <1>4, <1>5, <1>6 DEF GroundInv

\* An eviction takes ready chunks only, with their bodies.
LEMMA EvictKeepsGround ==
  ASSUME GroundInv, Evict
  PROVE  GroundInv'
<1>1. Stale \subseteq {c \in Chunk : chunk[c] = "ready"}
  BY DEF Stale
<1>2. ChunksType'
  BY <1>1, GroundAssumption DEF GroundInv, ChunksType, Evict
<1>3. BuildingExact'
  BY <1>1 DEF GroundInv, ChunksType, BuildingExact, Evict
<1>4. SolidIsReady' /\ BuiltHasSurface'
  BY <1>1, GroundAssumption
     DEF GroundInv, ChunksType, SolidIsReady, BuiltHasSurface, Evict
<1> QED
  BY <1>2, <1>3, <1>4 DEF GroundInv

\* The world's steps only age the chunks.
LEMMA StepKeepsGround ==
  ASSUME GroundInv, Step
  PROVE  GroundInv'
<1>1. ChunksType'
  BY GroundAssumption DEF GroundInv, ChunksType, Step
<1> QED
  BY <1>1 DEF GroundInv, BuildingExact, SolidIsReady, BuiltHasSurface, Step

LEMMA GroundInvStep ==
  ASSUME BodiesType, GroundInv, [Next]_vars
  PROVE  BodiesType' /\ GroundInv'
<1>1. BodiesType'
  BY BodiesKeepTypes DEF Next, Place, Finish, Update, Step, Evict, vars
<1>2. SUFFICES GroundInv'
  BY <1>1
<1>3. CASE UNCHANGED chunkVars
  BY <1>3 DEF chunkVars, GroundInv, ChunksType, BuildingExact, SolidIsReady, BuiltHasSurface
<1>4. ASSUME NEW c \in Chunk, Finish(c) PROVE GroundInv'
  BY <1>4, FinishKeepsGround
<1>5. CASE Update
  BY <1>5, UpdateKeepsGround
<1>6. CASE Step
  BY <1>6, StepKeepsGround
<1>7. CASE Evict
  BY <1>7, EvictKeepsGround
<1> QED
  BY <1>3, <1>4, <1>5, <1>6, <1>7 DEF Next, Place, vars

LEMMA GroundInvariant == Spec => [](BodiesType /\ GroundInv)
<1>1. Init => BodiesType /\ GroundInv
  BY GroundInvInit
<1>2. BodiesType /\ GroundInv /\ [Next]_vars => (BodiesType /\ GroundInv)'
  BY GroundInvStep
<1> QED
  BY <1>1, <1>2, PTL DEF Spec

\* Every variable of the world stays in its range.
THEOREM GroundTypes == Spec => []TypeOK
<1>1. BodiesType /\ GroundInv => TypeOK
  BY JobsFinite DEF GroundInv, ChunksType, BuildingExact, TypeOK
<1> QED
  BY <1>1, GroundInvariant, PTL

\* building, by which add_built() and idle() decide, is exactly the number of
\* jobs still to complete, and each of them has its chunk in the map.
THEOREM BuildingStaysExact == Spec => []BuildingExact
<1>1. GroundInv => BuildingExact
  BY DEF GroundInv
<1> QED
  BY <1>1, GroundInvariant, PTL

\* Jolt's static bodies are exactly those of the chunks taken for built: an
\* eviction leaves none behind and no ready chunk is without its ground.
THEOREM SolidStaysReady == Spec => []SolidIsReady
<1>1. GroundInv => SolidIsReady
  BY DEF GroundInv
<1> QED
  BY <1>1, GroundInvariant, PTL

\* The collision cache's count of jobs and Jolt's bodies are exactly what its
\* chunks say.
THEOREM ChunksStayExact == Spec => []ChunksExact
BY GroundTypes, BuildingStaysExact, SolidStaysReady, PTL DEF ChunksExact

-----------------------------------------------------------------------------
(* Who sleeps keeps its ground. *)

GroundReady(b) == \A c \in Near[place[b]] : chunk[c] = "ready"

\* Ground found ready by an update was kept by it, and is young until its steps
\* are done.
KeptYoung(b) == \A c \in Near[place[b]] : age[c] <= MaxSteps - left

\* A sleeper has not moved since the update, which found its ground ready: it
\* was awake then, or slept on ground that was ready when it fell asleep.
SleepInv ==
  /\ phase = "idle" => moved = {}
  /\ \A b \in Body : state[b] = "asleep" => b \in Box \ moved
  /\ \A b \in InWorld : state[b] = "asleep" => GroundReady(b)
  /\ phase = "stepping" =>
       \A b \in (Added \cap InWorld) \ moved : GroundReady(b) /\ KeptYoung(b)

\* Nothing but an eviction takes a ready chunk away.
LEMMA ReadyStaysReady ==
  ASSUME GroundInv, NEW c \in Chunk, chunk[c] = "ready",
         Place \/ (\E d \in Chunk : Finish(d)) \/ Update \/ Step
  PROVE  chunk'[c] = "ready"
<1>1. CASE Place \/ Step
  BY <1>1 DEF Place, Step, chunkVars
<1>2. ASSUME NEW d \in Chunk, Finish(d) PROVE chunk'[c] = "ready"
  BY <1>2 DEF Finish, GroundInv, ChunksType, BuildingExact
<1>3. CASE Update
  BY <1>3 DEF Update, GroundInv, ChunksType
<1> QED
  BY <1>1, <1>2, <1>3

LEMMA NearIsChunks ==
  ASSUME BodiesType, NEW b \in Body
  PROVE  Near[place[b]] \subseteq Chunk
BY GroundAssumption DEF BodiesType

\* Only the character and boxes that do not exist yet are placed.
LEMMA PlaceKeepsSleep ==
  ASSUME BodiesType, GroundInv, SleepInv, Place
  PROVE  SleepInv'
<1>1. phase = "idle" /\ phase' = "idle" /\ moved' = moved /\ chunk' = chunk
  BY DEF Place, Input, AddBox, AddWalker, TeleportWalker, RemoveWalker, chunkVars
<1>2. ASSUME NEW b \in Body, state'[b] = "asleep"
      PROVE  /\ state[b] = "asleep" /\ place'[b] = place[b]
             /\ b \in aboard' <=> b \in aboard
  <2>1. state[b] = "asleep" => b \notin Walker
    BY GroundAssumption DEF SleepInv, Body
  <2> QED
    BY <1>2, <2>1 DEF Place, Input, AddBox, AddWalker, TeleportWalker, RemoveWalker,
                      Crossed, BodiesType
<1> QED
  BY <1>1, <1>2 DEF SleepInv, InWorld, GroundReady

LEMMA FinishKeepsSleep ==
  ASSUME BodiesType, GroundInv, SleepInv, NEW d \in Chunk, Finish(d)
  PROVE  SleepInv'
<1>1. phase = "idle" /\ UNCHANGED bodyVars
  BY DEF Finish
<1>2. \A b \in InWorld : GroundReady(b) => GroundReady(b)'
  BY <1>1, ReadyStaysReady, NearIsChunks DEF GroundReady, InWorld, bodyVars
<1> QED
  BY <1>1, <1>2 DEF SleepInv, InWorld, bodyVars

\* An update that goes on to its steps has found ready what each body in the
\* world is near, and kept it.
LEMMA UpdateKeepsSleep ==
  ASSUME BodiesType, GroundInv, SleepInv, Update
  PROVE  SleepInv'
<1>1. phase = "idle" /\ UNCHANGED <<place, aboard, moved>>
  BY DEF Update, BeginSteps, bodyVars
<1>2. \A b \in Body : state'[b] = "asleep" <=> state[b] = "asleep"
  BY DEF Update, BeginSteps, bodyVars, BodiesType
<1>3. \A b \in InWorld : GroundReady(b) => GroundReady(b)'
  BY <1>1, ReadyStaysReady, NearIsChunks DEF GroundReady, InWorld
<1>4. ASSUME phase' = "stepping", NEW b \in (Added \cap InWorld)'
      PROVE  (GroundReady(b) /\ KeptYoung(b))'
  <2>1. BeginSteps /\ \A c \in Asked : chunk[c] = "ready" \/ c \in AddBuilt
    BY <1>1, <1>4 DEF Update, bodyVars
  <2>2. b \in InWorld
    BY <1>1, <2>1 DEF InWorld, Added, BeginSteps, BodiesType
  <2>3. GroundReady(b)'
    <3>1. CASE state[b] = "asleep"
      BY <1>3, <2>2, <3>1 DEF SleepInv
    <3>2. CASE state[b] # "asleep"
      <4>1. Near[place[b]] \subseteq Asked
        BY <2>2, <3>2 DEF Asked, Asking
      <4> QED
        BY <1>1, <2>1, <2>2, <4>1, NearIsChunks
           DEF Update, GroundReady, GroundInv, ChunksType, InWorld
    <3> QED
      BY <3>1, <3>2
  <2>4. \A c \in Near[place[b]] : age'[c] = 0
    <3>1. Near[place[b]] \subseteq Kept
      BY <2>2, GroundAssumption DEF Kept, InWorld, BodiesType
    <3> QED
      BY <2>2, <3>1, NearIsChunks DEF Update, InWorld
  <2> QED
    BY <1>1, <2>1, <2>3, <2>4, GroundAssumption DEF KeptYoung, BeginSteps
<1>5. phase' = "idle" => moved' = {}
  BY <1>1 DEF SleepInv
<1>6. \A b \in Body : state'[b] = "asleep" => b \in Box \ moved'
  BY <1>1, <1>2 DEF SleepInv
<1>7. \A b \in InWorld' : state'[b] = "asleep" => GroundReady(b)'
  BY <1>1, <1>2, <1>3 DEF SleepInv, InWorld
<1> QED
  BY <1>4, <1>5, <1>6, <1>7 DEF SleepInv

\* A body not moved in a step is where it was, in the space it was in.
LEMMA UnmovedStays ==
  ASSUME BodiesType, StepBodies, NEW b \in Added', b \notin moved'
  PROVE  /\ b \in Added /\ b \notin moved
         /\ place'[b] = place[b] /\ (b \in aboard' <=> b \in aboard)
<1>1. b \in Body /\ b \in Added
  BY DEF StepBodies, Added, BodiesType
<1> QED
  BY <1>1 DEF StepBodies, BodiesType, Added

LEMMA StepKeepsSleep ==
  ASSUME BodiesType, GroundInv, SleepInv, Step
  PROVE  SleepInv'
<1>1. StepBodies /\ phase = "stepping" /\ phase' = "stepping" /\ chunk' = chunk
  BY DEF Step, StepBodies
<1>2. left \in Nat /\ left' = left - 1
  BY GroundAssumption DEF Step, StepBodies, BodiesType
<1>3. \A b \in Body : state'[b] = "asleep" => b \in Added' /\ b \in Box \ moved'
  <2> SUFFICES ASSUME NEW b \in Body, state'[b] = "asleep"
               PROVE  b \in Added' /\ b \in Box \ moved'
    OBVIOUS
  <2>1. b \in Added /\ b \in Added'
    BY <1>1 DEF StepBodies, Added, BodiesType
  <2> QED
    BY <1>1, <2>1 DEF StepBodies, BodiesType
<1>4. ASSUME NEW b \in (Added \cap InWorld)', b \notin moved'
      PROVE  (GroundReady(b) /\ KeptYoung(b))'
  <2>1. /\ b \in (Added \cap InWorld) \ moved
        /\ place'[b] = place[b]
    BY <1>1, <1>4, UnmovedStays DEF InWorld, Added
  <2>2. GroundReady(b) /\ KeptYoung(b) /\ Near[place[b]] \subseteq Chunk
    BY <1>1, <2>1, NearIsChunks DEF SleepInv, InWorld
  <2>3. \A c \in Chunk : age'[c] \in Int /\ age[c] \in Int /\ age'[c] <= age[c] + 1
    BY GroundAssumption DEF Step, GroundInv, ChunksType
  <2>4. KeptYoung(b)'
    BY <1>2, <2>1, <2>2, <2>3, GroundAssumption DEF KeptYoung
  <2> QED
    BY <1>1, <2>1, <2>2, <2>4 DEF GroundReady
<1>5. \A b \in InWorld' : state'[b] = "asleep" => GroundReady(b)'
  BY <1>3, <1>4 DEF InWorld
<1> QED
  BY <1>1, <1>3, <1>4, <1>5 DEF SleepInv

\* What is too old to keep is near no sleeper.
LEMMA EvictKeepsSleep ==
  ASSUME BodiesType, GroundInv, SleepInv, Evict
  PROVE  SleepInv'
<1>1. /\ phase = "stepping" /\ left = 0 /\ phase' = "idle" /\ moved' = {}
      /\ UNCHANGED <<place, state, aboard>>
  BY DEF Evict, EndSteps
<1>2. ASSUME NEW b \in InWorld, state[b] = "asleep"
      PROVE  GroundReady(b)'
  <2>1. b \in (Added \cap InWorld) \ moved
    BY <1>2 DEF SleepInv, InWorld, Added
  <2>2. GroundReady(b) /\ KeptYoung(b) /\ Near[place[b]] \subseteq Chunk
    BY <1>1, <2>1, NearIsChunks DEF SleepInv, InWorld
  <2>3. \A c \in Near[place[b]] : c \notin Stale
    BY <1>1, <2>2, GroundAssumption DEF KeptYoung, Stale, GroundInv, ChunksType
  <2> QED
    BY <1>1, <2>2, <2>3 DEF GroundReady, Evict
<1> QED
  BY <1>1, <1>2 DEF SleepInv, InWorld

LEMMA SleepInvariant == Spec => [](BodiesType /\ GroundInv /\ SleepInv)
<1>1. Init => BodiesType /\ GroundInv /\ SleepInv
  BY GroundInvInit DEF Init, BodiesInit, SleepInv, InWorld
<1>2. ASSUME BodiesType, GroundInv, SleepInv, [Next]_vars
      PROVE  SleepInv'
  <2>1. CASE UNCHANGED vars
    BY <1>2, <2>1 DEF vars, chunkVars, bodyVars, SleepInv, InWorld, Added, GroundReady,
                      KeptYoung
  <2> QED
    BY <1>2, <2>1, PlaceKeepsSleep, FinishKeepsSleep, UpdateKeepsSleep, StepKeepsSleep,
       EvictKeepsSleep DEF Next
<1> QED
  BY <1>1, <1>2, GroundInvStep, PTL DEF Spec

\* No one's sleep is spoiled: whatever the others do, and however far they go,
\* the chunks a sleeper can touch stay Jolt's bodies.
THEOREM SleepersKeepTheirGround == Spec => []SleepersKeepGround
<1>1. BodiesType /\ GroundInv /\ SleepInv => SleepersKeepGround
  BY GroundAssumption
     DEF GroundInv, SolidIsReady, SleepInv, GroundReady, SleepersKeepGround, OnGround,
         InWorld, BodiesType
<1> QED
  BY <1>1, SleepInvariant, PTL

-----------------------------------------------------------------------------
(* There is ground wherever the world steps. *)

\* Where the steps of one update can take a body.
Paths ==
  {path \in [0 .. MaxSteps -> Position] :
     \A i \in 1 .. MaxSteps : path[i] \in Moves[path[i - 1]]}

\* kCollisionMargin covers them.
MarginHolds == \A path \in Paths : Touch[path[MaxSteps]] \subseteq Near[path[0]]

\* A body came where it is, by steps already taken, from where an update found
\* its ground ready.
CameFromReady(b) ==
  \E path \in Paths :
    /\ \A c \in Near[path[0]] : chunk[c] = "ready"
    /\ \A i \in (MaxSteps - left) .. MaxSteps : path[i] = place[b]

StandInv ==
  /\ aboard = {}
  /\ phase = "stepping" => \A b \in Added : CameFromReady(b)

\* Without ships nothing is ever aboard.
LEMMA NoneAboard ==
  ASSUME Inside = {}, aboard = {}, [Next]_vars
  PROVE  aboard' = {}
<1>1. CASE Input
  BY <1>1 DEF Input, AddBox, AddWalker, TeleportWalker, RemoveWalker, Crossed
<1>2. CASE StepBodies
  BY <1>2 DEF StepBodies, Transfers
<1>3. CASE BeginSteps \/ EndSteps \/ UNCHANGED bodyVars
  BY <1>3 DEF BeginSteps, EndSteps, bodyVars
<1> QED
  BY <1>1, <1>2, <1>3 DEF Next, Place, Finish, Update, Step, Evict, vars

LEMMA LastSteps ==
  ASSUME NEW m \in Nat, NEW n \in 0 .. m, NEW i \in (m - n) .. m
  PROVE  i \in 0 .. m
OBVIOUS

\* A body that has not moved yet came the path that stays where it is.
LEMMA UpdateKeepsStanding ==
  ASSUME BodiesType, GroundInv, SleepInv, aboard' = {}, Update,
         phase' = "stepping", NEW b \in Added'
  PROVE  CameFromReady(b)'
<1>1. b \in Body /\ b \in InWorld' /\ moved' = {} /\ BodiesType'
  <2>1. BodiesType'
    BY BodiesKeepTypes DEF Update
  <2> QED
    BY <2>1 DEF Added, InWorld, Update, BeginSteps, bodyVars, SleepInv
<1>2. GroundReady(b)'
  BY <1>1, UpdateKeepsSleep DEF SleepInv
<1> DEFINE path == [i \in 0 .. MaxSteps |-> place'[b]]
<1>3. place'[b] \in Position /\ left' \in 0 .. MaxSteps
  BY <1>1 DEF BodiesType
<1>4. path \in Paths /\ path[0] = place'[b]
  BY <1>3, GroundAssumption DEF Paths
<1>5. \A i \in (MaxSteps - left') .. MaxSteps : path[i] = place'[b]
  BY <1>3, GroundAssumption, LastSteps
<1> HIDE DEF path
<1> QED
  BY <1>2, <1>4, <1>5 DEF CameFromReady, GroundReady

\* A step makes the path of each body one longer.
LEMMA StepKeepsStanding ==
  ASSUME BodiesType, StandInv, Step, NEW b \in Added'
  PROVE  CameFromReady(b)'
<1>1. b \in Body /\ b \in Added /\ place'[b] \in Moves[place[b]]
  BY DEF Step, StepBodies, Added, BodiesType
<1>2. PICK old \in Paths : /\ \A c \in Near[old[0]] : chunk[c] = "ready"
                           /\ \A i \in (MaxSteps - left) .. MaxSteps : old[i] = place[b]
  BY <1>1 DEF StandInv, Step, StepBodies, CameFromReady
<1> DEFINE k == MaxSteps - left
           new == [i \in 0 .. MaxSteps |-> IF i <= k THEN old[i] ELSE place'[b]]
<1>3. k \in 0 .. MaxSteps - 1 /\ MaxSteps - left' = k + 1
  BY GroundAssumption DEF Step, StepBodies, BodiesType
<1>4. place'[b] \in Position /\ old[k] = place[b]
  BY <1>1, <1>2, <1>3, GroundAssumption DEF BodiesType
<1>5. new \in [0 .. MaxSteps -> Position]
  BY <1>2, <1>4 DEF Paths
<1>6. ASSUME NEW i \in 1 .. MaxSteps PROVE new[i] \in Moves[new[i - 1]]
  <2>1. old[i] \in Moves[old[i - 1]] /\ i - 1 \in 0 .. MaxSteps /\ i \in 0 .. MaxSteps
    BY <1>2, GroundAssumption DEF Paths
  <2>2. CASE i <= k
    BY <1>3, <2>1, <2>2, GroundAssumption
  <2>3. CASE i = k + 1
    BY <1>1, <1>3, <1>4, <2>1, <2>3, GroundAssumption
  <2>4. CASE i > k + 1
    BY <1>3, <1>4, <2>1, <2>4, GroundAssumption
  <2> QED
    BY <1>3, <2>2, <2>3, <2>4, GroundAssumption
<1>7. new[0] = old[0] /\ \A i \in (k + 1) .. MaxSteps : new[i] = place'[b]
  BY <1>3, GroundAssumption
<1>8. new \in Paths
  BY <1>5, <1>6 DEF Paths
<1>9. chunk' = chunk
  BY DEF Step
<1>10. \A i \in (MaxSteps - left') .. MaxSteps : new[i] = place'[b]
  BY <1>3, <1>7
<1> HIDE DEF new, k
<1> QED
  BY <1>2, <1>7, <1>8, <1>9, <1>10 DEF CameFromReady

LEMMA StandStep ==
  ASSUME Inside = {}, BodiesType, GroundInv, SleepInv, StandInv, [Next]_vars
  PROVE  StandInv'
<1>1. aboard' = {}
  BY NoneAboard DEF StandInv
<1>2. CASE Update
  BY <1>1, <1>2, UpdateKeepsStanding DEF StandInv
<1>3. CASE Step
  BY <1>1, <1>3, StepKeepsStanding DEF StandInv
<1>4. CASE Place \/ (\E c \in Chunk : Finish(c)) \/ Evict
  <2>1. phase' = "idle"
    BY <1>4 DEF Place, Input, AddBox, AddWalker, TeleportWalker, RemoveWalker, Finish,
                bodyVars, Evict, EndSteps
  <2> QED
    BY <1>1, <2>1 DEF StandInv
<1>5. CASE UNCHANGED vars
  BY <1>5 DEF vars, chunkVars, bodyVars, StandInv, Added, CameFromReady
<1> QED
  BY <1>2, <1>3, <1>4, <1>5 DEF Next

\* Nothing falls through ground that is on its way, as long as the margin
\* covers what a body moves in one update and no ship lets it out in between.
THEOREM GroundIsAlwaysThere ==
  ASSUME MarginHolds, Inside = {}
  PROVE  Spec => []GroundIsThere
<1>1. Init => StandInv
  BY DEF Init, BodiesInit, StandInv
<1>2. BodiesType /\ GroundInv /\ SleepInv /\ StandInv /\ [Next]_vars => StandInv'
  BY StandStep
<1>3. BodiesType /\ GroundInv /\ StandInv => GroundIsThere
  <2> SUFFICES ASSUME BodiesType, GroundInv, StandInv, phase = "stepping",
                      NEW b \in Added \cap InWorld
               PROVE  OnGround(b)
    BY DEF GroundIsThere
  <2>1. PICK path \in Paths : /\ \A c \in Near[path[0]] : chunk[c] = "ready"
                              /\ path[MaxSteps] = place[b]
    <3>1. MaxSteps \in (MaxSteps - left) .. MaxSteps
      BY GroundAssumption DEF BodiesType
    <3> QED
      BY <3>1 DEF StandInv, CameFromReady
  <2>2. \A c \in Touch[place[b]] : chunk[c] = "ready"
    BY <2>1, MarginHolds DEF MarginHolds
  <2> QED
    BY <2>2 DEF OnGround, GroundInv, SolidIsReady
<1> QED
  BY <1>1, <1>2, <1>3, SleepInvariant, PTL DEF Spec

-----------------------------------------------------------------------------
(* What is waited for is what the bodies, held still meanwhile, have asked   *)
(* for.                                                                      *)

AskedInv ==
  /\ phase = "stepping" => Quiet
  /\ ~Quiet => /\ \A c \in Chunk : chunk[c] \in {"building", "built"} => c \in Asked
               /\ \A c \in Asked : chunk[c] # "none"

LEMMA AskedIsKept ==
  ASSUME BodiesType
  PROVE  Asked \subseteq Kept /\ Kept \subseteq Chunk
<1>1. \A b \in InWorld : Near[place[b]] \subseteq Around[place[b]] /\ Around[place[b]] \subseteq Chunk
  BY GroundAssumption DEF BodiesType, InWorld
<1> QED
  BY <1>1 DEF Asked, Kept, Asking

\* An update that leaves some chunk waited for has left the bodies where they
\* were; one that goes on to its steps has left nothing to wait for.
LEMMA UpdateKeepsAsked ==
  ASSUME BodiesType, GroundInv, AskedInv, Update
  PROVE  AskedInv'
<1>1. chunk' = [c \in Chunk |-> IF c \in AddBuilt THEN "ready"
                                ELSE IF c \in Asked /\ chunk[c] = "none" THEN "building"
                                ELSE chunk[c]]
  BY DEF Update
<1>2. phase = "idle" /\ Asked \subseteq Chunk
  BY AskedIsKept DEF Update
<1>3. ASSUME NEW c \in Chunk, chunk[c] \in {"building", "built"} PROVE c \in Asked
  BY <1>3 DEF AskedInv, Quiet
<1>4. CASE \E c \in Asked : chunk[c] # "ready" /\ c \notin AddBuilt
  <2>1. UNCHANGED bodyVars
    BY <1>4 DEF Update
  <2>2. Asked' = Asked /\ phase' = "idle"
    BY <1>2, <2>1 DEF bodyVars, Asked, Asking, InWorld
  <2>3. \A c \in Chunk : chunk'[c] \in {"building", "built"} => c \in Asked
    BY <1>1, <1>3
  <2>4. \A c \in Asked : chunk'[c] # "none"
    BY <1>1, <1>2
  <2> QED
    BY <2>2, <2>3, <2>4 DEF AskedInv
<1>5. CASE \A c \in Asked : chunk[c] = "ready" \/ c \in AddBuilt
  <2>1. Quiet'
    BY <1>1, <1>3, <1>5 DEF Quiet, GroundInv, ChunksType
  <2> QED
    BY <2>1 DEF AskedInv
<1> QED
  BY <1>4, <1>5

LEMMA AskedStep ==
  ASSUME Settled, BodiesType, GroundInv, AskedInv, [Next]_vars
  PROVE  AskedInv'
<1>1. CASE Place
  BY <1>1 DEF Place, chunkVars, Quiet, AskedInv
<1>2. ASSUME NEW c \in Chunk, Finish(c) PROVE AskedInv'
  <2>1. phase = "idle" /\ phase' = "idle" /\ Asked' = Asked
    BY <1>2 DEF Finish, bodyVars, Asked, Asking, InWorld
  <2>2. chunk[c] = "building" /\ Asked \subseteq Chunk
    BY <1>2, AskedIsKept DEF Finish, GroundInv, BuildingExact
  <2>3. chunk' = [chunk EXCEPT ![c] = IF c \in Surface THEN "built" ELSE "ready"]
    BY <1>2 DEF Finish
  <2>4. ~Quiet
    BY <2>2 DEF Quiet
  <2> QED
    BY <2>1, <2>2, <2>3, <2>4 DEF AskedInv, GroundInv, ChunksType
<1>3. CASE Update
  BY <1>3, UpdateKeepsAsked
<1>4. CASE Step
  BY <1>4 DEF Step, StepBodies, AskedInv, Quiet
<1>5. CASE Evict
  BY <1>5 DEF Evict, EndSteps, AskedInv, Quiet, Stale, GroundInv, ChunksType
<1>6. CASE UNCHANGED vars
  BY <1>6 DEF vars, chunkVars, bodyVars, AskedInv, Quiet, Asked, Asking, InWorld
<1> QED
  BY <1>1, <1>2, <1>3, <1>4, <1>5, <1>6 DEF Next

-----------------------------------------------------------------------------
(* The refinement. *)

\* A chunk's age in the abstract world, where only solid ground has one.
SolidAge == [c \in Chunk |-> IF c \in solid THEN age[c] ELSE 0]

\* Before the last of what was asked for is back there is nothing to see; then
\* it is all there, and only that.
LEMMA AddsAllOrNothing ==
  ASSUME BodiesType, GroundInv, AskedInv, phase = "idle"
  PROVE  IF \E c \in Asked : chunk[c] # "ready" /\ c \notin AddBuilt
         THEN AddBuilt = {}
         ELSE solid \cup AddBuilt = solid \cup (Asked \cap Surface)
<1>1. Asked \subseteq Chunk /\ AddBuilt \subseteq Asked \cap Surface
  BY AskedIsKept DEF AddBuilt, AskedInv, Quiet, GroundInv, BuiltHasSurface
<1>2. ASSUME NEW d \in AddBuilt PROVE \A c \in Asked : chunk[c] = "ready" \/ c \in AddBuilt
  <2>1. jobs = {}
    BY JobsFinite, FS_EmptySet DEF AddBuilt, GroundInv, BuildingExact
  <2>2. chunk[d] = "built" /\ d \in Chunk
    BY DEF AddBuilt
  <2>3. \A c \in Asked : chunk[c] # "none"
    BY <2>2 DEF AskedInv, Quiet
  <2>4. \A c \in Asked : chunk[c] # "building"
    BY <1>1, <2>1 DEF GroundInv, BuildingExact
  <2>5. AddBuilt = {c \in Chunk : chunk[c] = "built"}
    BY DEF AddBuilt
  <2> QED
    BY <1>1, <2>3, <2>4, <2>5 DEF GroundInv, ChunksType
<1>3. CASE \E c \in Asked : chunk[c] # "ready" /\ c \notin AddBuilt
  BY <1>2, <1>3
<1>4. CASE \A c \in Asked : chunk[c] = "ready" \/ c \in AddBuilt
  <2>1. Asked \cap Surface \subseteq solid \cup AddBuilt
    BY <1>1, <1>4 DEF GroundInv, SolidIsReady
  <2> QED
    BY <1>1, <1>4, <2>1
<1> QED
  BY <1>3, <1>4

LEMMA UpdateImplements ==
  ASSUME BodiesType, GroundInv, AskedInv, Update
  PROVE  Ground!Rests \/ Ground!Update
<1>1. phase = "idle" /\ solid' = solid \cup AddBuilt /\ Kept \subseteq Chunk
  BY AskedIsKept DEF Update
<1>2. age' = [c \in Chunk |-> IF c \in Kept THEN 0 ELSE age[c]]
  BY DEF Update
<1>3. AddBuilt \subseteq Kept
  BY AskedIsKept DEF AddBuilt, AskedInv, Quiet
<1>4. SolidAge' = [c \in Chunk |-> IF c \in Kept THEN 0 ELSE SolidAge[c]]
  BY <1>1, <1>2, <1>3 DEF SolidAge
<1>5. Ground!Keep
  BY <1>4 DEF SolidAge, Ground!Keep, Ground!Kept, Kept, Ground!InWorld, InWorld, Ground!Body, Body
<1>6. CASE \E c \in Asked : chunk[c] # "ready" /\ c \notin AddBuilt
  <2>1. UNCHANGED <<bodyVars, solid>>
    BY <1>1, <1>6, AddsAllOrNothing DEF Update
  <2> QED
    BY <1>1, <1>5, <2>1 DEF Ground!Rests, Ground!bodyVars, bodyVars
<1>7. CASE \A c \in Asked : chunk[c] = "ready" \/ c \in AddBuilt
  <2>1. BeginSteps /\ solid' = solid \cup (Asked \cap Surface)
    BY <1>1, <1>7, AddsAllOrNothing DEF Update
  <2>2. Ground!BeginSteps
    BY <2>1 DEF BeginSteps, Ground!BeginSteps, Body, Ground!Body
  <2>3. Ground!Asked = Asked
    BY DEF Asked, Ground!Asked, Asking, Ground!Asking, InWorld, Ground!InWorld, Body, Ground!Body
  <2> QED
    BY <1>5, <2>1, <2>2, <2>3 DEF Ground!Update
<1> QED
  BY <1>6, <1>7

LEMMA StepImplements ==
  ASSUME BodiesType, GroundInv, Step
  PROVE  Ground!Step
<1>1. Ground!StepBodies
  BY DEF Step, StepBodies, Ground!StepBodies, Transfers, Ground!Transfers, Added, Ground!Added,
         Body, Ground!Body
<1>2. SolidAge' = [c \in Chunk |-> IF c \in solid /\ SolidAge[c] <= KeepSteps
                                   THEN SolidAge[c] + 1 ELSE SolidAge[c]]
  BY DEF Step, SolidAge, GroundInv, SolidIsReady
<1> QED
  BY <1>1, <1>2 DEF Step, Ground!Step, SolidAge

LEMMA EvictImplements ==
  ASSUME BodiesType, GroundInv, Evict
  PROVE  Ground!Evict
<1>1. Ground!EndSteps
  BY DEF Evict, EndSteps, Ground!EndSteps
<1>2. solid' = {c \in solid : SolidAge[c] <= KeepSteps}
  BY GroundAssumption DEF Evict, SolidAge, Stale, GroundInv, SolidIsReady, ChunksType
<1>3. SolidAge' = [c \in Chunk |-> IF c \in solid' THEN SolidAge[c] ELSE 0]
  BY DEF Evict, SolidAge, Stale, GroundInv, ChunksType
<1> QED
  BY <1>1, <1>2, <1>3 DEF Ground!Evict, SolidAge

LEMMA PlaceImplements ==
  ASSUME Place
  PROVE  Ground!Asks
<1>1. Ground!Input
  BY DEF Place, Input, Ground!Input, AddBox, Ground!AddBox, AddWalker, Ground!AddWalker,
         TeleportWalker, Ground!TeleportWalker, RemoveWalker, Ground!RemoveWalker,
         Crossed, Ground!Crossed, Nowhere, Ground!Nowhere
<1>2. UNCHANGED <<solid, SolidAge>>
  BY DEF Place, chunkVars, SolidAge
<1> QED
  BY <1>1, <1>2 DEF Ground!Asks, SolidAge

LEMMA GroundStep ==
  ASSUME BodiesType, GroundInv, AskedInv, [Next]_vars
  PROVE  [Ground!Next]_(Ground!groundVars)
<1>1. CASE (\E c \in Chunk : Finish(c)) \/ UNCHANGED vars
  <2>1. UNCHANGED <<bodyVars, solid, SolidAge>>
    BY <1>1 DEF Finish, vars, chunkVars, SolidAge
  <2> QED
    BY <2>1 DEF Ground!groundVars, Ground!bodyVars, bodyVars, SolidAge
<1>2. CASE Place
  BY <1>2, PlaceImplements DEF Ground!Next
<1>3. CASE Update
  BY <1>3, UpdateImplements DEF Ground!Next
<1>4. CASE Step
  BY <1>4, StepImplements DEF Ground!Next
<1>5. CASE Evict
  BY <1>5, EvictImplements DEF Ground!Next
<1> QED
  BY <1>1, <1>2, <1>3, <1>4, <1>5 DEF Next

LEMMA GroundStart == Init => Ground!Init
BY DEF Init, Ground!Init, BodiesInit, Ground!BodiesInit, Body, Ground!Body, Nowhere, Ground!Nowhere

\* The simulation does not depend on how long the pool took: for any bodies that
\* are placed while no ground is waited for, with or without a ship, Jolt has the
\* ground of a world that builds it at once, batch by batch and eviction by
\* eviction, at the same steps.
THEOREM GroundIsAsIfAtOnce == ASSUME Settled PROVE Spec => ImplementsSolidGround
<1>1. Init => AskedInv
  BY DEF Init, BodiesInit, AskedInv, Quiet
<1>2. BodiesType /\ GroundInv /\ AskedInv /\ [Next]_vars => AskedInv'
  BY AskedStep
<1>3. BodiesType /\ GroundInv /\ AskedInv /\ [Next]_vars => [Ground!Next]_(Ground!groundVars)
  BY GroundStep
<1> QED
  BY <1>1, <1>2, <1>3, GroundStart, GroundInvariant, PTL
     DEF Spec, ImplementsSolidGround, Ground!Spec
=============================================================================
