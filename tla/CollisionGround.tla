--------------------------- MODULE CollisionGround --------------------------
(***************************************************************************)
(* physics/physics_world, the terrain's ground: chunks asked for around    *)
(* each moving body, meshed on the worker pool, made static bodies once    *)
(* all that were asked for are back, kept, and evicted.                    *)
(*                                                                         *)
(* The main thread's frame is the pool's drain, whose completions are      *)
(* Finish, then update(): Update up to its steps, then Step and Evict.     *)
(***************************************************************************)
EXTENDS GroundBodies

CONSTANT
  Settled       \* bodies are added, and the character placed, only while no
                \* ground is waited for

VARIABLES
  chunk,        \* Impl::chunks: none, building, built (a shape and no body
                \* yet) or ready
  age,          \* steps - Chunk::needed
  solid,        \* the chunks' static bodies in Jolt's world
  building,     \* Impl::building
  jobs          \* the pool's jobs, up to the end of their completion

chunkVars == <<chunk, age, solid, building, jobs>>
vars == <<bodyVars, chunkVars>>

Init ==
  /\ BodiesInit
  /\ chunk = [c \in Chunk |-> "none"]
  /\ age = [c \in Chunk |-> 0]
  /\ solid = {} /\ building = 0 /\ jobs = {}

Quiet == \A c \in Chunk : chunk[c] \in {"none", "ready"}

Place == Input /\ (Settled => Quiet) /\ UNCHANGED chunkVars

MutantFinishCountsShapes(c) ==
  /\ phase = "idle" /\ c \in jobs
  /\ jobs' = jobs \ {c}
  /\ building' = IF c \in Surface THEN building - 1 ELSE building
  /\ chunk' = [chunk EXCEPT ![c] = IF c \in Surface THEN "built" ELSE "ready"]
  /\ UNCHANGED <<bodyVars, age, solid>>

\* The completion of a chunk's job: a chunk without a surface is ready at once.
Finish(c) ==
  /\ phase = "idle" /\ c \in jobs
  /\ jobs' = jobs \ {c}
  /\ building' = building - 1
  /\ chunk' = [chunk EXCEPT ![c] = IF c \in Surface THEN "built" ELSE "ready"]
  /\ UNCHANGED <<bodyVars, age, solid>>

MutantAddBuiltAtOnce == {c \in Chunk : chunk[c] = "built"}

\* add_built(): what becomes a body, once every chunk asked for is back.
AddBuilt == IF building > 0 THEN {} ELSE {c \in Chunk : chunk[c] = "built"}

\* ensure() around the asking bodies, keep() around all of them, and then the
\* steps, unless some chunk asked for is not ready.
Update ==
  LET added == AddBuilt
      new == {c \in Asked : chunk[c] = "none"}
      waiting == \E c \in Asked : chunk[c] # "ready" /\ c \notin added
  IN
  /\ phase = "idle"
  /\ chunk' = [c \in Chunk |-> IF c \in added THEN "ready"
                               ELSE IF c \in new THEN "building" ELSE chunk[c]]
  /\ solid' = solid \cup added
  /\ jobs' = jobs \cup new
  /\ building' = building + Cardinality(new)
  /\ age' = [c \in Chunk |-> IF c \in Kept THEN 0 ELSE age[c]]
  /\ IF waiting THEN UNCHANGED bodyVars ELSE BeginSteps

Step ==
  /\ StepBodies
  /\ age' = [c \in Chunk |->
       IF chunk[c] # "none" /\ age[c] <= KeepSteps THEN age[c] + 1 ELSE age[c]]
  /\ UNCHANGED <<chunk, solid, building, jobs>>

Stale == {c \in Chunk : chunk[c] = "ready" /\ age[c] > KeepSteps}

MutantEvict ==
  /\ EndSteps
  /\ chunk' = [c \in Chunk |-> IF c \in Stale THEN "none" ELSE chunk[c]]
  /\ age' = [c \in Chunk |-> IF c \in Stale THEN 0 ELSE age[c]]
  /\ UNCHANGED <<solid, building, jobs>>

Evict ==
  /\ EndSteps
  /\ chunk' = [c \in Chunk |-> IF c \in Stale THEN "none" ELSE chunk[c]]
  /\ solid' = solid \ Stale
  /\ age' = [c \in Chunk |-> IF c \in Stale THEN 0 ELSE age[c]]
  /\ UNCHANGED <<building, jobs>>

Next ==
  \/ Place
  \/ \E c \in Chunk : Finish(c)
  \/ Update
  \/ Step
  \/ Evict

Spec == Init /\ [][Next]_vars

\* The pool finishes its jobs and the main loop drains and updates.
Fairness ==
  /\ \A c \in Chunk : WF_vars(Finish(c))
  /\ WF_vars(Update)
  /\ WF_vars(Step)
  /\ WF_vars(Evict)

FairSpec == Spec /\ Fairness

-----------------------------------------------------------------------------

TypeOK ==
  /\ BodiesType
  /\ chunk \in [Chunk -> {"none", "building", "built", "ready"}]
  /\ age \in [Chunk -> 0 .. KeepSteps + 1]
  /\ solid \subseteq Surface
  /\ building \in Nat
  /\ jobs \subseteq Chunk

\* building, which add_built() and idle() go by, is the number of jobs whose
\* completion has not run, and each is of a chunk that is still in the map: no
\* chunk is evicted under its job, or asked for twice.
BuildingExact ==
  /\ building = Cardinality(jobs)
  /\ jobs = {c \in Chunk : chunk[c] = "building"}

\* Jolt's world holds exactly the surfaces of the ready chunks: none is left
\* behind by an eviction, made twice, or missing under a chunk taken for built.
SolidIsReady == solid = {c \in Surface : chunk[c] = "ready"}

\* The collision cache's books: all of its type, its count of jobs and Jolt's
\* bodies exactly what its chunks say.
ChunksExact == TypeOK /\ BuildingExact /\ SolidIsReady

OnGround(b) == Touch[place[b]] \cap Surface \subseteq solid

\* "Nothing falls through ground that is on its way" (physics_world.hpp:21):
\* while the world steps, whatever an added body can touch is there.
GroundIsThere ==
  phase = "stepping" => \A b \in Added \cap InWorld : OnGround(b)

\* "Asleep, a body stays where it is, over ground already built"
\* (physics_world.cpp:1482), and nothing evicts that ground, however long it
\* sleeps and wherever everyone else goes.
SleepersKeepGround ==
  \A b \in InWorld : state[b] = "asleep" => OnGround(b)

\* A body that is held gets its ground and is added.
HeldAreAdded ==
  \A b \in Body : state[b] = "held" ~> state[b] # "held"

Ground == INSTANCE SolidGround WITH
  age <- [c \in Chunk |-> IF c \in solid THEN age[c] ELSE 0]

\* "The simulation does not depend on how long the pool took"
\* (physics_world.hpp:22): it is one of a world whose ground is built at once.
ImplementsSolidGround == Ground!Spec
=============================================================================
