---------------------------- MODULE GroundBodies ----------------------------
(***************************************************************************)
(* physics/physics_world, what moves: the rigid bodies and the walking     *)
(* character, held until their ground is built, then stepped; in the       *)
(* world's space or aboard a ship.  Where they go in a step is Jolt's      *)
(* choice: anywhere within Moves.  SolidGround and CollisionGround say     *)
(* what ground is under them.                                              *)
(***************************************************************************)
EXTENDS Integers, FiniteSets

CONSTANTS
  Box,          \* entities that may be given a RigidBody
  Walker,       \* the character: a set of at most one
  Position,     \* where a body can be
  Moves,        \* Moves[p]: where a step can take it from p
  Inside,       \* the positions in a ship's volume; the ship has no hull
  Chunk,        \* collision chunks
  Surface,      \* the chunks with a surface, which become static bodies
  Touch,        \* Touch[p]: the chunks a body at p can collide with
  Near,         \* those within its bound and the margin
  Around,       \* those within its bound and twice the margin
  MaxSteps,     \* kPhysicsMaxSteps
  KeepSteps     \* kCollisionKeepSteps

Body == Box \cup Walker

ASSUME GroundAssumption ==
  /\ Box \cap Walker = {} /\ IsFiniteSet(Chunk) /\ Surface \subseteq Chunk
  /\ Position # {} /\ Inside \subseteq Position
  /\ Moves \in [Position -> SUBSET Position] /\ \A p \in Position : p \in Moves[p]
  /\ Touch \in [Position -> SUBSET Chunk]
  /\ Near \in [Position -> SUBSET Chunk]
  /\ Around \in [Position -> SUBSET Chunk]
  /\ \A p \in Position : Touch[p] \subseteq Near[p] /\ Near[p] \subseteq Around[p]
  /\ MaxSteps \in Nat /\ KeepSteps \in Nat /\ MaxSteps <= KeepSteps

VARIABLES
  place,        \* RigidBody::position, the character's feet
  state,        \* none yet, held, awake or asleep
  aboard,       \* the bodies in a ship's space
  phase,        \* update()'s: between two, or in the loop of its steps
  left,         \* steps that loop still takes
  moved         \* the bodies that have moved in that loop

bodyVars == <<place, state, aboard, phase, left, moved>>

Added == {b \in Body : state[b] \in {"awake", "asleep"}}

InWorld == {b \in Body : state[b] # "none" /\ b \notin aboard}

MutantAskingAdded == {b \in InWorld : state[b] = "awake"}

\* The bodies whose ground is built: held or awake, or the character.
Asking == {b \in InWorld : state[b] # "asleep"}

Asked == UNION {Near[place[b]] : b \in Asking}

MutantKeptAwake == UNION {Around[place[b]] : b \in Asking}

Kept == UNION {Around[place[b]] : b \in InWorld}

\* The place of what does not exist.
Nowhere == CHOOSE p \in Position : TRUE

BodiesInit ==
  /\ place = [b \in Body |-> Nowhere]
  /\ state = [b \in Body |-> "none"]
  /\ aboard = {} /\ moved = {}
  /\ phase = "idle" /\ left = 0

\* add_box, add_sphere: held, in the world.
AddBox(b, p) ==
  /\ phase = "idle" /\ state[b] = "none"
  /\ place' = [place EXCEPT ![b] = p]
  /\ state' = [state EXCEPT ![b] = "held"]
  /\ UNCHANGED <<aboard, phase, left, moved>>

Crossed(b, p) == IF p \in Inside THEN aboard \cup {b} ELSE aboard \ {b}

\* add_character: held, in the space its feet are in.
AddWalker(b, p) ==
  /\ phase = "idle"
  /\ place' = [place EXCEPT ![b] = p]
  /\ state' = [state EXCEPT ![b] = "held"]
  /\ aboard' = Crossed(b, p)
  /\ UNCHANGED <<phase, left, moved>>

RemoveWalker(b) ==
  /\ phase = "idle" /\ state[b] # "none"
  /\ state' = [state EXCEPT ![b] = "none"]
  /\ place' = [place EXCEPT ![b] = Nowhere]
  /\ aboard' = aboard \ {b}
  /\ UNCHANGED <<phase, left, moved>>

\* teleport_character: at once, and it is not held again.
TeleportWalker(b, p) ==
  /\ phase = "idle" /\ state[b] # "none"
  /\ place' = [place EXCEPT ![b] = p]
  /\ aboard' = Crossed(b, p)
  /\ UNCHANGED <<state, phase, left, moved>>

Input ==
  \/ \E b \in Box, p \in Position : AddBox(b, p)
  \/ \E b \in Walker, p \in Position : AddWalker(b, p) \/ TeleportWalker(b, p)
  \/ \E b \in Walker : RemoveWalker(b)

\* update() once nothing waits: what was held is added and activated, and so
\* many steps are due.
BeginSteps ==
  /\ phase = "idle" /\ phase' = "stepping"
  /\ left' \in 0 .. MaxSteps
  /\ state' = [b \in Body |-> IF state[b] = "held" THEN "awake" ELSE state[b]]
  /\ UNCHANGED <<place, aboard, moved>>

\* The bodies that may be aboard after transfer(): one is as soon as it reaches
\* into the volume, and stays until it is out, or, by the hysteresis, longer.
Transfers ==
  LET inside == {b \in Added : place[b] \in Inside}
  IN {(aboard \ Added) \cup inside \cup stay : stay \in SUBSET (aboard \cap Added)}

\* Impl::step: bodies cross, then move.  What crosses is made again, awake; a
\* sleeper may be woken by a contact; a body falls asleep only after half a
\* second at rest, longer than MaxSteps.
StepBodies ==
  /\ phase = "stepping" /\ left > 0
  /\ left' = left - 1
  /\ aboard' \in Transfers
  /\ LET crossed == (aboard \ aboard') \cup (aboard' \ aboard)
     IN
     \E to \in [Added -> Position], awake \in SUBSET Added :
       /\ \A b \in Added :
            /\ to[b] \in Moves[place[b]]
            /\ b \notin awake => b \in Box \ (moved \cup crossed) /\ to[b] = place[b]
       /\ place' = [b \in Body |-> IF b \in Added THEN to[b] ELSE place[b]]
       /\ state' = [b \in Body |-> IF b \in awake THEN "awake"
                                   ELSE IF b \in Added THEN "asleep" ELSE state[b]]
       /\ moved' = moved \cup crossed \cup {b \in Added : to[b] # place[b]}
  /\ UNCHANGED phase

EndSteps ==
  /\ phase = "stepping" /\ left = 0
  /\ phase' = "idle" /\ moved' = {}
  /\ UNCHANGED <<place, state, aboard, left>>

BodiesType ==
  /\ place \in [Body -> Position]
  /\ state \in [Body -> {"none", "held", "awake", "asleep"}]
  /\ aboard \subseteq {b \in Body : state[b] # "none"}
  /\ phase \in {"idle", "stepping"}
  /\ left \in 0 .. MaxSteps
  /\ moved \subseteq Body
=============================================================================
