----------------------------- MODULE SolidGround ----------------------------
(***************************************************************************)
(* The ground PhysicsWorld promises: a world with no worker pool, in which *)
(* whatever ground the bodies ask for is there at once, in one batch of    *)
(* static bodies, before they step on it.  What Jolt is given, and so the  *)
(* simulation, depends on the bodies alone.                                *)
(***************************************************************************)
EXTENDS GroundBodies

VARIABLES
  solid,        \* the chunks that are static bodies
  age           \* for those, the steps since a body last kept them

groundVars == <<bodyVars, solid, age>>

Init ==
  /\ BodiesInit
  /\ solid = {} /\ age = [c \in Chunk |-> 0]

Keep == age' = [c \in Chunk |-> IF c \in Kept THEN 0 ELSE age[c]]

\* A body new to the world, or the character elsewhere.
Asks == Input /\ UNCHANGED <<solid, age>>

\* Keeping twice is keeping once.
Rests == phase = "idle" /\ Keep /\ UNCHANGED <<bodyVars, solid>>

Update ==
  /\ BeginSteps
  /\ solid' = solid \cup (Asked \cap Surface)
  /\ Keep

Step ==
  /\ StepBodies
  /\ age' = [c \in Chunk |-> IF c \in solid /\ age[c] <= KeepSteps THEN age[c] + 1 ELSE age[c]]
  /\ UNCHANGED solid

Evict ==
  /\ EndSteps
  /\ solid' = {c \in solid : age[c] <= KeepSteps}
  /\ age' = [c \in Chunk |-> IF c \in solid' THEN age[c] ELSE 0]

Next == Asks \/ Rests \/ Update \/ Step \/ Evict

Spec == Init /\ [][Next]_groundVars
=============================================================================
