-------------------------- MODULE MCCollisionGround -------------------------
(* A line of chunks, one position in each.  A box moves one chunk a step and *)
(* at most two steps an update, so a margin of two holds it.                 *)
EXTENDS CollisionGround

CONSTANTS Length, Speed, Margin

MCPosition == 1 .. Length
MCWithin(p, d) == {q \in MCPosition : q - p \in -d .. d}
MCMoves == [p \in MCPosition |-> MCWithin(p, Speed)]
MCTouch == [p \in MCPosition |-> {p}]
MCNear == [p \in MCPosition |-> MCWithin(p, Margin)]
MCAround == [p \in MCPosition |-> MCWithin(p, 2 * Margin)]
=============================================================================
