----------------------- MODULE MCTerrainOctreeHurried -----------------------
(* A root and its two halves: enough to go and come back too soon. *)
EXTENDS TerrainOctree, TLC

CONSTANTS r, a, b

MCNode == {r, a, b}
MCAbove == r :> {} @@ a :> {r} @@ b :> {r}
MCFinest == {a, b}
MCCoarse == {r}
=============================================================================
