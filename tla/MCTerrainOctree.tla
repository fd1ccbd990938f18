--------------------------- MODULE MCTerrainOctree --------------------------
(* A root with one child on the surface, which splits in two: three LODs, so *)
(* a node can be merged or split through a level that was never shown.       *)
EXTENDS TerrainOctree, TLC

CONSTANTS r, a, b, c

MCNode == {r, a, b, c}
MCAbove == r :> {} @@ a :> {r} @@ b :> {r, a} @@ c :> {r, a}
MCFinest == {b, c}
MCCoarse == {r}
=============================================================================
