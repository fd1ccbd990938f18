--------------------------- MODULE MCMeshStreaming --------------------------
(* Two mesh slots, each reused once, two ranges, and a staging slot that     *)
(* holds two of the smaller meshes or none of the larger.                    *)
EXTENDS MeshStreaming

CONSTANTS p1, p2

MCIndex == 1 .. 2
MCPool == {p1, p2}
=============================================================================
