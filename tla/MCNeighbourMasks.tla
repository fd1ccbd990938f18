-------------------------- MODULE MCNeighbourMasks --------------------------
(* Two roots of three LODs in the plane, and a surface that runs through     *)
(* them: chunks next to each other over a face and over a corner, in one     *)
(* root and in two, with places that have no surface between.                *)
EXTENDS NeighbourMasks, Sequences

MCAxis == {1, 2}

\* The chunks of the finest LOD on the surface, and all that contain one.
Cells == {<<0, 3>>, <<1, 2>>, <<2, 1>>, <<3, 1>>, <<4, 1>>, <<5, 2>>}

Cell(c) == [lod |-> 0, origin |-> c]
MCLand ==
  LET finest == {Cell(c) : c \in Cells}
      middle == {ParentOf(k) : k \in finest}
  IN  finest \cup middle \cup {ParentOf(k) : k \in middle}

MCBare == {Cell(<<2, 1>>)}
=============================================================================
