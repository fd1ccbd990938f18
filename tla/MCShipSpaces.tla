---------------------------- MODULE MCShipSpaces ----------------------------
(* A ship that has a hull, turned about, with a deck and a lamp on it, beside *)
(* one that has none, and something whose parent is gone.                     *)
EXTENDS ShipSpaces

CONSTANTS hull, still, deck, lamp, stray, gone, box1, box2, person, null

At(p, r, e) == [position |-> p, rotation |-> r, parent |-> e]

MCEntity == {hull, still, deck, lamp, stray, box1, box2}
MCShips == <<hull, still>>
MCBoxes == <<box1, box2>>
MCVolumes == hull :> {<<-1, 1>>, <<1, 2>>} @@ still :> {<<-2, 0>>}
MCScenery == hull :> At(3, -1, null) @@ still :> At(-2, 1, null)
             @@ deck :> At(1, 1, hull) @@ lamp :> At(1, -1, deck)
             @@ stray :> At(5, -1, gone)
MCPlaces == box1 :> {0} @@ box2 :> {4} @@ person :> {1}
MCGravity == -1
MCOrders == {<<hull, still, deck, lamp, stray, box1, box2>>, <<stray, lamp, deck, box2, box1, still, hull>>,
             <<box2, deck, lamp, hull, stray, still, box1>>}
=============================================================================
