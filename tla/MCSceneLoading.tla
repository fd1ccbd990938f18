--------------------------- MODULE MCSceneLoading ---------------------------
(* A ship with a seat attached, and a tile set that the terrain uses too.    *)
(* The ship is one of a few files: with a moving door and what is under it,  *)
(* an excluded hatch, physics shapes, meshes used twice, primitives without  *)
(* a material or that are no triangles, and broken ones.                     *)
EXTENDS SceneLoading

CONSTANTS ship, seat, hull, cloth, tiles, map

Mesh(kinds, material) == [i \in DOMAIN kinds |-> [kind |-> kinds[i], material |-> material]]
Plain(children, mesh) == [children |-> children, mesh |-> mesh, moving |-> FALSE, shape |-> "none"]
Door(children, mesh) == [Plain(children, mesh) EXCEPT !.moving = TRUE]
Shape(kind, children, mesh) == [Plain(children, mesh) EXCEPT !.shape = kind]

File(nodes, roots, meshes, materials) ==
  [nodes |-> nodes, roots |-> roots, meshes |-> meshes, materials |-> materials]

Triangles == <<"triangles">>

\* A hull with a door, whose handle is under it, and a hatch.
Ship ==
  File(<<Plain(<<2, 4>>, 1), Door(<<3>>, 2), Plain(<<>>, 1), Plain(<<>>, 0)>>, <<1>>,
       <<Mesh(<<"triangles", "lines">>, 0), Mesh(Triangles, 1)>>, <<<<hull>>>>)

\* Two roots, physics shapes with and without a mesh, drawn nodes under them.
Shapes ==
  File(<<Shape("box", <<2>>, 0), Plain(<<>>, 1), Shape("hull", <<4>>, 1), Plain(<<>>, 2)>>, <<3, 1>>,
       <<Mesh(Triangles, 1), Mesh(<<"lines", "triangles">>, 0)>>, <<<<hull, hull, cloth>>>>)

\* A mesh no node uses is malformed, and then one that a node does use.
Unused ==
  File(<<Plain(<<>>, 2)>>, <<1>>, <<Mesh(<<"malformed">>, 0), Mesh(Triangles, 0)>>, <<>>)
Broken == [Unused EXCEPT !.nodes[1].mesh = 1]

Chair == File(<<Plain(<<>>, 1)>>, <<1>>, <<Mesh(Triangles, 1)>>, <<<<cloth>>>>)

MCFiles == {[m \in {ship, seat} |-> IF m = ship THEN f ELSE Chair] :
             f \in {Ship, Shapes, Unused, Broken}}
MCMaps == [s \in {tiles} |-> <<cloth>>]

ShipSpawn ==
  [model |-> ship, collision |-> "mesh", noCollision |-> {4}, ship |-> TRUE,
   attachments |-> <<[node |-> 4, model |-> seat, collision |-> "hulls"],
                     [node |-> 9, model |-> seat, collision |-> "hulls"]>>]

MCPalette == <<tiles>>

MCScript == <<[op |-> "sets", sets |-> <<tiles>>], [op |-> "load", model |-> seat],
              [op |-> "spawn", spawn |-> ShipSpawn]>>
=============================================================================
