-------------------------------- MODULE Gltf --------------------------------
(***************************************************************************)
(* render/gltf and Scene::instantiate: how a glTF file becomes a model, and *)
(* a model entities.  A file is a record of nodes, each with its children, *)
(* mesh and extras, the default scene's roots, meshes as the sequences of  *)
(* their primitives, and materials as the sequences of the images they     *)
(* name.  0 is no mesh, no material and no parent.                         *)
(***************************************************************************)
EXTENDS Integers, Sequences, FiniteSets, SequencesExt

-----------------------------------------------------------------------------
(* What glTF ensures of a file, and the parser: what is named in it is there, *)
(* and a node has no two parents, a root none.                                *)

Children(file, n) == Range(file.nodes[n].children)

NamesWhatItHas(file) ==
  /\ file.nodes \in Seq(Range(file.nodes)) /\ file.roots \in Seq(DOMAIN file.nodes)
  /\ file.meshes \in Seq(Range(file.meshes)) /\ file.materials \in Seq(Range(file.materials))
  /\ \A n \in DOMAIN file.nodes :
       /\ file.nodes[n].children \in Seq(DOMAIN file.nodes)
       /\ file.nodes[n].mesh \in {0} \cup DOMAIN file.meshes
       /\ file.nodes[n].shape \in {"none", "box", "hull"}

IsForest(file) ==
  /\ IsInjective(file.roots)
  /\ \A n \in DOMAIN file.nodes :
       /\ IsInjective(file.nodes[n].children)
       /\ Children(file, n) \cap Range(file.roots) = {}
       /\ \A m \in DOMAIN file.nodes \ {n} : Children(file, n) \cap Children(file, m) = {}

-----------------------------------------------------------------------------
(* load_gltf *)

Malformed(primitive) == primitive.kind = "malformed"

Converts(primitive) == primitive.kind = "triangles"

\* What is left of a walk over nodes, all with this parent.
Below(nodes, parent) == [i \in DOMAIN nodes |-> [node |-> nodes[i], parent |-> parent]]

\* What load_gltf has made: a model's nodes and meshes by their place, where
\* each of the file's meshes went, and the material of those that name none;
\* and the nodes it has still to visit, the next one first.
NothingYet(file) ==
  [ok |-> TRUE, nodes |-> <<>>, meshes |-> <<>>,
   meshIds |-> [s \in DOMAIN file.meshes |-> 0],
   materials |-> Len(file.materials), defaultMaterial |-> 0,
   toVisit |-> Below(file.roots, 0)]

\* The primitives of a mesh that are converted.
Drawn(file, s) == SelectSeq(file.meshes[s], Converts)

NeedsDefault(primitives) == \E i \in DOMAIN primitives : primitives[i].material = 0

\* A mesh is converted the first time a node uses it: a malformed primitive
\* fails the file, one that is not triangles is left out.
LoadMesh(file, out, s) ==
  LET drawn == Drawn(file, s)
      default == IF out.defaultMaterial = 0 /\ NeedsDefault(drawn)
                 THEN out.materials + 1 ELSE out.defaultMaterial
      part(i) == IF drawn[i].material = 0 THEN default ELSE drawn[i].material
  IN
  IF out.meshIds[s] # 0 THEN out
  ELSE IF \E i \in DOMAIN file.meshes[s] : Malformed(file.meshes[s][i])
  THEN [out EXCEPT !.ok = FALSE]
  ELSE [out EXCEPT !.meshIds[s] = Len(out.meshes) + 1,
                   !.meshes = Append(@, [i \in DOMAIN drawn |-> part(i)]),
                   !.defaultMaterial = default,
                   !.materials = IF default = @ + 1 THEN default ELSE @]

Node(file, out, n, parent) ==
  LET s == file.nodes[n].mesh
  IN [name |-> n, parent |-> parent, mesh |-> IF s = 0 THEN 0 ELSE out.meshIds[s],
      moving |-> file.nodes[n].moving, shape |-> file.nodes[n].shape]

MutantIndexOfNext(out) == Len(out.nodes)

IndexOfNext(out) == Len(out.nodes) + 1

\* Depth first, so a parent is pushed before its children: they come next, and
\* what was left comes after all of them.
Visit(file, out) ==
  LET n == Head(out.toVisit).node
      loaded == IF file.nodes[n].mesh = 0 THEN out ELSE LoadMesh(file, out, file.nodes[n].mesh)
  IN
  IF ~out.ok \/ out.toVisit = <<>> THEN out
  ELSE IF ~loaded.ok THEN loaded
  ELSE [loaded EXCEPT
         !.nodes = Append(@, Node(file, loaded, n, Head(out.toVisit).parent)),
         !.toVisit = Below(file.nodes[n].children, IndexOfNext(loaded)) \o Tail(@)]

\* Some node instances a part; a physics shape is never drawn.
DrawsSomething(out) ==
  \E i \in DOMAIN out.nodes :
    /\ out.nodes[i].mesh # 0 /\ out.nodes[i].shape = "none"
    /\ out.meshes[out.nodes[i].mesh] # <<>>

\* "glTF forbids a node having two parents, so each is visited once": as many
\* visits as there are nodes leave none.  What a visit makes is a set of one,
\* to be worked out once.
LoadGltf(file) ==
  LET walk[visits \in 0 .. Len(file.nodes)] ==
        IF visits = 0 THEN {NothingYet(file)}
        ELSE {Visit(file, out) : out \in walk[visits - 1]}
      loaded == {[out EXCEPT !.ok = @ /\ DrawsSomething(out)] : out \in walk[Len(file.nodes)]}
  IN CHOOSE out \in loaded : TRUE

-----------------------------------------------------------------------------
(* Scene::instantiate *)

Excluded(node, spawn) ==
  \/ spawn.collision = "mesh" /\ node.moving
  \/ node.name \in spawn.noCollision

\* Whether each node collides, parents before children.
Solid(model, spawn) ==
  LET solid[i \in DOMAIN model.nodes] ==
        LET parent == model.nodes[i].parent
        IN /\ spawn.collision # "none" /\ ~Excluded(model.nodes[i], spawn)
           /\ parent = 0 \/ solid[parent]
  IN solid

\* A box is the node's own; a hull is each part's, on an entity of its own.
ShapeEntities(model, i, spawn) ==
  LET node == model.nodes[i]
      hulls == IF node.mesh = 0 THEN {} ELSE DOMAIN model.meshes[node.mesh]
  IN
  IF ~spawn.ship THEN {}
  ELSE {[node |-> i, part |-> p, kind |-> node.shape, collides |-> FALSE] :
         p \in IF node.shape = "box" THEN {0} ELSE hulls}

PartEntities(model, i, collides) ==
  {[node |-> i, part |-> p, kind |-> "drawn", collides |-> collides] :
    p \in DOMAIN model.meshes[model.nodes[i].mesh]}

\* What hangs under the entity of node i.
NodeEntities(model, i, spawn) ==
  LET node == model.nodes[i]
  IN
  IF node.shape # "none" THEN ShapeEntities(model, i, spawn)
  ELSE IF node.mesh = 0 THEN {}
  ELSE PartEntities(model, i, Solid(model, spawn)[i])

Instantiate(model, spawn) ==
  UNION {NodeEntities(model, i, spawn) : i \in DOMAIN model.nodes}

\* The attachments whose node the model has, each to be spawned under it.
Attachments(model, spawn) ==
  {a \in DOMAIN spawn.attachments :
    \E i \in DOMAIN model.nodes : model.nodes[i].name = spawn.attachments[a].node}

-----------------------------------------------------------------------------
(* What they are to do, said of the file alone *)

\* A node and what is below it: the least set that has the node, and the
\* children of all it has.
Under(file, n) ==
  LET closed == {set \in SUBSET DOMAIN file.nodes :
                  n \in set /\ \A m \in set : Children(file, m) \subseteq set}
  IN {m \in DOMAIN file.nodes : \A set \in closed : m \in set}

\* The model has the scene's nodes, each once and under its own parent.
KeepsTheTree(file, model) ==
  LET above(i) == model.nodes[model.nodes[i].parent].name
      ofScene == UNION {Under(file, root) : root \in Range(file.roots)}
  IN
  /\ {model.nodes[i].name : i \in DOMAIN model.nodes} = ofScene
  /\ Len(model.nodes) = Cardinality(ofScene)
  /\ \A i \in DOMAIN model.nodes :
       IF model.nodes[i].parent = 0 THEN model.nodes[i].name \in Range(file.roots)
       ELSE model.nodes[i].parent < i /\ model.nodes[i].name \in Children(file, above(i))

\* A node's mesh is the file's, less what is not triangles, with every part's
\* own material or, where it names none, the one made for those.
KeepsTheMeshes(file, model) ==
  \A i \in DOMAIN model.nodes :
    LET s == file.nodes[model.nodes[i].name].mesh
        drawn == Drawn(file, s)
    IN
    IF s = 0 THEN model.nodes[i].mesh = 0
    ELSE model.meshes[model.nodes[i].mesh] =
           [p \in DOMAIN drawn |-> IF drawn[p].material = 0 THEN Len(file.materials) + 1
                                   ELSE drawn[p].material]

\* A part collides unless the spawn says otherwise of its node or of one above.
CollidesByTheFile(file, model, spawn) ==
  LET spared == {n \in DOMAIN file.nodes :
                  n \in spawn.noCollision \/ (spawn.collision = "mesh" /\ file.nodes[n].moving)}
      sparedToo == UNION {Under(file, n) : n \in spared}
  IN
  \A e \in Instantiate(model, spawn) :
    e.kind = "drawn" =>
      (e.collides <=> spawn.collision # "none" /\ model.nodes[e.node].name \notin sparedToo)
=============================================================================
