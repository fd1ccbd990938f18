--------------------------- MODULE NeighbourMasks ---------------------------
(***************************************************************************)
(* terrain/planet: which neighbours a chunk on screen is stitched to.      *)
(* Each chunk's Geomorph has a mask of the offsets at which a coarser one  *)
(* is drawn, and one for the finer; update_neighbours rewrites those near  *)
(* what came on or went off in a frame's swap, and no others.              *)
(*                                                                         *)
(* The swaps are those of TerrainOctree, of the leaves any camera selects  *)
(* and with any of them ready: the jobs that make them so are left out.    *)
(* The grid has as many axes as Axis: what is done on one is done on each. *)
(* What TerrainOctree has a name for has another here: the names are seen  *)
(* together where both are proved about.                                   *)
(***************************************************************************)
EXTENDS Integers, FiniteSets

CONSTANTS
  Axis,         \* x, y and z
  Land,         \* the nodes that may_have_surface accepts
  Bare        \* meshing these yields no triangle, and no entity

\* A NodeKey; its origin in chunks of the finest LOD.
NodeKey == [lod : Nat, origin : [Axis -> Int]]

VARIABLES
  drawn,        \* the nodes with Node::displayed
  coarser,      \* Geomorph::coarser of those with an entity
  finer         \* Geomorph::finer

maskVars == <<drawn, coarser, finer>>

-----------------------------------------------------------------------------
(* The grid *)

ExtentOf[lod \in Nat] == IF lod = 0 THEN 1 ELSE 2 * ExtentOf[lod - 1]

\* Roots are placed, and split, at multiples of their extent.
Aligned(k) == \A a \in Axis : k.origin[a] % ExtentOf[k.lod] = 0

ASSUME SurfaceAssumption ==
  /\ Land \subseteq NodeKey /\ Bare \subseteq Land
  /\ \A k \in Land : Aligned(k)

ParentOf(k) ==
  LET extent == ExtentOf[k.lod + 1]
  IN  [lod |-> k.lod + 1, origin |-> [a \in Axis |-> (k.origin[a] \div extent) * extent]]

ChildrenOf(k) ==
  {[lod |-> k.lod - 1, origin |-> [a \in Axis |-> k.origin[a] + half[a] * ExtentOf[k.lod - 1]]] :
     half \in IF k.lod = 0 THEN {} ELSE [Axis -> 0 .. 1]}

Offset == [Axis -> -1 .. 1] \ {[a \in Axis |-> 0]}

\* The place of k's size next to it.
Near(k, offset) ==
  [k EXCEPT !.origin = [a \in Axis |-> @[a] + offset[a] * ExtentOf[k.lod]]]

Within(k, n, a) ==
  /\ n.origin[a] <= k.origin[a]
  /\ k.origin[a] + ExtentOf[k.lod] <= n.origin[a] + ExtentOf[n.lod]

\* n is k, or contains it.
Contains(n, k) == \A a \in Axis : Within(k, n, a)

Containing == [k \in Land |-> {n \in Land : n.lod > k.lod /\ Contains(n, k)}]

\* Any leaves a camera may select: where the descent stops, none is left out.
SelectedBy(split) == {k \in Land \ split : Containing[k] \subseteq split}

Selections == {SelectedBy(split) : split \in SUBSET {k \in Land : k.lod > 0}}

-----------------------------------------------------------------------------
(* update_neighbours *)

\* The nodes near a changed one: at its LOD, one coarser, or one finer.
MutantNextTo ==
  [k \in Land |->
     UNION {LET near == Near(k, o) IN {near} \cup ChildrenOf(near) : o \in Offset}]

NextTo ==
  [k \in Land |->
     UNION {LET near == Near(k, o) IN {near, ParentOf(near)} \cup ChildrenOf(near) : o \in Offset}]

Affected(shown, changed) == shown \cap (changed \cup UNION {NextTo[k] : k \in changed})

CoarserAt(shown) ==
  [k \in Land |->
     {o \in Offset : Near(k, o) \notin shown /\ ParentOf(Near(k, o)) \in shown}]

FinerAt(shown) ==
  [k \in Land |->
     {o \in Offset : /\ Near(k, o) \notin shown /\ ParentOf(Near(k, o)) \notin shown
                     /\ ChildrenOf(Near(k, o)) \cap shown # {}}]

\* An entity is made with empty masks.
Rewritten(mask, now, shown, changed) ==
  LET affected == Affected(shown, changed)
  IN  [k \in shown \ Bare |->
         IF k \in affected THEN now[k]
         ELSE IF k \in DOMAIN mask THEN mask[k]
         ELSE {}]

-----------------------------------------------------------------------------
(* update() *)

MasksInit == drawn = {} /\ coarser = <<>> /\ finer = <<>>

\* A node is covered by its ready leaf above, or by all the leaves inside it.
CoverReady(k, leaves, ready) ==
  IF Containing[k] \cap leaves # {} THEN Containing[k] \cap leaves \subseteq ready
  ELSE \A l \in leaves : k \in Containing[l] => l \in ready

\* The swap, and the masks of what is near it.
Swap(leaves, ready) ==
  LET retired == {k \in drawn \ leaves : CoverReady(k, leaves, ready)}
      kept == drawn \ retired
      appearing == {l \in ready \ drawn : Containing[l] \cap kept = {}}
      changed == retired \cup appearing
  IN
  /\ drawn' = kept \cup appearing
  /\ coarser' = Rewritten(coarser, CoarserAt(drawn'), drawn', changed)
  /\ finer' = Rewritten(finer, FinerAt(drawn'), drawn', changed)

\* Out to the impostor every chunk goes.
ToImpostor ==
  /\ drawn' = {} /\ coarser' = <<>> /\ finer' = <<>>

Swaps ==
  \E leaves \in Selections : \E late \in SUBSET (leaves \ drawn) :
    Swap(leaves, leaves \ late)

MasksNext == Swaps \/ ToImpostor

MasksSpec == MasksInit /\ [][MasksNext]_maskVars

-----------------------------------------------------------------------------
(* Properties *)

\* Everything is of its type, and every chunk drawn has its masks.
MasksTypeOK ==
  /\ drawn \subseteq Land
  /\ coarser \in [drawn \ Bare -> SUBSET Offset]
  /\ finer \in [drawn \ Bare -> SUBSET Offset]

Touches(n, k) ==
  \A a \in Axis : /\ n.origin[a] <= k.origin[a] + ExtentOf[k.lod]
                  /\ k.origin[a] <= n.origin[a] + ExtentOf[n.lod]

\* The places next to k that n reaches into, if it touches k.
Touched ==
  [k \in Land |-> [n \in Land |->
     {o \in Offset : /\ Touches(n, k)
                     /\ Contains(n, Near(k, o)) \/ Contains(Near(k, o), n)}]]

\* "Which of its 26 neighbours on screen are one LOD coarser and which finer"
\* (docs/terrain.md:185), however the swaps came to this, also while others near
\* are further apart: no chunk is pulled to, or held from, one that has gone.
MasksMatch ==
  /\ MasksTypeOK
  /\ \A k \in drawn \ Bare : \A n \in drawn : \A o \in Touched[k][n] :
       /\ n.lod = k.lod => o \notin coarser[k] \cup finer[k]
       /\ n.lod = k.lod + 1 => o \in coarser[k] \ finer[k]
       /\ n.lod = k.lod - 1 => o \in finer[k] \ coarser[k]

=============================================================================
