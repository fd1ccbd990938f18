------------------------ MODULE TerrainOctreeProofs -------------------------
(***************************************************************************)
(* Proofs about TerrainOctree, for any tree of nodes, any kinds of nodes,  *)
(* any meshes and any pool; the second part is about what an unhurried     *)
(* camera finds: the books of jobs, the chunks the surface map reaches, and *)
(* what settled says; the third about NeighbourMasks, the masks of the     *)
(* chunks on screen.                                                       *)
(***************************************************************************)
EXTENDS TerrainOctree, NeighbourMasks, FiniteSetTheorems, FunctionTheorems, WellFoundedInduction,
        TLAPS

-----------------------------------------------------------------------------
(* The leaves a camera selects. *)

\* Every camera's leaves stop the descent through some set of split nodes.
LEMMA CameraSplit ==
  ASSUME NEW c \in Cameras
  PROVE  \E s \in SUBSET (Node \ Finest) : c.leaves = Leaves(s)
BY DEF Cameras

\* No leaf is inside another.
LEMMA LeavesApart ==
  ASSUME NEW s, NEW l \in Leaves(s), NEW m \in Leaves(s)
  PROVE  l \notin Above[m]
BY DEF Leaves

\* Every leaf is a node.
LEMMA LeavesAreNodes ==
  ASSUME NEW c \in Cameras
  PROVE  c.leaves \subseteq Node
BY KindAssumption DEF Cameras, Leaves

\* The descent covers all ground: a leaf lies over every finest surface chunk.
LEMMA LeafOver ==
  ASSUME NEW s \in SUBSET (Node \ Finest), NEW p \in Ground
  PROVE  \E l \in Leaves(s) : l \in Above[p] \cup {p}
<1> DEFINE column == Above[p] \cup {p}
<1>1. /\ p \in Node /\ p \in Surface /\ p \notin s
      /\ Above[p] \subseteq Surface /\ Above[p] \subseteq Node
  BY TreeAssumption, KindAssumption DEF Ground
<1>2. PICK k \in column \ s : Above[k] \cap (column \ s) = {}
  <2>1. column \ s \in SUBSET Node /\ column \ s # {}
    BY <1>1
  <2> QED
    BY <2>1, TreeAssumption
<1>3. k \in Node /\ Above[k] \subseteq column
  BY <1>1, TreeAssumption
<1>4. k \in Leaves(s)
  BY <1>1, <1>2, <1>3 DEF Leaves
<1> QED
  BY <1>2, <1>4

-----------------------------------------------------------------------------
(* Nodes on screen never overlap. *)

\* A swap leaves on screen nodes none of which is inside another.
LEMMA SwapApart ==
  ASSUME NEW c \in Cameras, NoOverlap, displayed \subseteq Node
  PROVE  \A k, o \in (displayed \ Retired(c.leaves)) \cup Appearing(c.leaves) :
           k \notin Above[o]
<1> DEFINE L == c.leaves
<1> SUFFICES ASSUME NEW k \in (displayed \ Retired(L)) \cup Appearing(L),
                    NEW o \in (displayed \ Retired(L)) \cup Appearing(L),
                    k \in Above[o]
             PROVE  FALSE
  OBVIOUS
<1>1. PICK s \in SUBSET (Node \ Finest) : L = Leaves(s)
  BY CameraSplit
<1>2. \A l, m \in L : l \notin Above[m]
  BY <1>1, LeavesApart
<1>3. Appearing(L) \subseteq L \cap ready
  BY DEF Appearing
<1>4. CASE k \in displayed \ Retired(L) /\ o \in displayed \ Retired(L)
  BY <1>4 DEF NoOverlap
<1>5. CASE k \in Appearing(L) /\ o \in Appearing(L)
  BY <1>5, <1>2, <1>3
<1>6. CASE k \in displayed \ Retired(L) /\ o \in Appearing(L)
  BY <1>6 DEF Appearing
<1>7. CASE k \in Appearing(L) /\ o \in displayed \ Retired(L)
  <2>1. o \notin L
    BY <1>7, <1>2, <1>3
  <2>2. k \in Above[o] \cap L /\ k \in ready
    BY <1>7, <1>3
  <2>3. \A l \in Above[o] \cap L : l = k
    <3> SUFFICES ASSUME NEW l \in Above[o] \cap L, l # k PROVE FALSE
      OBVIOUS
    <3>1. o \in Node
      BY <1>7
    <3> QED
      BY <3>1, <2>2, <1>2, TreeAssumption
  <2>4. Covered(o, L)
    BY <2>2, <2>3 DEF Covered
  <2> QED
    BY <2>1, <2>4, <1>7 DEF Retired
<1> QED
  BY <1>4, <1>5, <1>6, <1>7

\* What a swap may not uncover: ground under a displayed node is, after the
\* swap, under a displayed node again.
LEMMA SwapCovers ==
  ASSUME NEW c \in Cameras, NoOverlap, displayed \subseteq Node,
         NEW p \in Ground, (Above[p] \cup {p}) \cap displayed # {}
  PROVE  (Above[p] \cup {p})
           \cap ((displayed \ Retired(c.leaves)) \cup Appearing(c.leaves)) # {}
<1> DEFINE L      == c.leaves
           column == Above[p] \cup {p}
           after  == (displayed \ Retired(L)) \cup Appearing(L)
<1>1. p \in Node /\ column \subseteq Node
  BY TreeAssumption, KindAssumption DEF Ground
<1>2. \A k \in column : Above[k] \subseteq column
  BY <1>1, TreeAssumption
<1>3. \A k, o \in column : k = o \/ k \in Above[o] \/ o \in Above[k]
  BY <1>1, TreeAssumption
<1>4. \A l \in L \cap ready \cap column : column \cap after # {}
  <2> SUFFICES ASSUME NEW l \in L \cap ready \cap column PROVE column \cap after # {}
    OBVIOUS
  <2>1. CASE l \in displayed
    BY <2>1 DEF Retired
  <2>2. CASE l \notin displayed /\ l \in Appearing(L)
    BY <2>2
  <2>3. CASE l \notin displayed /\ l \notin Appearing(L)
    BY <2>3, <1>2 DEF Appearing
  <2> QED
    BY <2>1, <2>2, <2>3
<1>5. PICK d \in column \cap displayed : TRUE
  OBVIOUS
<1>6. CASE d \notin Retired(L)
  BY <1>5, <1>6
<1>7. CASE d \in Retired(L)
  <2>1. d \notin L /\ Covered(d, L)
    BY <1>7 DEF Retired
  <2>2. CASE Above[d] \cap L # {} /\ Above[d] \cap L \subseteq ready
    <3>1. PICK l \in Above[d] \cap L : l \in ready
      BY <2>2
    <3>2. l \in column
      BY <1>2, <1>5
    <3> QED
      BY <3>1, <3>2, <1>4
  <2>3. CASE Above[d] \cap L = {} /\ \A l \in L \ ready : d \notin NearestShown(l)
    <3>1. PICK l \in L : l \in column
      <4>1. PICK s \in SUBSET (Node \ Finest) : L = Leaves(s)
        BY CameraSplit
      <4> QED
        BY <4>1, LeafOver
    <3>2. d \in Above[l]
      BY <2>1, <2>3, <1>3, <1>5, <3>1
    <3>3. CASE l \in ready
      BY <3>1, <3>3, <1>4
    <3>4. CASE l \notin ready
      <4>1. d \notin NearestShown(l)
        BY <2>3, <3>1, <3>4
      <4>2. PICK o \in Above[l] \cap displayed : d \in Above[o]
        BY <4>1, <3>2, <1>5 DEF NearestShown
      <4> QED
        BY <4>2, <1>5 DEF NoOverlap
    <3> QED
      BY <3>3, <3>4
  <2> QED
    BY <2>1, <2>2, <2>3 DEF Covered
<1> QED
  BY <1>6, <1>7

-----------------------------------------------------------------------------
(* Type correctness. *)

\* Submitting nodes with room for one more job each adds jobs of those nodes.
LEMMA SubmittedJobs ==
  ASSUME NEW js \in SUBSET JobRecord, NEW keys \in SUBSET Node,
         \A k \in keys : FreeCopies(js, k) # {}
  PROVE  Submitted(js, keys) \in SUBSET JobRecord
<1> SUFFICES ASSUME NEW k \in keys PROVE NewJob(js, k) \in JobRecord
  BY DEF Submitted
<1>1. (CHOOSE c \in FreeCopies(js, k) : TRUE) \in Copy
  BY DEF FreeCopies
<1> QED
  BY <1>1 DEF NewJob, JobRecord, JobAt

\* Disowning jobs leaves them jobs.
LEMMA DisownedJobs ==
  ASSUME NEW js \in SUBSET JobRecord, NEW keys
  PROVE  Disowned(js, keys) \in SUBSET JobRecord
BY DEF Disowned, JobRecord

\* A chunk's entity is made of a node and a mesh.
LEMMA EntityType ==
  ASSUME TypeOK, NEW k \in Node, mesh[k] # None
  PROVE  EntityFor(k) \in [key : Node, mesh : Mesh]
BY DEF TypeOK, EntityFor

\* A camera's new leaves are finitely many nodes.
LEMMA NewLeavesType ==
  ASSUME NEW c \in Cameras
  PROVE  NewLeaves(c) \subseteq Node /\ Cardinality(NewLeaves(c)) \in Nat
<1>1. NewLeaves(c) \subseteq Node
  BY LeavesAreNodes DEF NewLeaves
<1> QED
  BY <1>1, TreeAssumption, FS_Subset, FS_CardinalityType

\* What every update of the leaves keeps of the types.
LEMMA SelectsType ==
  ASSUME TypeOK, NEW c \in Cameras, Selects(c)
  PROVE  /\ frame' \in {"poll", "drain"} /\ camera' \in Cameras /\ frozen' \in BOOLEAN
         /\ wanted' \subseteq Node /\ inFlight' \in Int
         /\ map' \in {"unmeasured", "measuring", "measured", "baking", "baked"}
<1>1. wanted' \subseteq Node
  BY LeavesAreNodes DEF Selects
<1>2. inFlight' \in Int
  BY NewLeavesType DEF Selects, TypeOK
<1> QED
  BY <1>1, <1>2 DEF Selects, ReadsCamera, MapNext, TypeOK

\* What is forgotten at the end of an update leaves the rest well typed.
LEMMA ForgetType ==
  ASSUME TypeOK, NEW c \in Cameras, NEW keys \in SUBSET Node,
         Selects(c), Forget(c.leaves, keys)
  PROVE  /\ present' \subseteq Node /\ ready' \subseteq present'
         /\ mesh' \in [Node -> Mesh \cup {None}]
         /\ live' \subseteq Mesh /\ jobs' \subseteq JobRecord
<1>1. present' \subseteq Node /\ ready' \subseteq present'
  BY LeavesAreNodes DEF TypeOK, Forget
<1>2. mesh' \in [Node -> Mesh \cup {None}] /\ live' \subseteq Mesh
  BY DEF TypeOK, Forget
<1>3. jobs' \subseteq JobRecord
  <2>1. NewLeaves(c) \subseteq Node /\ \A k \in NewLeaves(c) : FreeCopies(jobs, k) # {}
    BY NewLeavesType DEF Selects
  <2>2. Submitted(jobs, NewLeaves(c)) \in SUBSET JobRecord
    BY <2>1, SubmittedJobs DEF TypeOK
  <2> QED
    BY <2>2, DisownedJobs DEF Forget, NewLeaves
<1> QED
  BY <1>1, <1>2, <1>3

\* Every step keeps the types.
LEMMA TypeStep == TypeOK /\ [Next]_vars => TypeOK'
<1> SUFFICES ASSUME TypeOK, [Next]_vars PROVE TypeOK'
  OBVIOUS
<1> USE KindAssumption
<1>1. ASSUME NEW j \in jobs, StartJob(j) PROVE TypeOK'
  BY <1>1 DEF StartJob, TypeOK, nodeVars, JobRecord, JobAt, Flag
<1>2. ASSUME NEW j \in jobs, FinishJob(j) PROVE TypeOK'
  BY <1>2 DEF FinishJob, TypeOK, nodeVars, JobRecord, JobAt
<1>3. CASE ToggleFrozen
  BY <1>3 DEF ToggleFrozen, TypeOK, nodeVars
<1>4. CASE Drain
  <2>1. jobs' \subseteq JobRecord
    BY <1>4 DEF Drain, TypeOK, JobRecord, JobAt
  <2> QED
    BY <1>4, <2>1 DEF Drain, TypeOK, nodeVars
<1>5. ASSUME NEW j \in jobs, CompleteGone(j) PROVE TypeOK'
  BY <1>5 DEF CompleteGone, TypeOK, nodeVars
<1>6. ASSUME NEW j \in jobs, CompleteAgain(j) PROVE TypeOK'
  <2>1. jobs \ {j} \in SUBSET JobRecord /\ {j.key} \in SUBSET Node
    BY DEF TypeOK, JobRecord
  <2>2. \A k \in {j.key} : FreeCopies(jobs \ {j}, k) # {}
    BY <1>6 DEF CompleteAgain
  <2>3. jobs' \subseteq JobRecord
    BY <2>1, <2>2, SubmittedJobs, <1>6 DEF CompleteAgain
  <2> QED
    BY <1>6, <2>3 DEF CompleteAgain, TypeOK, nodeVars
<1>7. ASSUME NEW j \in jobs, CompleteUnwanted(j) PROVE TypeOK'
  <2>1. jobs' \subseteq JobRecord
    BY <1>7, DisownedJobs DEF CompleteUnwanted, TypeOK
  <2> QED
    BY <1>7, <2>1 DEF CompleteUnwanted, TypeOK
<1>8. ASSUME NEW j \in jobs, CompleteMeshed(j) PROVE TypeOK'
  BY <1>8 DEF CompleteMeshed, TypeOK, JobRecord
<1>9. CASE LookMeasured
  BY <1>9 DEF LookMeasured, TypeOK, nodeVars
<1>10. CASE MapBaked
  BY <1>10 DEF MapBaked, TypeOK, nodeVars
<1>11. CASE UpdateFrozen
  BY <1>11 DEF UpdateFrozen, TypeOK, nodeVars
<1>12. ASSUME NEW c \in Cameras, UpdateFar(c) PROVE TypeOK'
  <2>1. jobs' \subseteq JobRecord
    BY <1>12, DisownedJobs DEF UpdateFar, TypeOK
  <2>2. /\ frame' = "poll" /\ camera' \in Cameras /\ frozen' = frozen
        /\ map' \in {"unmeasured", "measuring", "measured", "baking", "baked"}
    BY <1>12 DEF UpdateFar, ReadsCamera, MapNext, TypeOK
  <2>3. /\ settled' \in BOOLEAN /\ mapped' \subseteq scene' /\ live' \subseteq Mesh
        /\ scene' \subseteq [key : Node, mesh : Mesh]
    BY <1>12 DEF UpdateFar, TypeOK
  <2> QED
    BY <1>12, <2>1, <2>2, <2>3 DEF UpdateFar, TypeOK
<1>13. ASSUME NEW c \in Cameras, UpdateHold(c) PROVE TypeOK'
  <2> DEFINE dropped == ready \ c.leaves
  <2>1. dropped \in SUBSET Node /\ Selects(c) /\ Forget(c.leaves, dropped)
    BY <1>13 DEF UpdateHold, TypeOK
  <2>2. /\ displayed' \subseteq ready' /\ entity' \in [Node -> Mesh \cup {None}]
        /\ scene' \subseteq [key : Node, mesh : Mesh] /\ mapped' \subseteq scene'
        /\ settled' \in BOOLEAN /\ impostor' \in BOOLEAN
    BY <1>13 DEF UpdateHold, Forget, TypeOK
  <2> QED
    BY <2>1, <2>2, SelectsType, ForgetType DEF TypeOK
<1>14. ASSUME NEW c \in Cameras, UpdateSwap(c) PROVE TypeOK'
  <2> DEFINE retired == Retired(c.leaves)
             surplus == Surplus(c.leaves)
             appear  == Appearing(c.leaves)
             shown   == {k \in appear : mesh[k] # None}
             kept    == scene \ EntitiesOf(retired \cup surplus)
  <2>1. retired \subseteq displayed /\ surplus \subseteq ready /\ appear \subseteq ready
    BY DEF Retired, Surplus, Appearing
  <2>2. /\ retired \cup surplus \in SUBSET Node
        /\ Selects(c) /\ Forget(c.leaves, retired \cup surplus)
    BY <1>14, <2>1 DEF UpdateSwap, TypeOK
  <2>3. displayed' \subseteq ready'
    <3>1. surplus \cap displayed = {} /\ appear \cap (retired \cup surplus) = {}
      BY DEF Retired, Surplus, Appearing
    <3> QED
      BY <3>1, <2>1, <1>14 DEF UpdateSwap, Forget, TypeOK
  <2>4. \A k \in shown : EntityFor(k) \in [key : Node, mesh : Mesh]
    BY <2>1, EntityType DEF TypeOK
  <2>5. scene' = kept \cup {EntityFor(k) : k \in shown}
    BY <1>14 DEF UpdateSwap
  <2>6. scene' \subseteq [key : Node, mesh : Mesh]
    BY <2>4, <2>5 DEF TypeOK
  <2>7. mapped' \subseteq scene'
    BY <2>5, <1>14 DEF UpdateSwap
  <2>8. entity' \in [Node -> Mesh \cup {None}]
    BY <2>1, <1>14 DEF UpdateSwap, TypeOK
  <2>9. settled' \in BOOLEAN /\ impostor' \in BOOLEAN
    BY <1>14 DEF UpdateSwap
  <2> QED
    BY <2>2, <2>3, <2>6, <2>7, <2>8, <2>9, SelectsType, ForgetType DEF TypeOK
<1>15. CASE UNCHANGED vars
  BY <1>15 DEF vars, nodeVars, TypeOK
<1> QED
  BY <1>1, <1>2, <1>3, <1>4, <1>5, <1>6, <1>7, <1>8, <1>9, <1>10, <1>11, <1>12, <1>13,
     <1>14, <1>15 DEF Next, Complete, Update

\* The types hold initially.
LEMMA TypeInit == Init => TypeOK
<1> SUFFICES ASSUME Init PROVE TypeOK
  OBVIOUS
<1>1. /\ mesh \in [Node -> Mesh \cup {None}]
      /\ entity \in [Node -> Mesh \cup {None}]
  BY DEF Init
<1>2. /\ present \subseteq Node /\ ready \subseteq present /\ displayed \subseteq ready
      /\ wanted \subseteq Node /\ scene \subseteq [key : Node, mesh : Mesh]
      /\ mapped \subseteq scene /\ live \subseteq Mesh /\ jobs \subseteq JobRecord
  BY DEF Init
<1>3. /\ frame \in {"poll", "drain"} /\ camera \in Cameras /\ frozen \in BOOLEAN
      /\ map \in {"unmeasured", "measuring", "measured", "baking", "baked"}
      /\ impostor \in BOOLEAN /\ settled \in BOOLEAN
  BY DEF Init
<1>4. inFlight \in Int
  BY DEF Init
<1> QED
  BY <1>1, <1>2, <1>3, <1>4 DEF TypeOK

\* The octree's flags, entities, meshes and jobs keep their types: above all,
\* what is on screen is meshed, and what is meshed is a node of the octree.
THEOREM OctreeTypes == Spec => []TypeOK
<1>1. Init => TypeOK
  BY TypeInit
<1>2. TypeOK /\ [Next]_vars => TypeOK'
  BY TypeStep
<1> QED
  BY <1>1, <1>2, PTL DEF Spec

-----------------------------------------------------------------------------
(* No two nodes on screen overlap, however hurried the camera. *)

LEMMA OverlapStep == TypeOK /\ NoOverlap /\ [Next]_vars => NoOverlap'
<1> SUFFICES ASSUME TypeOK, NoOverlap, [Next]_vars PROVE NoOverlap'
  OBVIOUS
<1>1. ASSUME displayed' \subseteq displayed PROVE NoOverlap'
  BY <1>1 DEF NoOverlap
<1>2. ASSUME NEW j \in jobs, StartJob(j) \/ FinishJob(j) PROVE NoOverlap'
  BY <1>1, <1>2 DEF StartJob, FinishJob, nodeVars
<1>3. CASE ToggleFrozen \/ Drain \/ LookMeasured \/ MapBaked \/ UpdateFrozen
  BY <1>1, <1>3 DEF ToggleFrozen, Drain, LookMeasured, MapBaked, UpdateFrozen, nodeVars
<1>4. ASSUME NEW j \in jobs,
             CompleteGone(j) \/ CompleteAgain(j) \/ CompleteUnwanted(j) \/ CompleteMeshed(j)
      PROVE  NoOverlap'
  BY <1>1, <1>4 DEF CompleteGone, CompleteAgain, CompleteUnwanted, CompleteMeshed, nodeVars
<1>5. ASSUME NEW c \in Cameras, UpdateFar(c) \/ UpdateHold(c) PROVE NoOverlap'
  BY <1>1, <1>5 DEF UpdateFar, UpdateHold
<1>6. ASSUME NEW c \in Cameras, UpdateSwap(c) PROVE NoOverlap'
  <2>1. displayed' = (displayed \ Retired(c.leaves)) \cup Appearing(c.leaves)
    BY <1>6 DEF UpdateSwap
  <2>2. displayed \subseteq Node
    BY DEF TypeOK
  <2> QED
    BY <2>1, <2>2, SwapApart DEF NoOverlap
<1>7. CASE UNCHANGED vars
  BY <1>1, <1>7 DEF vars, nodeVars
<1> QED
  BY <1>2, <1>3, <1>4, <1>5, <1>6, <1>7 DEF Next, Complete, Update

\* "Nodes on screen never overlap": no displayed node is inside another, in
\* any frame of any flight.
THEOREM NodesNeverOverlap == Spec => []NoOverlap
<1>1. Init => TypeOK /\ NoOverlap
  BY TypeInit DEF Init, NoOverlap
<1>2. TypeOK /\ NoOverlap /\ [Next]_vars => TypeOK' /\ NoOverlap'
  BY TypeStep, OverlapStep
<1> QED
  BY <1>1, <1>2, PTL DEF Spec

-----------------------------------------------------------------------------
(* The jobs of an unhurried camera.                                          *)

\* No job is left for a node that is meshed already, so no completion can
\* erase or remesh what is on screen; jobs of forgotten nodes are left only
\* while the impostor stands for everything.
JobsApart ==
  /\ \A j \in jobs : j.key \notin ready
  /\ \A i, j \in jobs : i.key = j.key => i = j
  /\ \/ \A j \in jobs : j.key \in present
     \/ impostor /\ camera.band = "far" /\ present = {}

\* An update that looks at the leaves finds every job's node in place.
LEMMA SelectsOwned ==
  ASSUME Unhurried, JobsApart, NEW c \in Cameras, Selects(c)
  PROVE  \A j \in jobs : j.key \in present
BY DEF JobsApart, Selects, ReadsCamera

\* The jobs of nodes without one before, one each.
LEMMA SubmittedApart ==
  ASSUME NEW js \in SUBSET JobRecord, NEW keys,
         \A j \in js : j.key \notin keys,
         \A i, j \in js : i.key = j.key => i = j
  PROVE  /\ \A i, j \in Submitted(js, keys) : i.key = j.key => i = j
         /\ \A j \in Submitted(js, keys) : j \in js \/ j.key \in keys
<1>1. \A k : NewJob(js, k).key = k
  BY DEF NewJob
<1> QED
  BY <1>1 DEF Submitted

\* Disowned jobs are the same jobs, of the same nodes.
LEMMA DisownedApart ==
  ASSUME NEW js \in SUBSET JobRecord, NEW keys
  PROVE  /\ (\A i, j \in js : i.key = j.key => i = j)
              => \A i, j \in Disowned(js, keys) : i.key = j.key => i = j
         /\ \A i \in Disowned(js, keys) : \E j \in js : i.key = j.key
BY DEF Disowned, JobRecord

\* What an update forgets was ready, so no job is left behind.
LEMMA ForgetApart ==
  ASSUME Unhurried, TypeOK, JobsApart, NEW c \in Cameras, NEW keys \in SUBSET ready,
         Selects(c), Forget(c.leaves, keys)
  PROVE  JobsApart'
<1>1. \A j \in jobs : j.key \in present
  BY SelectsOwned
<1>2. /\ NewLeaves(c) \in SUBSET Node
      /\ \A k \in NewLeaves(c) : FreeCopies(jobs, k) # {} /\ k \notin present
  BY NewLeavesType DEF Selects, NewLeaves
<1> DEFINE js == Submitted(jobs, NewLeaves(c))
<1>3. /\ js \in SUBSET JobRecord
      /\ \A i, j \in js : i.key = j.key => i = j
      /\ \A j \in js : j \in jobs \/ j.key \in NewLeaves(c)
  BY <1>1, <1>2, SubmittedJobs, SubmittedApart DEF TypeOK, JobsApart
<1>4. \A j \in js : j.key \notin ready /\ j.key \in present \cup c.leaves
  BY <1>1, <1>2, <1>3 DEF TypeOK, JobsApart, NewLeaves
<1>5. jobs' = Disowned(js, keys)
  BY DEF Forget, NewLeaves
<1>6. /\ \A i, j \in jobs' : i.key = j.key => i = j
      /\ \A i \in jobs' : \E j \in js : i.key = j.key
  BY <1>3, <1>5, DisownedApart
<1>7. ready' \subseteq ready /\ present' = (present \cup c.leaves) \ keys
  BY DEF Forget
<1> QED
  BY <1>4, <1>6, <1>7 DEF JobsApart

LEMMA JobsStep ==
  ASSUME Unhurried
  PROVE  TypeOK /\ JobsApart /\ [Next]_vars => JobsApart'
<1> SUFFICES ASSUME TypeOK, JobsApart, [Next]_vars PROVE JobsApart'
  OBVIOUS
<1>1. ASSUME NEW j \in jobs, NEW i, i.key = j.key, jobs' = (jobs \ {j}) \cup {i},
             UNCHANGED <<ready, present, impostor, camera>>
      PROVE  JobsApart'
  BY <1>1 DEF JobsApart
<1>2. ASSUME jobs' \subseteq jobs, ready' \subseteq ready, present' = present,
             UNCHANGED <<impostor, camera>>
      PROVE  JobsApart'
  BY <1>2 DEF JobsApart
<1>3. ASSUME NEW j \in jobs, StartJob(j) PROVE JobsApart'
  <2> DEFINE i == [j EXCEPT !.at = "running", !.skipped = ~Flag(j)]
  <2>1. i.key = j.key
    BY DEF TypeOK, JobRecord
  <2> QED
    BY <1>1, <1>3, <2>1 DEF StartJob, nodeVars
<1>4. ASSUME NEW j \in jobs, FinishJob(j) PROVE JobsApart'
  <2> DEFINE i == [j EXCEPT !.at = "finished"]
  <2>1. i.key = j.key
    BY DEF TypeOK, JobRecord
  <2> QED
    BY <1>1, <1>4, <2>1 DEF FinishJob, nodeVars
<1>5. CASE ToggleFrozen \/ LookMeasured \/ MapBaked \/ UpdateFrozen
  BY <1>2, <1>5 DEF ToggleFrozen, LookMeasured, MapBaked, UpdateFrozen, nodeVars
<1>6. CASE Drain
  <2> DEFINE d(j) == IF j.at = "finished" THEN [j EXCEPT !.at = "drained"] ELSE j
  <2>1. jobs' = {d(j) : j \in jobs}
    BY <1>6 DEF Drain
  <2>2. \A j \in jobs : d(j).key = j.key
    BY DEF TypeOK, JobRecord
  <2>3. UNCHANGED <<ready, present, impostor, camera>>
    BY <1>6 DEF Drain, nodeVars
  <2> HIDE DEF d
  <2> QED
    BY <2>1, <2>2, <2>3 DEF JobsApart
<1>7. ASSUME NEW j \in jobs, CompleteGone(j) PROVE JobsApart'
  BY <1>2, <1>7 DEF CompleteGone, nodeVars
<1>8. ASSUME NEW j \in jobs, CompleteAgain(j) PROVE JobsApart'
  <2> DEFINE i == NewJob(jobs \ {j}, j.key)
  <2>1. i.key = j.key
    BY DEF NewJob
  <2>2. jobs' = (jobs \ {j}) \cup {i}
    BY <1>8 DEF CompleteAgain, Submitted
  <2> HIDE DEF i
  <2> QED
    BY <1>1, <1>8, <2>1, <2>2 DEF CompleteAgain, nodeVars
<1>9. ASSUME NEW j \in jobs, CompleteUnwanted(j) PROVE JobsApart'
  <2>1. /\ \A i, o \in jobs' : i.key = o.key => i = o
        /\ \A i \in jobs' : \E o \in jobs \ {j} : i.key = o.key
    <3>1. jobs \ {j} \in SUBSET JobRecord /\ jobs' = Disowned(jobs \ {j}, {j.key})
      BY <1>9 DEF CompleteUnwanted, TypeOK
    <3>2. \A i, o \in jobs \ {j} : i.key = o.key => i = o
      BY DEF JobsApart
    <3> DEFINE S == jobs \ {j}
    <3> HIDE DEF S
    <3>3. /\ \A i, o \in Disowned(S, {j.key}) : i.key = o.key => i = o
          /\ \A i \in Disowned(S, {j.key}) : \E o \in S : i.key = o.key
      BY <3>1, <3>2, DisownedApart DEF S
    <3> QED
      BY <3>1, <3>3 DEF S
  <2>2. \A o \in jobs \ {j} : o.key # j.key
    BY DEF JobsApart
  <2>3. /\ present' = present \ {j.key} /\ ready' = ready \ {j.key}
        /\ UNCHANGED <<impostor, camera>>
    BY <1>9 DEF CompleteUnwanted
  <2> QED
    BY <2>1, <2>2, <2>3 DEF JobsApart
<1>10. ASSUME NEW j \in jobs, CompleteMeshed(j) PROVE JobsApart'
  <2>1. /\ jobs' = jobs \ {j} /\ ready' = ready \cup {j.key}
        /\ UNCHANGED <<present, impostor, camera>>
    BY <1>10 DEF CompleteMeshed
  <2>2. \A o \in jobs \ {j} : o.key # j.key
    BY DEF JobsApart
  <2> QED
    BY <2>1, <2>2 DEF JobsApart
<1>11. ASSUME NEW c \in Cameras, UpdateFar(c) PROVE JobsApart'
  <2>1. \A i, j \in jobs' : i.key = j.key => i = j
    BY <1>11, DisownedApart DEF UpdateFar, TypeOK, JobsApart
  <2>2. ready' = {} /\ present' = {} /\ impostor' /\ camera'.band = "far"
    BY <1>11 DEF UpdateFar, ReadsCamera
  <2> QED
    BY <2>1, <2>2 DEF JobsApart
<1>12. ASSUME NEW c \in Cameras, UpdateHold(c) PROVE JobsApart'
  BY <1>12, ForgetApart DEF UpdateHold
<1>13. ASSUME NEW c \in Cameras, UpdateSwap(c) PROVE JobsApart'
  <2>1. Retired(c.leaves) \cup Surplus(c.leaves) \in SUBSET ready
    BY DEF Retired, Surplus, TypeOK
  <2> QED
    BY <1>13, <2>1, ForgetApart DEF UpdateSwap
<1>14. CASE UNCHANGED vars
  BY <1>2, <1>14 DEF vars, nodeVars
<1> QED
  BY <1>3, <1>4, <1>5, <1>6, <1>7, <1>8, <1>9, <1>10, <1>11, <1>12, <1>13, <1>14
     DEF Next, Complete, Update

\* Under an unhurried camera every step keeps the types, the jobs apart and
\* the nodes on screen apart.
JobsInv == TypeOK /\ NoOverlap /\ JobsApart

LEMMA JobsInvInit == Init => JobsInv
<1>1. Init => NoOverlap /\ JobsApart
  BY DEF Init, NoOverlap, JobsApart
<1> QED
  BY <1>1, TypeInit DEF JobsInv

LEMMA JobsInvStep ==
  ASSUME Unhurried
  PROVE  JobsInv /\ [Next]_vars => JobsInv'
BY TypeStep, OverlapStep, JobsStep DEF JobsInv

-----------------------------------------------------------------------------
(* Swaps leave no holes. *)

\* No step takes ground off the screen.
LEMMA CoveredStep ==
  ASSUME Unhurried, JobsInv, [Next]_vars, NEW p \in Ground, Shown(p)
  PROVE  Shown(p)'
<1> USE DEF JobsInv
<1>1. ASSUME displayed \subseteq displayed', impostor' = impostor PROVE Shown(p)'
  BY <1>1 DEF Shown
<1>2. ASSUME NEW j \in jobs, StartJob(j) \/ FinishJob(j) PROVE Shown(p)'
  BY <1>1, <1>2 DEF StartJob, FinishJob, nodeVars
<1>3. CASE ToggleFrozen \/ Drain \/ LookMeasured \/ MapBaked \/ UpdateFrozen
  BY <1>1, <1>3 DEF ToggleFrozen, Drain, LookMeasured, MapBaked, UpdateFrozen, nodeVars
<1>4. ASSUME NEW j \in jobs, CompleteGone(j) \/ CompleteAgain(j) \/ CompleteMeshed(j)
      PROVE  Shown(p)'
  BY <1>1, <1>4 DEF CompleteGone, CompleteAgain, CompleteMeshed, nodeVars
<1>5. ASSUME NEW j \in jobs, CompleteUnwanted(j) PROVE Shown(p)'
  <2>1. j.key \notin displayed
    BY DEF JobsApart, TypeOK
  <2>2. displayed' = displayed \ {j.key} /\ impostor' = impostor
    BY <1>5 DEF CompleteUnwanted
  <2> QED
    BY <1>1, <2>1, <2>2
<1>6. ASSUME NEW c \in Cameras, UpdateFar(c) \/ UpdateHold(c) PROVE Shown(p)'
  BY <1>6 DEF UpdateFar, UpdateHold, Shown
<1>7. ASSUME NEW c \in Cameras, UpdateSwap(c) PROVE Shown(p)'
  <2> DEFINE after == (displayed \ Retired(c.leaves)) \cup Appearing(c.leaves)
  <2>1. displayed' = after
    BY <1>7 DEF UpdateSwap
  <2>2. CASE (Above[p] \cup {p}) \cap displayed # {}
    <3>1. (Above[p] \cup {p}) \cap after # {}
      BY <2>2, SwapCovers DEF TypeOK
    <3> QED
      BY <2>1, <3>1 DEF Shown
  <2>3. CASE (Above[p] \cup {p}) \cap displayed = {}
    <3>1. impostor /\ c.leaves \subseteq ready
      BY <2>3, <1>7 DEF UpdateSwap, AllReady, Shown
    <3>2. PICK l \in c.leaves : l \in Above[p] \cup {p}
      <4>1. PICK s \in SUBSET (Node \ Finest) : c.leaves = Leaves(s)
        BY CameraSplit
      <4> QED
        BY <4>1, LeafOver
    <3>3. Above[l] \subseteq Above[p]
      <4>1. p \in Node
        BY KindAssumption DEF Ground
      <4> QED
        BY <3>2, <4>1, TreeAssumption
    <3>4. l \in Appearing(c.leaves)
      BY <2>3, <3>1, <3>2, <3>3 DEF Appearing
    <3> QED
      BY <2>1, <3>2, <3>4 DEF Shown
  <2> QED
    BY <2>2, <2>3
<1>8. CASE UNCHANGED vars
  BY <1>1, <1>8 DEF vars, nodeVars
<1> QED
  BY <1>2, <1>3, <1>4, <1>5, <1>6, <1>7, <1>8 DEF Next, Complete, Update

\* "Swaps leave no holes": while the camera is unhurried, ground on screen is
\* on screen in the next frame too.
THEOREM SwapsLeaveNoHoles == ASSUME Unhurried PROVE Spec => NoHoles
<1>1. Init => JobsInv
  BY JobsInvInit
<1>2. JobsInv /\ [Next]_vars => JobsInv'
  BY JobsInvStep
<1>3. JobsInv /\ [Next]_vars => [\A p \in Ground : Shown(p) => Shown(p)']_vars
  BY CoveredStep
<1> QED
  BY <1>1, <1>2, <1>3, PTL DEF Spec, NoHoles

-----------------------------------------------------------------------------
(* The scene shows what the octree says, and meshes are neither lost nor     *)
(* shared.                                                                   *)

\* Nodes off screen have no entity, nodes on screen one that draws their mesh;
\* only meshed nodes hold a mesh, and nothing but they hold one.
SceneInv ==
  /\ SceneIsDisplayed
  /\ \A k \in displayed : entity[k] = mesh[k]
  /\ \A k \in Node \ displayed : entity[k] = None

MeshInv ==
  /\ MeshesHeld
  /\ \A k \in Node \ ready : mesh[k] = None

ImpostorInv == impostor => displayed = {}

OctreeInv == JobsInv /\ SceneInv /\ MeshInv /\ ImpostorInv

\* The entities hide() destroys are those of its nodes.
LEMMA EntitiesHidden ==
  ASSUME TypeOK, SceneInv, NEW keys
  PROVE  EntitiesOf(keys) = {e \in scene : e.key \in keys}
<1> SUFFICES ASSUME NEW e \in scene PROVE e.mesh = entity[e.key]
  BY DEF EntitiesOf
<1>1. PICK k \in displayed : mesh[k] # None /\ e = EntityFor(k)
  BY DEF SceneInv, SceneIsDisplayed
<1> QED
  BY <1>1 DEF SceneInv, EntityFor

\* What is forgotten of meshed nodes is what they held.
LEMMA ForgetMeshes ==
  ASSUME TypeOK, MeshInv, NEW c \in Cameras, NEW keys \in SUBSET ready,
         Forget(c.leaves, keys)
  PROVE  MeshInv'
<1>1. /\ present' = (present \cup c.leaves) \ keys
      /\ ready' = ready \ keys
      /\ live' = live \ MeshesOf(keys)
      /\ \A k \in Node : mesh'[k] = IF k \in keys THEN None ELSE mesh[k]
  BY DEF Forget
<1>2. /\ present' \subseteq Node /\ present \subseteq Node /\ keys \subseteq present
      /\ ready \subseteq present
  BY <1>1, LeavesAreNodes DEF TypeOK
<1>3. \A k \in Node : mesh[k] # None => k \in ready
  BY DEF MeshInv
<1>4. /\ \A k \in present : mesh[k] # None => mesh[k] \in live
      /\ \A m \in live : m # None /\ \E k \in present : mesh[k] = m
      /\ \A k, o \in present : mesh[k] = mesh[o] /\ mesh[k] # None => k = o
  BY DEF MeshInv, MeshesHeld, MeshesOf
<1>5. live' \subseteq MeshesOf(present)'
  <2> SUFFICES ASSUME NEW m \in live' PROVE \E k \in present' : mesh'[k] = m /\ m # None
    BY DEF MeshesOf
  <2>1. m \in live /\ m \notin MeshesOf(keys)
    BY <1>1
  <2>2. PICK k \in present : mesh[k] = m /\ m # None
    BY <1>4, <2>1
  <2>3. k \notin keys
    BY <2>1, <2>2 DEF MeshesOf
  <2> QED
    BY <2>2, <2>3, <1>1, <1>2
<1>6. MeshesOf(present)' \subseteq live'
  <2> SUFFICES ASSUME NEW k \in present', mesh'[k] # None PROVE mesh'[k] \in live'
    BY DEF MeshesOf
  <2>1. k \in Node /\ k \notin keys /\ mesh'[k] = mesh[k]
    BY <1>1, <1>2
  <2>2. k \in present /\ mesh[k] \in live
    BY <2>1, <1>2, <1>3, <1>4
  <2>3. mesh[k] \notin MeshesOf(keys)
    BY <2>1, <2>2, <1>2, <1>4 DEF MeshesOf
  <2> QED
    BY <2>1, <2>2, <2>3, <1>1
<1>7. \A k, o \in present' : mesh'[k] = mesh'[o] /\ mesh'[k] # None => k = o
  BY <1>1, <1>2, <1>3, <1>4
<1>8. \A k \in Node \ ready' : mesh'[k] = None
  BY <1>1, <1>3
<1> QED
  BY <1>5, <1>6, <1>7, <1>8 DEF MeshInv, MeshesHeld

\* Hiding some nodes and showing others, meshed ones that were not on screen,
\* leaves the scene what the octree says.
LEMMA SwappedScene ==
  ASSUME TypeOK, SceneInv, NEW gone \in SUBSET Node,
         NEW appear \in SUBSET Node, appear \cap gone = {}, appear \cap displayed = {},
         displayed' = (displayed \ gone) \cup appear,
         \A k \in Node : mesh'[k] = IF k \in gone THEN None ELSE mesh[k],
         \A k \in Node :
           entity'[k] = IF k \in {o \in appear : mesh[o] # None} THEN mesh[k]
                        ELSE IF k \in gone THEN None ELSE entity[k],
         scene' = (scene \ EntitiesOf(gone))
                    \cup {EntityFor(k) : k \in {o \in appear : mesh[o] # None}}
  PROVE  SceneInv'
<1>1. \A k \in Node \ gone : mesh'[k] = mesh[k] /\ EntityFor(k)' = EntityFor(k)
  BY DEF EntityFor
<1>2. displayed \subseteq Node
  BY DEF TypeOK
<1>3. \A k \in displayed' : k \in Node \ gone
  BY <1>2
<1>4. SceneIsDisplayed'
  <2>1. scene \ EntitiesOf(gone)
          = {EntityFor(k) : k \in {o \in displayed \ gone : mesh[o] # None}}
    <3>1. scene = {EntityFor(k) : k \in {o \in displayed : mesh[o] # None}}
      BY DEF SceneInv, SceneIsDisplayed
    <3>2. \A k : EntityFor(k).key = k
      BY DEF EntityFor
    <3>3. EntitiesOf(gone) = {e \in scene : e.key \in gone}
      BY EntitiesHidden
    <3> QED
      BY <3>1, <3>2, <3>3
  <2>2. scene' = {EntityFor(k) : k \in {o \in displayed' : mesh[o] # None}}
    BY <2>1
  <2>3. {EntityFor(k) : k \in {o \in displayed' : mesh[o] # None}}
          = {EntityFor(k)' : k \in {o \in displayed' : mesh'[o] # None}}
    BY <1>1, <1>3
  <2> QED
    BY <2>2, <2>3 DEF SceneIsDisplayed
<1>5. \A k \in displayed' : entity'[k] = mesh'[k]
  <2> SUFFICES ASSUME NEW k \in displayed' PROVE entity'[k] = mesh'[k]
    OBVIOUS
  <2>1. k \in Node \ gone /\ mesh'[k] = mesh[k]
    BY <1>1, <1>3
  <2>2. CASE k \in appear
    BY <2>1, <2>2, <1>2 DEF SceneInv
  <2>3. CASE k \notin appear
    BY <2>1, <2>3 DEF SceneInv
  <2> QED
    BY <2>2, <2>3
<1>6. \A k \in Node \ displayed' : entity'[k] = None
  BY DEF SceneInv
<1> QED
  BY <1>4, <1>5, <1>6 DEF SceneInv

\* Every step keeps the scene, the meshes and the impostor in order.
LEMMA OctreeInvStep ==
  ASSUME Unhurried
  PROVE  OctreeInv /\ [Next]_vars => OctreeInv'
<1> SUFFICES ASSUME OctreeInv, [Next]_vars PROVE OctreeInv'
  OBVIOUS
<1> USE DEF OctreeInv
<1>1. JobsInv' /\ TypeOK /\ JobsApart
  BY JobsInvStep DEF JobsInv
<1> USE <1>1
<1>2. ASSUME UNCHANGED <<nodeVars, scene, live, impostor>> PROVE OctreeInv'
  BY <1>2 DEF nodeVars, SceneInv, SceneIsDisplayed, EntityFor, MeshInv, MeshesHeld, MeshesOf,
              ImpostorInv
<1>3. ASSUME NEW j \in jobs, StartJob(j) \/ FinishJob(j) PROVE OctreeInv'
  BY <1>2, <1>3 DEF StartJob, FinishJob
<1>4. CASE ToggleFrozen \/ Drain \/ LookMeasured \/ MapBaked \/ UpdateFrozen
  BY <1>2, <1>4 DEF ToggleFrozen, Drain, LookMeasured, MapBaked, UpdateFrozen
<1>5. ASSUME NEW j \in jobs, CompleteGone(j) \/ CompleteAgain(j) PROVE OctreeInv'
  BY <1>2, <1>5 DEF CompleteGone, CompleteAgain
<1>6. ASSUME NEW j \in jobs, CompleteUnwanted(j) PROVE OctreeInv'
  <2>1. j.key \notin ready /\ j.key \notin displayed /\ j.key \in Node
    BY DEF JobsApart, TypeOK, JobRecord
  <2>2. mesh[j.key] = None /\ entity[j.key] = None
    BY <2>1 DEF MeshInv, SceneInv
  <2>3. /\ mesh' = mesh /\ entity' = entity /\ ready' = ready /\ displayed' = displayed
        /\ present' = present \ {j.key} /\ UNCHANGED <<scene, live, impostor>>
    BY <2>1, <2>2, <1>6 DEF CompleteUnwanted, TypeOK
  <2>4. SceneInv' /\ ImpostorInv'
    BY <2>3 DEF SceneInv, SceneIsDisplayed, EntityFor, ImpostorInv
  <2>5. MeshInv'
    BY <2>2, <2>3 DEF MeshInv, MeshesHeld, MeshesOf
  <2> QED
    BY <2>4, <2>5
<1>7. ASSUME NEW j \in jobs, CompleteMeshed(j) PROVE OctreeInv'
  <2>1. j.key \notin ready /\ j.key \notin displayed /\ j.key \in Node /\ j.key \in present
    BY <1>7 DEF JobsApart, TypeOK, JobRecord, CompleteMeshed
  <2>2. mesh[j.key] = None
    BY <2>1 DEF MeshInv
  <2>3. /\ ready' = ready \cup {j.key}
        /\ UNCHANGED <<displayed, present, entity, scene, impostor>>
    BY <1>7 DEF CompleteMeshed
  <2>4. CASE UNCHANGED <<mesh, live>>
    BY <2>3, <2>4 DEF SceneInv, SceneIsDisplayed, EntityFor, MeshInv, MeshesHeld, MeshesOf,
                      ImpostorInv
  <2>5. ASSUME NEW m \in Mesh \ live, mesh' = [mesh EXCEPT ![j.key] = m],
               live' = live \cup {m}
        PROVE  OctreeInv'
    <3>1. m # None
      BY NoneAssumption
    <3>2. /\ \A k \in Node : mesh'[k] = IF k = j.key THEN m ELSE mesh[k]
          /\ \A k \in displayed : k \in Node /\ k # j.key /\ mesh'[k] = mesh[k]
      BY <2>1, <2>5 DEF TypeOK
    <3>3. SceneInv' /\ ImpostorInv'
      BY <2>3, <3>2 DEF SceneInv, SceneIsDisplayed, EntityFor, ImpostorInv
    <3>4. \A k \in present : k \in Node /\ (mesh[k] # None => mesh[k] \in live)
      BY DEF MeshInv, MeshesHeld, MeshesOf, TypeOK
    <3>5. live' = MeshesOf(present)'
      BY <2>1, <2>2, <2>3, <2>5, <3>1, <3>2, <3>4 DEF MeshInv, MeshesHeld, MeshesOf
    <3>6. \A k, o \in present : mesh'[k] = mesh'[o] /\ mesh'[k] # None => k = o
      BY <2>5, <3>2, <3>4 DEF MeshInv, MeshesHeld
    <3>7. \A k \in Node \ ready' : mesh'[k] = None
      BY <2>3, <3>2 DEF MeshInv
    <3> QED
      BY <2>3, <3>3, <3>5, <3>6, <3>7 DEF MeshInv, MeshesHeld
  <2> QED
    BY <1>7, <2>4, <2>5 DEF CompleteMeshed
<1>8. ASSUME NEW c \in Cameras, UpdateFar(c) PROVE OctreeInv'
  <2>1. /\ displayed' = {} /\ present' = {} /\ ready' = {}
        /\ mesh' = [k \in Node |-> None] /\ entity' = [k \in Node |-> None]
        /\ scene' = scene \ EntitiesOf(present) /\ live' = live \ MeshesOf(present)
    BY <1>8 DEF UpdateFar
  <2>2. \A e \in scene : e.key \in present
    BY DEF SceneInv, SceneIsDisplayed, EntityFor, TypeOK
  <2>3. scene' = {}
    BY <2>1, <2>2, EntitiesHidden
  <2>4. live' = {}
    BY <2>1 DEF MeshInv, MeshesHeld
  <2> QED
    BY <2>1, <2>3, <2>4 DEF SceneInv, SceneIsDisplayed, MeshInv, MeshesHeld, MeshesOf,
                            ImpostorInv
<1>9. ASSUME NEW c \in Cameras, UpdateHold(c) PROVE OctreeInv'
  <2> DEFINE dropped == ready \ c.leaves
  <2>1. dropped \in SUBSET ready /\ dropped \in SUBSET Node /\ Forget(c.leaves, dropped)
    BY <1>9 DEF UpdateHold, TypeOK
  <2>2. /\ displayed = {} /\ displayed' = {}
        /\ \A k \in Node : mesh'[k] = IF k \in dropped THEN None ELSE mesh[k]
        /\ \A k \in Node : entity'[k] = IF k \in dropped THEN None ELSE entity[k]
        /\ scene' = scene \ EntitiesOf(dropped)
    BY <1>9 DEF UpdateHold, Forget, ImpostorInv
  <2>3. SceneInv'
    BY <2>2 DEF SceneInv, SceneIsDisplayed
  <2> QED
    BY <2>1, <2>2, <2>3, ForgetMeshes DEF ImpostorInv
<1>10. ASSUME NEW c \in Cameras, UpdateSwap(c) PROVE OctreeInv'
  <2> DEFINE gone   == Retired(c.leaves) \cup Surplus(c.leaves)
             appear == Appearing(c.leaves)
             shown  == {k \in appear : mesh[k] # None}
  <2>1. /\ gone \in SUBSET ready /\ gone \in SUBSET Node /\ appear \in SUBSET Node
        /\ appear \cap gone = {} /\ appear \cap displayed = {}
        /\ displayed \ gone = displayed \ Retired(c.leaves)
    BY DEF Retired, Surplus, Appearing, TypeOK
  <2>2. /\ Forget(c.leaves, gone) /\ ~impostor'
        /\ displayed' = (displayed \ gone) \cup appear
        /\ scene' = (scene \ EntitiesOf(gone)) \cup {EntityFor(k) : k \in shown}
    BY <2>1, <1>10 DEF UpdateSwap
  <2>3. /\ \A k \in Node : mesh'[k] = IF k \in gone THEN None ELSE mesh[k]
        /\ \A k \in Node : entity'[k] = IF k \in shown THEN mesh[k]
                                        ELSE IF k \in gone THEN None ELSE entity[k]
    BY <1>10 DEF UpdateSwap, Forget
  <2>4. SceneInv'
    BY <2>1, <2>2, <2>3, SwappedScene
  <2> QED
    BY <2>1, <2>2, <2>4, ForgetMeshes DEF ImpostorInv
<1>11. CASE UNCHANGED vars
  BY <1>2, <1>11 DEF vars
<1> QED
  BY <1>3, <1>4, <1>5, <1>6, <1>7, <1>8, <1>9, <1>10, <1>11 DEF Next, Complete, Update

LEMMA OctreeInvInit == Init => OctreeInv
<1> SUFFICES ASSUME Init PROVE OctreeInv
  OBVIOUS
<1>1. /\ present = {} /\ ready = {} /\ displayed = {} /\ scene = {} /\ live = {}
      /\ \A k \in Node : mesh[k] = None /\ entity[k] = None
      /\ ~impostor
  BY DEF Init
<1>2. SceneInv
  BY <1>1 DEF SceneInv, SceneIsDisplayed
<1>3. MeshInv
  BY <1>1 DEF MeshInv, MeshesHeld, MeshesOf
<1> QED
  BY <1>1, <1>2, <1>3, JobsInvInit DEF OctreeInv, ImpostorInv

\* While the camera is unhurried, the scene's chunk entities are exactly those
\* of the displayed nodes, each drawing the mesh its node holds.
THEOREM SceneShowsTheNodes == ASSUME Unhurried PROVE Spec => []SceneIsDisplayed
<1>1. Init => OctreeInv
  BY OctreeInvInit
<1>2. OctreeInv /\ [Next]_vars => OctreeInv'
  BY OctreeInvStep
<1>3. OctreeInv => SceneIsDisplayed
  BY DEF OctreeInv, SceneInv
<1> QED
  BY <1>1, <1>2, <1>3, PTL DEF Spec

\* "A hidden node's mesh is released": while the camera is unhurried, each
\* mesh the octree has not released is held by one of its nodes, and by one only.
THEOREM MeshesAreReleased == ASSUME Unhurried PROVE Spec => []MeshesHeld
<1>1. Init => OctreeInv
  BY OctreeInvInit
<1>2. OctreeInv /\ [Next]_vars => OctreeInv'
  BY OctreeInvStep
<1>3. OctreeInv => MeshesHeld
  BY DEF OctreeInv, MeshInv
<1> QED
  BY <1>1, <1>2, <1>3, PTL DEF Spec

\* No chunk on screen draws a mesh that was released.
THEOREM DrawnMeshesStayLive == ASSUME Unhurried PROVE Spec => []DrawnMeshesLive
<1>1. Init => OctreeInv
  BY OctreeInvInit
<1>2. OctreeInv /\ [Next]_vars => OctreeInv'
  BY OctreeInvStep
<1>3. OctreeInv => DrawnMeshesLive
  BY DEF OctreeInv, JobsInv, TypeOK, SceneInv, SceneIsDisplayed, EntityFor, MeshInv,
         MeshesHeld, MeshesOf, DrawnMeshesLive
<1> QED
  BY <1>1, <1>2, <1>3, PTL DEF Spec

\* "The impostor, or chunks, and never both", of nodes and of entities.
THEOREM ImpostorNeverWithChunks == ASSUME Unhurried PROVE Spec => []ImpostorOrChunks
<1>1. Init => OctreeInv
  BY OctreeInvInit
<1>2. OctreeInv /\ [Next]_vars => OctreeInv'
  BY OctreeInvStep
<1>3. OctreeInv => ImpostorOrChunks
  BY DEF OctreeInv, ImpostorInv, SceneInv, SceneIsDisplayed, ImpostorOrChunks
<1> QED
  BY <1>1, <1>2, <1>3, PTL DEF Spec

\* While the camera is unhurried, the scene is the octree's: the chunks it
\* displays, with their meshes, or the impostor alone.
THEOREM SceneStaysExact == ASSUME Unhurried PROVE Spec => []SceneIsExact
BY SceneShowsTheNodes, ImpostorNeverWithChunks, PTL DEF SceneIsExact

\* While the camera is unhurried, meshes are released when no node holds them
\* any more, and none that is still drawn.
THEOREM MeshesStayExact == ASSUME Unhurried PROVE Spec => []MeshesExact
BY MeshesAreReleased, DrawnMeshesStayLive, PTL DEF MeshesExact

-----------------------------------------------------------------------------
(* One job for each node that waits for one, and in_flight their number.     *)

JobKeys(js) == {j.key : j \in js}

\* Sets that share nothing are together as many as both.
LEMMA ApartCount ==
  ASSUME NEW S, NEW T, IsFiniteSet(S), IsFiniteSet(T), S \cap T = {}
  PROVE  Cardinality(S \cup T) = Cardinality(S) + Cardinality(T)
<1>1. Cardinality(S \cup T) = Cardinality(S) + Cardinality(T) - Cardinality(S \cap T)
  BY FS_Union
<1>2. Cardinality(S \cap T) = 0
  BY FS_EmptySet
<1>3. Cardinality(S) \in Nat /\ Cardinality(T) \in Nat
  BY FS_CardinalityType
<1> QED
  BY <1>1, <1>2, <1>3

\* Jobs of different nodes are as many as the nodes.
LEMMA KeysCount ==
  ASSUME NEW js \in SUBSET JobRecord, \A i, j \in js : i.key = j.key => i = j
  PROVE  /\ IsFiniteSet(js) /\ IsFiniteSet(JobKeys(js)) /\ JobKeys(js) \subseteq Node
         /\ Cardinality(js) = Cardinality(JobKeys(js))
<1> DEFINE f == [j \in js |-> j.key]
<1>1. JobKeys(js) \subseteq Node /\ IsFiniteSet(JobKeys(js))
  <2>1. JobKeys(js) \subseteq Node
    BY DEF JobKeys, JobRecord
  <2> QED
    BY <2>1, TreeAssumption, FS_Subset
<1>2. f \in [js -> JobKeys(js)]
  BY DEF JobKeys
<1>3. f \in Injection(js, JobKeys(js))
  BY <1>2, Fun_IsInj
<1>4. f \in Surjection(js, JobKeys(js))
  <2>1. \A k \in JobKeys(js) : \E j \in js : f[j] = k
    BY DEF JobKeys
  <2> QED
    BY <1>2, <2>1, Fun_IsSurj
<1> QED
  BY <1>1, <1>3, <1>4, FS_Injection

\* A job belongs to a node of the octree for as long as the node is there; a node
\* that is not meshed yet has one.
OwnedInv ==
  /\ \A j \in jobs : j.current <=> j.key \in present
  /\ \A k \in present \ ready : k \in JobKeys(jobs)

CountInv == inFlight = Cardinality(JobKeys(jobs))

\* What an update submits and disowns, node by node.
LEMMA ForgetKeys ==
  ASSUME Unhurried, TypeOK, JobsApart, OwnedInv, NEW c \in Cameras, NEW keys \in SUBSET ready,
         Selects(c), Forget(c.leaves, keys)
  PROVE  /\ OwnedInv'
         /\ JobKeys(jobs') = JobKeys(jobs) \cup NewLeaves(c)
         /\ JobKeys(jobs) \cap NewLeaves(c) = {}
<1>1. \A j \in jobs : j.key \in present /\ j.key \notin ready /\ j.current
  BY SelectsOwned DEF JobsApart, OwnedInv
<1> DEFINE js == Submitted(jobs, NewLeaves(c))
<1>2. js = jobs \cup {NewJob(jobs, k) : k \in NewLeaves(c)}
  BY DEF Submitted
<1>3. \A k : NewJob(jobs, k).key = k /\ NewJob(jobs, k).current
  BY DEF NewJob
<1>4. NewLeaves(c) \cap present = {} /\ NewLeaves(c) \subseteq c.leaves
  BY DEF NewLeaves
<1>5. js \in SUBSET JobRecord
  <2>1. NewLeaves(c) \in SUBSET Node /\ \A k \in NewLeaves(c) : FreeCopies(jobs, k) # {}
    BY NewLeavesType DEF Selects
  <2> QED
    BY <2>1, SubmittedJobs DEF TypeOK
<1>6. /\ jobs' = Disowned(js, keys)
      /\ present' = (present \cup c.leaves) \ keys /\ ready' = ready \ keys
  BY DEF Forget, NewLeaves
<1>7. \A j \in js : j.current /\ j.key \notin keys /\ j.key \in present'
  BY <1>1, <1>2, <1>3, <1>4, <1>6 DEF TypeOK
<1>8. JobKeys(js) = JobKeys(jobs) \cup NewLeaves(c)
  BY <1>2, <1>3 DEF JobKeys
<1> HIDE DEF js
<1>9. jobs' = js
  <2>1. \A j \in js : [j EXCEPT !.current = j.current /\ j.key \notin keys] = j
    BY <1>5, <1>7 DEF JobRecord
  <2> QED
    BY <1>6, <2>1 DEF Disowned
<1>10. \A j \in jobs' : j.current <=> j.key \in present'
  BY <1>7, <1>9
<1>11. \A k \in present' \ ready' : k \in JobKeys(js)
  BY <1>4, <1>6, <1>8 DEF OwnedInv, NewLeaves
<1>12. JobKeys(jobs) \cap NewLeaves(c) = {}
  BY <1>1, <1>4 DEF JobKeys
<1> QED
  BY <1>8, <1>9, <1>10, <1>11, <1>12 DEF OwnedInv

\* A job that ends takes its node's key with it; one that changes does not.
LEMMA KeysWithout ==
  ASSUME NEW js \in SUBSET JobRecord, \A i, o \in js : i.key = o.key => i = o, NEW j \in js
  PROVE  JobKeys(js \ {j}) = JobKeys(js) \ {j.key} /\ j.key \in JobKeys(js)
BY DEF JobKeys

LEMMA KeysReplaced ==
  ASSUME NEW js, NEW j \in js, NEW i, i.key = j.key
  PROVE  JobKeys((js \ {j}) \cup {i}) = JobKeys(js)
BY DEF JobKeys

BooksInv == JobsInv /\ OwnedInv /\ CountInv

\* One job's change of record leaves the books alone.
LEMMA ReplacedBooks ==
  ASSUME TypeOK, OwnedInv, CountInv, NEW j \in jobs, NEW i, i.key = j.key,
         i.current = j.current, jobs' = (jobs \ {j}) \cup {i},
         UNCHANGED <<present, ready, inFlight>>
  PROVE  OwnedInv' /\ CountInv'
<1>1. JobKeys(jobs') = JobKeys(jobs)
  BY KeysReplaced
<1>2. \A o \in jobs' : o.current <=> o.key \in present'
  BY DEF OwnedInv
<1> QED
  BY <1>1, <1>2 DEF OwnedInv, CountInv

\* The end of one job lowers the count by one.
LEMMA EndedCount ==
  ASSUME TypeOK, JobsApart, CountInv, NEW j \in jobs, JobKeys(jobs') = JobKeys(jobs) \ {j.key},
         inFlight' = inFlight - 1
  PROVE  CountInv'
<1>1. j.key \in JobKeys(jobs) /\ IsFiniteSet(JobKeys(jobs))
  BY KeysCount DEF JobKeys, TypeOK, JobsApart
<1>2. Cardinality(JobKeys(jobs) \ {j.key}) = Cardinality(JobKeys(jobs)) - 1
  BY <1>1, FS_RemoveElement
<1> QED
  BY <1>2 DEF CountInv

LEMMA BooksStep ==
  ASSUME Unhurried
  PROVE  BooksInv /\ [Next]_vars => OwnedInv' /\ CountInv'
<1> SUFFICES ASSUME BooksInv, [Next]_vars PROVE OwnedInv' /\ CountInv'
  OBVIOUS
<1>1. TypeOK /\ JobsApart /\ OwnedInv /\ CountInv
  BY DEF BooksInv, JobsInv
<1> USE <1>1
<1>2. ASSUME UNCHANGED <<jobs, present, ready, inFlight>> PROVE OwnedInv' /\ CountInv'
  BY <1>2 DEF OwnedInv, CountInv
<1>3. ASSUME NEW j \in jobs, StartJob(j) PROVE OwnedInv' /\ CountInv'
  <2> DEFINE i == [j EXCEPT !.at = "running", !.skipped = ~Flag(j)]
  <2>1. i.key = j.key /\ i.current = j.current
    BY DEF TypeOK, JobRecord
  <2>2. jobs' = (jobs \ {j}) \cup {i} /\ UNCHANGED <<present, ready, inFlight>>
    BY <1>3 DEF StartJob, nodeVars
  <2> HIDE DEF i
  <2> QED
    BY <2>1, <2>2, ReplacedBooks
<1>4. ASSUME NEW j \in jobs, FinishJob(j) PROVE OwnedInv' /\ CountInv'
  <2> DEFINE i == [j EXCEPT !.at = "finished"]
  <2>1. i.key = j.key /\ i.current = j.current
    BY DEF TypeOK, JobRecord
  <2>2. jobs' = (jobs \ {j}) \cup {i} /\ UNCHANGED <<present, ready, inFlight>>
    BY <1>4 DEF FinishJob, nodeVars
  <2> HIDE DEF i
  <2> QED
    BY <2>1, <2>2, ReplacedBooks
<1>5. CASE ToggleFrozen \/ LookMeasured \/ MapBaked \/ UpdateFrozen
  BY <1>2, <1>5 DEF ToggleFrozen, LookMeasured, MapBaked, UpdateFrozen, nodeVars
<1>6. CASE Drain
  <2> DEFINE d(j) == IF j.at = "finished" THEN [j EXCEPT !.at = "drained"] ELSE j
  <2>1. jobs' = {d(j) : j \in jobs} /\ UNCHANGED <<present, ready, inFlight>>
    BY <1>6 DEF Drain, nodeVars
  <2>2. \A j \in jobs : d(j).key = j.key /\ d(j).current = j.current
    BY DEF TypeOK, JobRecord
  <2> HIDE DEF d
  <2>3. JobKeys(jobs') = JobKeys(jobs)
    BY <2>1, <2>2 DEF JobKeys
  <2>4. \A o \in jobs' : o.current <=> o.key \in present'
    BY <2>1, <2>2 DEF OwnedInv
  <2> QED
    BY <2>1, <2>3, <2>4 DEF OwnedInv, CountInv
<1>7. ASSUME NEW j \in jobs, CompleteGone(j) PROVE OwnedInv' /\ CountInv'
  <2>1. /\ jobs' = jobs \ {j} /\ inFlight' = inFlight - 1
        /\ UNCHANGED <<present, ready>> /\ j.key \notin present
    BY <1>7 DEF CompleteGone, nodeVars
  <2>2. JobKeys(jobs') = JobKeys(jobs) \ {j.key}
    BY <2>1, KeysWithout DEF TypeOK, JobsApart
  <2> QED
    BY <2>1, <2>2, EndedCount DEF OwnedInv
<1>8. ASSUME NEW j \in jobs, CompleteAgain(j) PROVE OwnedInv' /\ CountInv'
  <2> DEFINE i == NewJob(jobs \ {j}, j.key)
  <2>1. i.key = j.key /\ i.current
    BY DEF NewJob
  <2>2. /\ jobs' = (jobs \ {j}) \cup {i} /\ UNCHANGED <<present, ready, inFlight>>
        /\ j.key \in present
    BY <1>8 DEF CompleteAgain, Submitted, nodeVars
  <2>3. i.current = TRUE /\ j.current = TRUE
    BY <2>2 DEF OwnedInv, TypeOK, JobRecord, NewJob
  <2> HIDE DEF i
  <2> QED
    BY <2>1, <2>2, <2>3, ReplacedBooks
<1>9. ASSUME NEW j \in jobs, CompleteUnwanted(j) PROVE OwnedInv' /\ CountInv'
  <2>1. /\ jobs' = Disowned(jobs \ {j}, {j.key}) /\ inFlight' = inFlight - 1
        /\ present' = present \ {j.key} /\ ready' = ready \ {j.key}
    BY <1>9 DEF CompleteUnwanted
  <2>2. \A o \in jobs \ {j} : o.key # j.key /\ o.current \in BOOLEAN
    BY DEF JobsApart, TypeOK, JobRecord
  <2>3. \A o \in jobs \ {j} : [o EXCEPT !.current = o.current /\ o.key \notin {j.key}] = o
    BY <2>2 DEF TypeOK, JobRecord
  <2>4. jobs' = jobs \ {j}
    BY <2>1, <2>3 DEF Disowned
  <2>5. JobKeys(jobs') = JobKeys(jobs) \ {j.key}
    BY <2>4, KeysWithout DEF TypeOK, JobsApart
  <2>6. OwnedInv'
    BY <2>1, <2>2, <2>4, <2>5 DEF OwnedInv
  <2> QED
    BY <2>1, <2>5, <2>6, EndedCount
<1>10. ASSUME NEW j \in jobs, CompleteMeshed(j) PROVE OwnedInv' /\ CountInv'
  <2>1. /\ jobs' = jobs \ {j} /\ inFlight' = inFlight - 1
        /\ present' = present /\ ready' = ready \cup {j.key}
    BY <1>10 DEF CompleteMeshed
  <2>2. JobKeys(jobs') = JobKeys(jobs) \ {j.key}
    BY <2>1, KeysWithout DEF TypeOK, JobsApart
  <2> QED
    BY <2>1, <2>2, EndedCount DEF OwnedInv
<1>11. ASSUME NEW c \in Cameras, UpdateFar(c) PROVE OwnedInv' /\ CountInv'
  <2> DEFINE d(j) == [j EXCEPT !.current = j.current /\ j.key \notin present]
  <2>1. /\ jobs' = {d(j) : j \in jobs} /\ present' = {} /\ ready' = {}
        /\ inFlight' = inFlight
    BY <1>11 DEF UpdateFar, Disowned
  <2>2. \A j \in jobs : d(j).key = j.key /\ ~d(j).current
    BY DEF OwnedInv, TypeOK, JobRecord
  <2> HIDE DEF d
  <2>3. JobKeys(jobs') = JobKeys(jobs)
    BY <2>1, <2>2 DEF JobKeys
  <2>4. \A o \in jobs' : ~o.current
    BY <2>1, <2>2
  <2> QED
    BY <2>1, <2>3, <2>4 DEF OwnedInv, CountInv
<1>12. ASSUME NEW c \in Cameras, NEW keys \in SUBSET ready, Selects(c), Forget(c.leaves, keys)
       PROVE  OwnedInv' /\ CountInv'
  <2>1. /\ OwnedInv' /\ JobKeys(jobs') = JobKeys(jobs) \cup NewLeaves(c)
        /\ JobKeys(jobs) \cap NewLeaves(c) = {}
    BY <1>12, ForgetKeys
  <2>2. IsFiniteSet(JobKeys(jobs)) /\ IsFiniteSet(NewLeaves(c))
    BY KeysCount, NewLeavesType, TreeAssumption, FS_Subset DEF TypeOK, JobsApart
  <2>3. Cardinality(JobKeys(jobs')) = Cardinality(JobKeys(jobs)) + Cardinality(NewLeaves(c))
    <3> QED
      BY <2>1, <2>2, ApartCount
  <2>4. inFlight' = inFlight + Cardinality(NewLeaves(c))
    BY <1>12 DEF Selects
  <2> QED
    BY <2>1, <2>3, <2>4 DEF CountInv
<1>13. ASSUME NEW c \in Cameras, UpdateHold(c) PROVE OwnedInv' /\ CountInv'
  BY <1>12, <1>13 DEF UpdateHold
<1>14. ASSUME NEW c \in Cameras, UpdateSwap(c) PROVE OwnedInv' /\ CountInv'
  <2>1. Retired(c.leaves) \cup Surplus(c.leaves) \in SUBSET ready
    BY DEF Retired, Surplus, TypeOK
  <2> QED
    BY <1>12, <1>14, <2>1 DEF UpdateSwap
<1>15. CASE UNCHANGED vars
  BY <1>2, <1>15 DEF vars, nodeVars
<1> QED
  BY <1>3, <1>4, <1>5, <1>6, <1>7, <1>8, <1>9, <1>10, <1>11, <1>13, <1>14, <1>15
     DEF Next, Complete, Update

LEMMA BooksInit == Init => BooksInv
<1> SUFFICES ASSUME Init PROVE BooksInv
  OBVIOUS
<1>1. jobs = {} /\ present = {} /\ inFlight = 0
  BY DEF Init
<1>2. JobKeys(jobs) = {}
  BY <1>1 DEF JobKeys
<1> QED
  BY <1>1, <1>2, JobsInvInit, FS_EmptySet DEF BooksInv, OwnedInv, CountInv

\* A node's jobs that will complete it: one while it waits, and then none.
LEMMA BooksAreExact == BooksInv => JobsExact
<1> SUFFICES ASSUME BooksInv PROVE JobsExact
  OBVIOUS
<1>1. TypeOK /\ JobsApart /\ OwnedInv /\ CountInv
  BY DEF BooksInv, JobsInv
<1>2. InFlightExact
  BY <1>1, KeysCount DEF InFlightExact, CountInv, TypeOK, JobsApart
<1>3. ASSUME NEW k \in Node
      PROVE  Cardinality({j \in jobs : j.key = k /\ j.current})
               = (IF k \in present \ ready THEN 1 ELSE 0)
  <2> DEFINE mine == {j \in jobs : j.key = k /\ j.current}
  <2>1. CASE k \in present \ ready
    <3>1. PICK j \in jobs : j.key = k
      BY <1>1, <2>1 DEF OwnedInv, JobKeys
    <3>2. mine = {j}
      BY <1>1, <2>1, <3>1 DEF OwnedInv, JobsApart
    <3> QED
      BY <2>1, <3>2, FS_Singleton
  <2>2. CASE k \notin present \ ready
    <3>1. mine = {}
      BY <1>1, <2>2 DEF OwnedInv, JobsApart
    <3> QED
      BY <2>2, <3>1, FS_EmptySet
  <2> QED
    BY <2>1, <2>2
<1> QED
  BY <1>1, <1>2, <1>3 DEF JobsExact, OneJobEach

\* While the camera is unhurried, in_flight is exactly the number of jobs whose
\* completion has not run, and every node still to be meshed has exactly one that
\* will complete it.
THEOREM JobsStayExact == ASSUME Unhurried PROVE Spec => []JobsExact
<1>1. Init => BooksInv
  BY BooksInit
<1>2. BooksInv /\ [Next]_vars => BooksInv'
  BY JobsInvStep, BooksStep DEF BooksInv
<1>3. BooksInv => JobsExact
  BY BooksAreExact
<1> QED
  BY <1>1, <1>2, <1>3, PTL DEF Spec

-----------------------------------------------------------------------------
(* The chunks the surface map reaches.                                       *)

\* update() never bakes the map, nor forgets that it is baked.
LEMMA BakedKept ==
  ASSUME MapNext
  PROVE  map' = "baked" <=> map = "baked"
BY DEF MapNext

LEMMA MappedStep == OctreeInv /\ CoarseMapped /\ [Next]_vars => CoarseMapped'
<1> SUFFICES ASSUME OctreeInv, CoarseMapped, [Next]_vars PROVE CoarseMapped'
  OBVIOUS
<1>1. TypeOK /\ SceneInv
  BY DEF OctreeInv, JobsInv
<1>2. ASSUME UNCHANGED <<scene, mapped, map>> PROVE CoarseMapped'
  BY <1>2 DEF CoarseMapped
<1>3. ASSUME NEW j \in jobs,
             \/ StartJob(j) \/ FinishJob(j) \/ CompleteGone(j) \/ CompleteAgain(j)
             \/ CompleteUnwanted(j) \/ CompleteMeshed(j)
      PROVE  CoarseMapped'
  BY <1>2, <1>3 DEF StartJob, FinishJob, CompleteGone, CompleteAgain, CompleteUnwanted,
                    CompleteMeshed
<1>4. CASE ToggleFrozen \/ Drain \/ UpdateFrozen
  BY <1>2, <1>4 DEF ToggleFrozen, Drain, UpdateFrozen
<1>5. CASE LookMeasured
  BY <1>5 DEF LookMeasured, CoarseMapped
<1>6. CASE MapBaked
  <2>1. \A e \in scene : entity[e.key] = e.mesh
    <3>1. EntitiesOf(Node) = {e \in scene : e.key \in Node}
      BY <1>1, EntitiesHidden
    <3> QED
      BY <1>1, <3>1 DEF EntitiesOf, TypeOK
  <2> QED
    BY <1>6, <2>1 DEF MapBaked, CoarseMapped
<1>7. ASSUME NEW c \in Cameras, UpdateFar(c) PROVE CoarseMapped'
  <2>1. map' = "baked" <=> map = "baked"
    BY <1>7, BakedKept DEF UpdateFar, ReadsCamera
  <2> QED
    BY <1>7, <2>1 DEF UpdateFar, CoarseMapped
<1>8. ASSUME NEW c \in Cameras, UpdateHold(c) PROVE CoarseMapped'
  <2>1. map' = "baked" <=> map = "baked"
    BY <1>8, BakedKept DEF UpdateHold, Selects, ReadsCamera
  <2> QED
    BY <1>8, <2>1 DEF UpdateHold, CoarseMapped
<1>9. ASSUME NEW c \in Cameras, UpdateSwap(c) PROVE CoarseMapped'
  <2> DEFINE shown == {k \in Appearing(c.leaves) : mesh[k] # None}
             kept  == scene \ EntitiesOf(Retired(c.leaves) \cup Surplus(c.leaves))
  <2>1. map' = "baked" <=> map = "baked"
    BY <1>9, BakedKept DEF UpdateSwap, Selects, ReadsCamera
  <2>2. /\ scene' = kept \cup {EntityFor(k) : k \in shown}
        /\ mapped' = (mapped \cap kept)
              \cup {EntityFor(k) : k \in {d \in shown : map = "baked" /\ d \in Coarse}}
    BY <1>9 DEF UpdateSwap
  <2>3. \A k : EntityFor(k).key = k
    BY DEF EntityFor
  <2>4. mapped \cap kept = {e \in kept : e.key \in Coarse /\ map = "baked"}
    BY DEF CoarseMapped
  <2> HIDE DEF kept, shown
  <2> QED
    BY <2>1, <2>2, <2>3, <2>4 DEF CoarseMapped
<1>10. CASE UNCHANGED vars
  BY <1>2, <1>10 DEF vars
<1> QED
  BY <1>3, <1>4, <1>5, <1>6, <1>7, <1>8, <1>9, <1>10 DEF Next, Complete, Update

\* While the camera is unhurried, once the surface map is baked every coarse
\* chunk on screen is shaded from it, and before that none is.
THEOREM CoarseStayMapped == ASSUME Unhurried PROVE Spec => []CoarseMapped
<1>1. Init => OctreeInv /\ CoarseMapped
  BY OctreeInvInit DEF Init, CoarseMapped
<1>2. OctreeInv /\ CoarseMapped /\ [Next]_vars => OctreeInv' /\ CoarseMapped'
  BY OctreeInvStep, MappedStep
<1> QED
  BY <1>1, <1>2, PTL DEF Spec

-----------------------------------------------------------------------------
(* What settled says.                                                        *)

LEMMA SettledStep ==
  ASSUME Unhurried
  PROVE  BooksInv /\ SettledIsExact /\ [Next]_vars => SettledIsExact'
<1> SUFFICES ASSUME BooksInv, SettledIsExact, [Next]_vars PROVE SettledIsExact'
  OBVIOUS
<1>1. /\ TypeOK /\ JobsApart /\ OwnedInv /\ CountInv
      /\ TypeOK' /\ JobsApart' /\ OwnedInv' /\ CountInv'
  BY JobsInvStep, BooksStep DEF BooksInv, JobsInv
<1>2. inFlight' = 0 => jobs' = {} /\ present' \subseteq ready'
  <2> SUFFICES ASSUME inFlight' = 0 PROVE jobs' = {} /\ present' \subseteq ready'
    OBVIOUS
  <2>1. IsFiniteSet(JobKeys(jobs')) /\ Cardinality(JobKeys(jobs')) = 0
    <3>1. jobs' \in SUBSET JobRecord /\ \A i, j \in jobs' : i.key = j.key => i = j
      BY <1>1 DEF TypeOK, JobsApart
    <3>2. inFlight' = Cardinality(JobKeys(jobs'))
      BY <1>1 DEF CountInv
    <3> QED
      BY <3>1, <3>2, KeysCount
  <2>2. JobKeys(jobs') = {}
    BY <2>1, FS_EmptySet
  <2> QED
    BY <1>1, <2>2 DEF JobKeys, OwnedInv
<1>3. ASSUME UNCHANGED <<present, ready, displayed, camera, impostor, settled>>,
             jobs = {} => jobs' = {}
      PROVE  SettledIsExact'
  BY <1>3 DEF SettledIsExact
<1>4. ASSUME NEW j \in jobs,
             \/ StartJob(j) \/ FinishJob(j) \/ CompleteGone(j) \/ CompleteAgain(j)
             \/ CompleteUnwanted(j) \/ CompleteMeshed(j)
      PROVE  SettledIsExact'
  <2>1. ~settled
    BY DEF SettledIsExact
  <2>2. settled' = settled
    BY <1>4 DEF StartJob, FinishJob, CompleteGone, CompleteAgain, CompleteUnwanted,
                CompleteMeshed
  <2> QED
    BY <2>1, <2>2 DEF SettledIsExact
<1>5. CASE ToggleFrozen \/ Drain \/ UpdateFrozen \/ LookMeasured \/ MapBaked
  <2>1. UNCHANGED <<present, ready, displayed, camera, impostor, settled>>
    BY <1>5 DEF ToggleFrozen, Drain, UpdateFrozen, LookMeasured, MapBaked, nodeVars
  <2>2. jobs = {} => jobs' = {}
    BY <1>5 DEF ToggleFrozen, Drain, UpdateFrozen, LookMeasured, MapBaked
  <2> QED
    BY <1>3, <2>1, <2>2
<1>6. ASSUME NEW c \in Cameras, UpdateFar(c) PROVE SettledIsExact'
  <2>1. /\ settled' => inFlight' = 0
        /\ impostor' /\ present' = {}
    BY <1>6 DEF UpdateFar
  <2> QED
    BY <1>2, <2>1 DEF SettledIsExact
<1>7. ASSUME NEW c \in Cameras, UpdateHold(c) PROVE SettledIsExact'
  <2> SUFFICES ASSUME settled' PROVE SettledIsExact'
    BY DEF SettledIsExact
  <2>1. /\ inFlight' = 0 /\ c.leaves \subseteq ready
        /\ impostor' /\ camera' = c
        /\ present' = (present \cup c.leaves) \ (ready \ c.leaves)
        /\ ready' = ready \ (ready \ c.leaves)
    BY <1>7 DEF UpdateHold, AllReady, Selects, ReadsCamera, Forget
  <2>2. present' = c.leaves
    BY <1>2, <2>1
  <2> QED
    BY <1>2, <2>1, <2>2 DEF SettledIsExact
<1>8. ASSUME NEW c \in Cameras, UpdateSwap(c) PROVE SettledIsExact'
  <2> SUFFICES ASSUME settled' PROVE SettledIsExact'
    BY DEF SettledIsExact
  <2>1. /\ inFlight' = 0 /\ c.leaves \subseteq displayed' /\ present' \subseteq c.leaves
        /\ camera' = c
    BY <1>8 DEF UpdateSwap, Selects, ReadsCamera
  <2>2. displayed' = present' /\ present' = c.leaves
    BY <1>1, <2>1 DEF TypeOK
  <2> QED
    BY <1>2, <2>1, <2>2 DEF SettledIsExact
<1>9. CASE UNCHANGED vars
  BY <1>3, <1>9 DEF vars, nodeVars
<1> QED
  BY <1>4, <1>5, <1>6, <1>7, <1>8, <1>9 DEF Next, Complete, Update

\* idle()'s promise, while the camera is unhurried: from the update that finds
\* the octree settled to the next one, no job is in the pool, every node is
\* meshed, and what is on screen is what the camera wants, or the impostor.
THEOREM SettledStaysExact == ASSUME Unhurried PROVE Spec => []SettledIsExact
<1>1. Init => BooksInv /\ SettledIsExact
  BY BooksInit DEF Init, SettledIsExact
<1>2. BooksInv /\ SettledIsExact /\ [Next]_vars => BooksInv' /\ SettledIsExact'
  BY JobsInvStep, BooksStep, SettledStep DEF BooksInv
<1> QED
  BY <1>1, <1>2, PTL DEF Spec

-----------------------------------------------------------------------------
(* The masks, for any number of axes, any surface and any depth of the grid. *)

\* A node where nodes may be.
Key == {k \in NodeKey : Aligned(k)}

\* A chunk drawn, by the LODs below what contains it, hides nothing.
NoneAbove(shown) == \A k \in shown : Containing[k] \cap shown = {}

\* The offsets at which a finer chunk touches k.
FinerTouch(shown, k) ==
  {o \in Offset : \E n \in shown : n.lod = k.lod - 1 /\ o \in Touched[k][n]}

\* A mask of coarser ones is what it would be if written anew.  One of finer
\* ones may not be, but is right where a finer one touches, and where there are
\* none.
MasksInv ==
  \A k \in drawn \ Bare : \A o \in Offset :
    /\ o \in coarser[k] <=> o \in CoarserAt(drawn)[k]
    /\ Near(k, o) \in drawn \/ ParentOf(Near(k, o)) \in drawn => o \notin finer[k]
    /\ o \in FinerTouch(drawn, k) => o \in finer[k]

StitchInv == MasksTypeOK /\ NoneAbove(drawn) /\ MasksInv

-----------------------------------------------------------------------------
(* Induction, by the least counterexample *)

LEMMA LeastNumber ==
  ASSUME NEW S \in SUBSET Nat, S # {}
  PROVE  \E m \in S : \A k \in S : m <= k
<1> DEFINE R == OpToRel(<, Nat)
<1>1. IsWellFoundedOn(R, Nat)
  BY NatLessThanWellFounded
<1>2. \A x, y \in Nat : <<y, x>> \in R <=> y < x
  BY DEF OpToRel
<1> HIDE DEF R
<1>3. PICK m \in S : \A k \in S : ~(<<k, m>> \in R)
  BY <1>1, WFMin
<1>4. \A k \in S : ~(k < m)
  BY <1>2, <1>3
<1>5. \A k \in S : m <= k
  BY <1>4
<1> QED
  BY <1>5

LEMMA Induct ==
  ASSUME NEW S, 0 \in S, \A n \in Nat : n \in S => n + 1 \in S
  PROVE  \A n \in Nat : n \in S
<1> SUFFICES ASSUME Nat \ S # {} PROVE FALSE
  OBVIOUS
<1>1. PICK m \in Nat \ S : \A k \in Nat \ S : m <= k
  BY LeastNumber
<1>2. m - 1 \in Nat /\ m - 1 \in S
  BY <1>1
<1> QED
  BY <1>2

-----------------------------------------------------------------------------
(* Extents *)

Doubles(f, n) == f = [k \in 0 .. n |-> IF k = 0 THEN 1 ELSE 2 * f[k - 1]]

LEMMA DoublesExist == \A n \in Nat : \E f : Doubles(f, n)
<1> DEFINE S == {n \in Nat : \E f : Doubles(f, n)}
<1>1. 0 \in S
  <2>1. Doubles([k \in 0 .. 0 |-> 1], 0)
    BY DEF Doubles
  <2> QED
    BY <2>1
<1>2. ASSUME NEW n \in Nat, n \in S PROVE n + 1 \in S
  <2>1. PICK f : Doubles(f, n)
    BY <1>2
  <2> DEFINE g == [k \in 0 .. n + 1 |-> IF k = 0 THEN 1 ELSE 2 * f[k - 1]]
  <2>2. \A k \in 0 .. n : g[k] = f[k]
    BY <2>1 DEF Doubles
  <2>3. \A k \in 0 .. n + 1 : k # 0 => k - 1 \in 0 .. n
    OBVIOUS
  <2>4. g = [k \in 0 .. n + 1 |-> IF k = 0 THEN 1 ELSE 2 * g[k - 1]]
    BY <2>2, <2>3
  <2> HIDE DEF g
  <2>5. Doubles(g, n + 1)
    BY <2>4 DEF Doubles
  <2> QED
    BY <2>5
<1> HIDE DEF S
<1>3. \A n \in Nat : n \in S
  BY <1>1, <1>2, Induct
<1> QED
  BY <1>3 DEF S

LEMMA DoublesAgree ==
  ASSUME NEW m \in Nat, NEW n \in Nat, NEW f, NEW g, Doubles(f, m), Doubles(g, n)
  PROVE  \A k \in Nat : k <= m /\ k <= n => f[k] = g[k]
<1> DEFINE S == {k \in Nat : k <= m /\ k <= n => f[k] = g[k]}
<1>1. 0 \in S
  BY DEF Doubles
<1>2. ASSUME NEW k \in Nat, k \in S, k + 1 <= m, k + 1 <= n PROVE f[k + 1] = g[k + 1]
  <2>1. f[k] = g[k] /\ (k + 1) - 1 = k /\ k + 1 # 0
    BY <1>2
  <2>2. f[k + 1] = 2 * f[(k + 1) - 1] /\ g[k + 1] = 2 * g[(k + 1) - 1]
    BY <1>2 DEF Doubles
  <2> QED
    BY <2>1, <2>2
<1>3. \A k \in Nat : k \in S => k + 1 \in S
  BY <1>2
<1> HIDE DEF S
<1>4. \A k \in Nat : k \in S
  BY <1>1, <1>3, Induct
<1> QED
  BY <1>4 DEF S

\* ExtentOf is the function its definition says.
LEMMA ExtentIs ==
  ExtentOf = [n \in Nat |-> IF n = 0 THEN 1 ELSE 2 * ExtentOf[n - 1]]
<1> DEFINE Is(f) == f = [n \in Nat |-> IF n = 0 THEN 1 ELSE 2 * f[n - 1]]
<1>1. \E f : Is(f)
  <2> DEFINE upto(n) == CHOOSE f : Doubles(f, n)
             g == [n \in Nat |-> upto(n)[n]]
  <2>1. \A n \in Nat : Doubles(upto(n), n)
    BY DoublesExist
  <2>2. ASSUME NEW n \in Nat PROVE g[n] = IF n = 0 THEN 1 ELSE 2 * g[n - 1]
    <3>1. g[n] = upto(n)[n]
      OBVIOUS
    <3>2. CASE n = 0
      <4> HIDE DEF upto
      <4> QED
        BY <2>1, <3>1, <3>2 DEF Doubles
    <3>3. CASE n # 0
      <4>1. n - 1 \in Nat /\ n - 1 <= n
        BY <3>3
      <4>2. g[n - 1] = upto(n - 1)[n - 1]
        BY <4>1
      <4> HIDE DEF upto, g
      <4>3. upto(n - 1)[n - 1] = upto(n)[n - 1]
        BY <2>1, <4>1, DoublesAgree
      <4>4. upto(n)[n] = 2 * upto(n)[n - 1]
        BY <2>1, <3>3 DEF Doubles
      <4> QED
        BY <3>1, <3>3, <4>2, <4>3, <4>4
    <3> QED
      BY <3>2, <3>3
  <2>3. g = [n \in Nat |-> g[n]]
    OBVIOUS
  <2> HIDE DEF g
  <2>4. Is(g)
    BY <2>2, <2>3
  <2> QED
    BY <2>4
<1>2. ExtentOf = CHOOSE f : Is(f)
  BY DEF ExtentOf
<1> HIDE DEF Is
<1>3. Is(ExtentOf)
  BY <1>1, <1>2
<1> QED
  BY <1>3 DEF Is

LEMMA ExtentDoubles == ExtentOf[0] = 1 /\ \A n \in Nat : ExtentOf[n + 1] = 2 * ExtentOf[n]
<1>1. ExtentOf[0] = 1
  BY ExtentIs
<1>2. ASSUME NEW n \in Nat PROVE ExtentOf[n + 1] = 2 * ExtentOf[n]
  <2>1. n + 1 \in Nat /\ n + 1 # 0 /\ (n + 1) - 1 = n
    OBVIOUS
  <2>2. ExtentOf[n + 1] = 2 * ExtentOf[(n + 1) - 1]
    BY <2>1, ExtentIs
  <2> QED
    BY <2>1, <2>2
<1> QED
  BY <1>1, <1>2

LEMMA ExtentPositive == \A n \in Nat : ExtentOf[n] \in Nat \ {0}
<1> DEFINE S == {n \in Nat : ExtentOf[n] \in Nat \ {0}}
<1>1. 0 \in S /\ \A n \in Nat : n \in S => n + 1 \in S
  BY ExtentDoubles
<1> HIDE DEF S
<1>2. \A n \in Nat : n \in S
  BY <1>1, Induct
<1> QED
  BY <1>2 DEF S

-----------------------------------------------------------------------------
(* Multiples of an extent *)

Multiple(x, e) == \E q \in Int : x = q * e

LEMMA Dividing ==
  ASSUME NEW x \in Int, NEW e \in Nat \ {0}
  PROVE  /\ x \div e \in Int
         /\ (x \div e) * e <= x /\ x < (x \div e) * e + e
         /\ x % e = 0 <=> Multiple(x, e)
<1>1. /\ x \div e \in Int
      /\ x = (x \div e) * e + (x % e) /\ x % e \in 0 .. e - 1
  OBVIOUS
<1>2. (x \div e) * e <= x /\ x < (x \div e) * e + e
  BY <1>1
<1>3. x % e = 0 => Multiple(x, e)
  <2> DEFINE y == x \div e
  <2>1. y \in Int /\ (x % e = 0 => x = y * e)
    BY <1>1
  <2> HIDE DEF y
  <2> QED
    BY <2>1 DEF Multiple
<1>4. Multiple(x, e) => x % e = 0
  <2> SUFFICES ASSUME NEW q \in Int, x = q * e PROVE x % e = 0
    BY DEF Multiple
  <2> DEFINE y == x \div e
             r == x % e
             d == q - y
  <2>1. d \in Int /\ r \in 0 .. e - 1 /\ d * e = r
    BY <1>1
  <2> HIDE DEF y, r, d
  <2>2. ~(d >= 1)
    BY <2>1
  <2>3. ~(d <= -1)
    BY <2>1
  <2>4. d = 0
    BY <2>1, <2>2, <2>3
  <2>5. r = 0
    BY <2>1, <2>4
  <2> QED
    BY <2>5 DEF r
<1> QED
  BY <1>1, <1>2, <1>3, <1>4

\* Two multiples are an extent apart.
LEMMA Apart ==
  ASSUME NEW e \in Nat \ {0}, NEW x \in Int, NEW y \in Int,
         Multiple(x, e), Multiple(y, e), x < y
  PROVE  x + e <= y
<1>1. PICK p \in Int : x = p * e
  BY DEF Multiple
<1>2. PICK q \in Int : y = q * e
  BY DEF Multiple
<1>3. p < q
  BY <1>1, <1>2
<1>4. p + 1 <= q
  BY <1>3
<1>5. (p + 1) * e <= q * e
  BY <1>4
<1> QED
  BY <1>1, <1>2, <1>5

LEMMA NextMultiple ==
  ASSUME NEW e \in Nat \ {0}, NEW x \in Int, Multiple(x, e)
  PROVE  Multiple(x + e, e) /\ Multiple(x - e, e) /\ Multiple(0, e)
<1>1. PICK q \in Int : x = q * e
  BY DEF Multiple
<1>2. x + e = (q + 1) * e /\ x - e = (q - 1) * e /\ 0 = 0 * e
  BY <1>1
<1> QED
  BY <1>2 DEF Multiple

LEMMA HalfMultiple ==
  ASSUME NEW e \in Nat \ {0}, NEW x \in Int, Multiple(x, 2 * e)
  PROVE  Multiple(x, e)
<1>1. PICK q \in Int : x = q * (2 * e)
  BY DEF Multiple
<1>2. x = (2 * q) * e
  BY <1>1
<1> QED
  BY <1>2 DEF Multiple

\* What is placed at multiples of a larger extent is at multiples of each smaller.
LEMMA Finer ==
  ASSUME NEW m \in Nat, NEW x \in Int
  PROVE  \A d \in Nat : Multiple(x, ExtentOf[m + d]) => Multiple(x, ExtentOf[m])
<1> DEFINE S == {d \in Nat : Multiple(x, ExtentOf[m + d]) => Multiple(x, ExtentOf[m])}
<1>1. 0 \in S
  OBVIOUS
<1>2. ASSUME NEW d \in Nat, d \in S PROVE d + 1 \in S
  <2>1. m + d \in Nat /\ m + (d + 1) = (m + d) + 1
    OBVIOUS
  <2>2. ExtentOf[m + (d + 1)] = 2 * ExtentOf[m + d] /\ ExtentOf[m + d] \in Nat \ {0}
    BY <2>1, ExtentDoubles, ExtentPositive
  <2>3. Multiple(x, ExtentOf[m + (d + 1)]) => Multiple(x, ExtentOf[m + d])
    BY <2>2, HalfMultiple
  <2> QED
    BY <1>2, <2>3
<1> HIDE DEF S
<1>3. \A d \in Nat : d \in S
  BY <1>1, <1>2, Induct
<1> QED
  BY <1>3 DEF S

-----------------------------------------------------------------------------
(* Places: their edges are multiples of their extent *)

Extent(k) == ExtentOf[k.lod]

LEMMA KeyIs ==
  \A k : k \in Key <=> /\ k \in NodeKey
                       /\ \A a \in Axis : Multiple(k.origin[a], Extent(k))
<1>1. ASSUME NEW k \in NodeKey
      PROVE  Aligned(k) <=> \A a \in Axis : Multiple(k.origin[a], Extent(k))
  <2>1. Extent(k) \in Nat \ {0}
    BY ExtentPositive DEF Extent, NodeKey
  <2>2. ASSUME NEW a \in Axis
        PROVE  k.origin[a] % Extent(k) = 0 <=> Multiple(k.origin[a], Extent(k))
    <3>1. k.origin[a] \in Int
      BY DEF NodeKey
    <3> QED
      BY <2>1, <3>1, Dividing
  <2> QED
    BY <2>2 DEF Aligned, Extent
<1> QED
  BY <1>1 DEF Key

LEMMA KeyTypes ==
  ASSUME NEW k \in Key
  PROVE  /\ k.lod \in Nat /\ k = [lod |-> k.lod, origin |-> k.origin]
         /\ k.origin \in [Axis -> Int] /\ \A a \in Axis : k.origin[a] \in Int
         /\ \A a \in Axis : Multiple(k.origin[a], Extent(k))
         /\ Extent(k) \in Nat \ {0}
         /\ ExtentOf[k.lod + 1] = 2 * Extent(k)
         /\ k.lod # 0 => Extent(k) = 2 * ExtentOf[k.lod - 1] /\ ExtentOf[k.lod - 1] \in Nat \ {0}
<1>1. k \in NodeKey /\ \A a \in Axis : Multiple(k.origin[a], Extent(k))
  BY KeyIs
<1>2. k.lod \in Nat /\ k.origin \in [Axis -> Int] /\ k = [lod |-> k.lod, origin |-> k.origin]
  BY <1>1 DEF NodeKey
<1>3. ASSUME k.lod # 0
      PROVE  Extent(k) = 2 * ExtentOf[k.lod - 1] /\ ExtentOf[k.lod - 1] \in Nat \ {0}
  <2>1. k.lod - 1 \in Nat /\ (k.lod - 1) + 1 = k.lod
    BY <1>2, <1>3
  <2>2. ExtentOf[(k.lod - 1) + 1] = 2 * ExtentOf[k.lod - 1]
    BY <2>1, ExtentDoubles
  <2> QED
    BY <2>1, <2>2, ExtentPositive DEF Extent
<1> QED
  BY <1>1, <1>2, <1>3, ExtentDoubles, ExtentPositive DEF Extent

\* Keys of one LOD with one origin are one.
LEMMA SameKey ==
  ASSUME NEW k \in Key, NEW n \in Key, k.lod = n.lod, \A a \in Axis : k.origin[a] = n.origin[a]
  PROVE  k = n
<1>1. k.origin = n.origin
  BY KeyTypes
<1> QED
  BY <1>1, KeyTypes

LEMMA OffsetIs ==
  ASSUME NEW o \in Offset
  PROVE  /\ o \in [Axis -> -1 .. 1]
         /\ \A a \in Axis : o[a] \in {-1, 0, 1}
         /\ \E a \in Axis : TRUE
<1>1. o \in [Axis -> -1 .. 1] /\ o # [a \in Axis |-> 0]
  BY DEF Offset
<1>2. \A a \in Axis : o[a] \in -1 .. 1
  BY <1>1
<1>3. \E a \in Axis : o[a] # 0
  BY <1>1
<1> QED
  BY <1>1, <1>2, <1>3

LEMMA NearKey ==
  ASSUME NEW k \in Key, NEW o \in Offset
  PROVE  /\ Near(k, o) \in Key /\ Near(k, o).lod = k.lod /\ Extent(Near(k, o)) = Extent(k)
         /\ \A a \in Axis :
              Near(k, o).origin[a] = k.origin[a]
                + (IF o[a] = 1 THEN Extent(k) ELSE IF o[a] = 0 THEN 0 ELSE -Extent(k))
<1> DEFINE near == Near(k, o)
<1>1. near = [lod |-> k.lod, origin |-> [a \in Axis |-> k.origin[a] + o[a] * Extent(k)]]
  BY KeyTypes DEF Near, Extent
<1>2. ASSUME NEW a \in Axis
      PROVE  /\ near.origin[a] \in Int /\ Multiple(near.origin[a], Extent(k))
             /\ near.origin[a] = k.origin[a]
                  + (IF o[a] = 1 THEN Extent(k) ELSE IF o[a] = 0 THEN 0 ELSE -Extent(k))
  <2> DEFINE x == k.origin[a]
             e == Extent(k)
  <2>1. x \in Int /\ e \in Nat \ {0} /\ Multiple(x, e) /\ o[a] \in {-1, 0, 1}
    BY KeyTypes, OffsetIs
  <2>2. near.origin[a] = x + o[a] * e
    BY <1>1
  <2>3. Multiple(x + e, e) /\ Multiple(x - e, e)
    BY <2>1, NextMultiple
  <2> HIDE DEF x, e, near
  <2>4. CASE o[a] = 1
    <3>1. near.origin[a] = x + e
      BY <2>1, <2>2, <2>4
    <3> QED
      BY <2>1, <2>3, <2>4, <3>1 DEF x, e
  <2>5. CASE o[a] = 0
    <3>1. near.origin[a] = x
      BY <2>1, <2>2, <2>5
    <3> QED
      BY <2>1, <2>3, <2>5, <3>1 DEF x, e
  <2>6. CASE o[a] = -1
    <3>1. near.origin[a] = x - e /\ x - e \in Int /\ x - e = x + (-e)
      BY <2>1, <2>2, <2>6
    <3>2. o[a] # 1 /\ o[a] # 0
      BY <2>6
    <3> QED
      BY <2>3, <3>1, <3>2 DEF x, e
  <2> QED
    BY <2>1, <2>4, <2>5, <2>6
<1>3. near \in NodeKey /\ near.lod = k.lod /\ Extent(near) = Extent(k)
  <2>1. near.origin \in [Axis -> Int]
    BY <1>1, <1>2
  <2> QED
    BY <1>1, <2>1, KeyTypes DEF NodeKey, Extent
<1> HIDE DEF near
<1>4. near \in Key
  BY <1>2, <1>3, KeyIs
<1> QED
  BY <1>2, <1>3, <1>4 DEF near

\* k is in the half, on axis a, of a place whose origin is x.
Inside(k, x, a) == x <= k.origin[a] /\ k.origin[a] + Extent(k) <= x + 2 * Extent(k)

LEMMA ParentKey ==
  ASSUME NEW k \in Key
  PROVE  /\ ParentOf(k) \in Key /\ ParentOf(k).lod = k.lod + 1
         /\ Extent(ParentOf(k)) = 2 * Extent(k)
         /\ \A a \in Axis : Inside(k, ParentOf(k).origin[a], a)
<1> DEFINE p == ParentOf(k)
           e == Extent(k)
<1>1. p = [lod |-> k.lod + 1, origin |-> [a \in Axis |-> (k.origin[a] \div (2 * e)) * (2 * e)]]
  BY KeyTypes DEF ParentOf
<1>2. ASSUME NEW a \in Axis
      PROVE  /\ p.origin[a] \in Int /\ Multiple(p.origin[a], 2 * e)
             /\ Inside(k, p.origin[a], a)
  <2> DEFINE x == k.origin[a]
             q == x \div (2 * e)
             y == q * (2 * e)
  <2>1. x \in Int /\ e \in Nat \ {0} /\ 2 * e \in Nat \ {0} /\ Multiple(x, e)
    BY KeyTypes
  <2>2. q \in Int /\ y <= x /\ x < y + 2 * e
    BY <2>1, Dividing
  <2>3. p.origin[a] = y
    BY <1>1
  <2> HIDE DEF x, q, e, p
  <2>4. y \in Int /\ Multiple(y, 2 * e)
    BY <2>1, <2>2 DEF Multiple
  <2> HIDE DEF y
  <2>5. Multiple(y + e, e)
    BY <2>1, <2>4, HalfMultiple, NextMultiple
  <2>6. Multiple(y + e + e, e)
    BY <2>1, <2>4, <2>5, NextMultiple
  <2>7. x + e <= y + e + e
    BY <2>1, <2>2, <2>4, <2>6, Apart
  <2> QED
    BY <2>1, <2>2, <2>3, <2>4, <2>7 DEF Inside, x, e
<1>3. p \in NodeKey /\ p.lod = k.lod + 1 /\ Extent(p) = 2 * e
  <2>1. p.origin \in [Axis -> Int]
    BY <1>1, <1>2
  <2> QED
    BY <1>1, <2>1, KeyTypes DEF NodeKey, Extent
<1> HIDE DEF p
<1>4. p \in Key
  BY <1>2, <1>3, KeyIs
<1> QED
  BY <1>2, <1>3, <1>4 DEF p

\* What holds k and is one LOD coarser is its parent.
LEMMA ParentIs ==
  ASSUME NEW k \in Key, NEW n \in Key, n.lod = k.lod + 1,
         \A a \in Axis : n.origin[a] <= k.origin[a] /\ k.origin[a] < n.origin[a] + 2 * Extent(k)
  PROVE  n = ParentOf(k)
<1> DEFINE p == ParentOf(k)
           e == Extent(k)
<1>1. p \in Key /\ p.lod = n.lod /\ Extent(p) = 2 * e /\ Extent(n) = 2 * e
  BY ParentKey, KeyTypes DEF Extent
<1>2. ASSUME NEW a \in Axis PROVE n.origin[a] = p.origin[a]
  <2> DEFINE x == n.origin[a]
             y == p.origin[a]
             z == k.origin[a]
  <2>1. /\ x \in Int /\ y \in Int /\ z \in Int /\ e \in Nat \ {0} /\ 2 * e \in Nat \ {0}
        /\ Multiple(x, 2 * e) /\ Multiple(y, 2 * e)
    BY <1>1, KeyTypes
  <2>2. x <= z /\ z < x + 2 * e /\ y <= z /\ z < y + 2 * e
    BY <2>1, ParentKey DEF Inside
  <2> HIDE DEF x, y, z, e, p
  <2>3. ~(x < y)
    BY <2>1, <2>2, Apart
  <2>4. ~(y < x)
    BY <2>1, <2>2, Apart
  <2>5. x = y
    BY <2>1, <2>3, <2>4
  <2> QED
    BY <2>5 DEF x, y
<1> HIDE DEF p
<1>3. n = p
  BY <1>1, <1>2, SameKey
<1> QED
  BY <1>3 DEF p

LEMMA ChildIs ==
  ASSUME NEW k \in Key, NEW n \in Key, k.lod = n.lod + 1,
         \A a \in Axis : k.origin[a] <= n.origin[a] /\ n.origin[a] < k.origin[a] + Extent(k)
  PROVE  n \in ChildrenOf(k)
<1> DEFINE e == Extent(n)
           half == [a \in Axis |-> IF n.origin[a] = k.origin[a] THEN 0 ELSE 1]
<1>1. /\ n.lod \in Nat /\ k.lod # 0 /\ n.lod = k.lod - 1 /\ ExtentOf[k.lod - 1] = e
      /\ Extent(k) = 2 * e /\ e \in Nat \ {0}
  BY KeyTypes DEF Extent
<1>2. half \in [Axis -> 0 .. 1]
  OBVIOUS
<1>3. ASSUME NEW a \in Axis PROVE n.origin[a] = k.origin[a] + half[a] * e
  <2> DEFINE x == k.origin[a]
             y == n.origin[a]
  <2>1. x \in Int /\ y \in Int /\ Multiple(x, e) /\ Multiple(y, e)
    BY <1>1, KeyTypes, HalfMultiple
  <2>2. x <= y /\ y < x + 2 * e /\ e \in Nat \ {0}
    BY <1>1
  <2>3. half[a] = IF y = x THEN 0 ELSE 1
    OBVIOUS
  <2> HIDE DEF x, y, e, half
  <2>4. CASE x = y
    <3>1. half[a] = 0 /\ 0 * e = 0
      BY <2>2, <2>3, <2>4
    <3>2. y = x + half[a] * e
      BY <2>1, <2>4, <3>1
    <3> QED
      BY <3>2 DEF x, y
  <2>5. CASE x # y
    <3>1. Multiple(x + e, e) /\ x + e \in Int
      BY <2>1, <2>2, NextMultiple
    <3>2. x + e <= y
      BY <2>1, <2>2, <2>5, Apart
    <3>3. ~(x + e < y)
      BY <2>1, <2>2, <3>1, Apart
    <3>4. half[a] = 1 /\ 1 * e = e
      BY <2>2, <2>3, <2>5
    <3>5. y = x + half[a] * e
      BY <2>1, <2>2, <3>1, <3>2, <3>3, <3>4
    <3> QED
      BY <3>5 DEF x, y
  <2> QED
    BY <2>4, <2>5
<1>4. n.origin = [a \in Axis |-> k.origin[a] + half[a] * ExtentOf[k.lod - 1]]
  BY <1>1, <1>3, KeyTypes
<1>5. n = [lod |-> k.lod - 1, origin |-> [a \in Axis |-> k.origin[a] + half[a] * ExtentOf[k.lod - 1]]]
  BY <1>1, <1>4, KeyTypes
<1> HIDE DEF half, e
<1> QED
  BY <1>1, <1>2, <1>5 DEF ChildrenOf

-----------------------------------------------------------------------------
(* Who is next to whom *)

Opposite(o) == [a \in Axis |-> -o[a]]

LEMMA OppositeIs ==
  ASSUME NEW o \in Offset
  PROVE  /\ Opposite(o) \in Offset
         /\ \A a \in Axis : /\ Opposite(o)[a] \in {-1, 0, 1}
                            /\ Opposite(o)[a] = 1 <=> o[a] = -1
                            /\ Opposite(o)[a] = 0 <=> o[a] = 0
<1>1. \A a \in Axis : o[a] \in {-1, 0, 1} /\ o[a] \in -1 .. 1
  BY OffsetIs
<1>2. \A a \in Axis : /\ Opposite(o)[a] = -o[a]
  BY DEF Opposite
<1>3. \A a \in Axis : /\ Opposite(o)[a] \in -1 .. 1
                      /\ Opposite(o)[a] \in {-1, 0, 1}
                      /\ Opposite(o)[a] = 1 <=> o[a] = -1
                      /\ Opposite(o)[a] = 0 <=> o[a] = 0
  BY <1>1, <1>2
<1>4. Opposite(o) \in [Axis -> -1 .. 1]
  BY <1>3 DEF Opposite
<1>5. Opposite(o) # [a \in Axis |-> 0]
  <2>1. o \in [Axis -> -1 .. 1] /\ o # [a \in Axis |-> 0]
    BY DEF Offset
  <2>2. PICK a \in Axis : o[a] # 0
    BY <2>1
  <2> QED
    BY <1>3, <2>2
<1> QED
  BY <1>3, <1>4, <1>5 DEF Offset

\* Who is next to me has me next to it.
LEMMA NearBack ==
  ASSUME NEW k \in Key, NEW o \in Offset
  PROVE  k = Near(Near(k, o), Opposite(o))
<1> DEFINE near == Near(k, o)
           back == Near(near, Opposite(o))
           e == Extent(k)
<1>1. near \in Key /\ near.lod = k.lod /\ Extent(near) = e
  BY NearKey
<1>2. back \in Key /\ back.lod = k.lod
  BY <1>1, NearKey, OppositeIs
<1>3. ASSUME NEW a \in Axis PROVE k.origin[a] = back.origin[a]
  <2> DEFINE x == k.origin[a]
             y == near.origin[a]
             z == back.origin[a]
             u == Opposite(o)[a]
  <2>1. x \in Int /\ e \in Nat \ {0}
    BY KeyTypes
  <2>2. y = x + (IF o[a] = 1 THEN e ELSE IF o[a] = 0 THEN 0 ELSE -e)
    BY NearKey
  <2>3. z = y + (IF u = 1 THEN e ELSE IF u = 0 THEN 0 ELSE -e)
    BY <1>1, NearKey, OppositeIs
  <2>4. o[a] \in {-1, 0, 1} /\ u \in {-1, 0, 1} /\ (u = 1 <=> o[a] = -1) /\ (u = 0 <=> o[a] = 0)
    BY OffsetIs, OppositeIs
  <2> HIDE DEF x, y, z, e, u
  <2>5. x = z
    BY <2>1, <2>2, <2>3, <2>4
  <2> QED
    BY <2>5 DEF x, z
<1> HIDE DEF back
<1>4. k = back
  BY <1>2, <1>3, SameKey
<1> QED
  BY <1>4 DEF back

\* The chunk whose neighbour is inside c, and which is not itself, is a child of a
\* neighbour of c.
LEMMA ParentsNear ==
  ASSUME NEW k \in Key, NEW o \in Offset, ParentOf(Near(k, o)) # ParentOf(k)
  PROVE  \E u \in Offset : k \in ChildrenOf(Near(ParentOf(Near(k, o)), u))
<1> DEFINE near == Near(k, o)
           c == ParentOf(near)
           p == ParentOf(k)
           e == Extent(k)
           u == [a \in Axis |-> IF p.origin[a] = c.origin[a] THEN 0
                                ELSE IF p.origin[a] < c.origin[a] THEN -1 ELSE 1]
<1>1. near \in Key /\ near.lod = k.lod /\ Extent(near) = e
  BY NearKey
<1>2. /\ c \in Key /\ p \in Key /\ c.lod = k.lod + 1 /\ p.lod = k.lod + 1
      /\ Extent(c) = 2 * e /\ Extent(p) = 2 * e
  BY <1>1, ParentKey
<1>3. ASSUME NEW a \in Axis
      PROVE  p.origin[a] = c.origin[a]
               + (IF u[a] = 1 THEN 2 * e ELSE IF u[a] = 0 THEN 0 ELSE -(2 * e))
  <2> DEFINE x == k.origin[a]
             y == near.origin[a]
             v == p.origin[a]
             w == c.origin[a]
             d == 2 * e
  <2>1. x \in Int /\ y \in Int /\ v \in Int /\ w \in Int /\ e \in Nat \ {0} /\ d \in Nat \ {0}
    BY <1>1, <1>2, KeyTypes
  <2>2. Multiple(v, d) /\ Multiple(w, d)
    BY <1>2, KeyTypes
  <2>3. y = x + (IF o[a] = 1 THEN e ELSE IF o[a] = 0 THEN 0 ELSE -e)
    BY NearKey
  <2>4. v <= x /\ x + e <= v + 2 * e /\ w <= y /\ y + e <= w + 2 * e
    BY <1>1, ParentKey DEF Inside
  <2>5. u[a] = IF v = w THEN 0 ELSE IF v < w THEN -1 ELSE 1
    OBVIOUS
  <2>6. d = 2 * e
    OBVIOUS
  <2> HIDE DEF x, y, v, w, e, d, u
  <2>7. /\ Multiple(v + d, d) /\ Multiple(w + d, d)
        /\ v + d \in Int /\ w + d \in Int
    BY <2>1, <2>2, NextMultiple
  <2>8. v < w => v + d <= w /\ ~(v + d < w)
    <3> SUFFICES ASSUME v < w PROVE v + d <= w /\ ~(v + d < w)
      OBVIOUS
    <3>1. v + d <= w
      BY <2>1, <2>2, Apart
    <3>2. v + d < w => v + d + d <= w
      BY <2>1, <2>2, <2>7, Apart
    <3> QED
      BY <2>1, <2>3, <2>4, <2>6, <3>1, <3>2
  <2>9. w < v => w + d <= v /\ ~(w + d < v)
    <3> SUFFICES ASSUME w < v PROVE w + d <= v /\ ~(w + d < v)
      OBVIOUS
    <3>1. w + d <= v
      BY <2>1, <2>2, Apart
    <3>2. w + d < v => w + d + d <= v
      BY <2>1, <2>2, <2>7, Apart
    <3> QED
      BY <2>1, <2>3, <2>4, <2>6, <3>1, <3>2
  <2>10. v = w + (IF u[a] = 1 THEN d ELSE IF u[a] = 0 THEN 0 ELSE -d)
    BY <2>1, <2>5, <2>8, <2>9
  <2> QED
    BY <2>6, <2>10 DEF v, w
<1>4. u \in Offset
  <2>1. u \in [Axis -> -1 .. 1]
    OBVIOUS
  <2>2. u # [a \in Axis |-> 0]
    <3> SUFFICES ASSUME u = [a \in Axis |-> 0] PROVE FALSE
      OBVIOUS
    <3>1. \A a \in Axis : u[a] = 0
      OBVIOUS
    <3> HIDE DEF u, c, p
    <3>2. \A a \in Axis : p.origin[a] = c.origin[a]
      BY <1>2, <1>3, <3>1, KeyTypes
    <3>3. p = c
      BY <1>2, <3>2, SameKey
    <3> QED
      BY <3>3 DEF p, c
  <2> HIDE DEF u
  <2> QED
    BY <2>1, <2>2 DEF Offset
<1> HIDE DEF u, c, p, near
<1>5. /\ Near(c, u) \in Key /\ Near(c, u).lod = k.lod + 1
      /\ \A a \in Axis : Near(c, u).origin[a] = p.origin[a]
  BY <1>2, <1>3, <1>4, NearKey
<1>6. Near(c, u) = p
  BY <1>2, <1>5, SameKey
<1>7. k \in ChildrenOf(p)
  <2>1. ASSUME NEW a \in Axis PROVE p.origin[a] <= k.origin[a] /\ k.origin[a] < p.origin[a] + Extent(p)
    <3>1. k.origin[a] \in Int /\ p.origin[a] \in Int /\ e \in Nat \ {0}
      BY <1>2, KeyTypes
    <3>2. p.origin[a] <= k.origin[a] /\ k.origin[a] + e <= p.origin[a] + 2 * e
      BY ParentKey DEF Inside, p
    <3> HIDE DEF e
    <3> QED
      BY <1>2, <3>1, <3>2
  <2> QED
    BY <1>2, <2>1, ChildIs
<1> QED
  BY <1>4, <1>6, <1>7 DEF c, near

-----------------------------------------------------------------------------
(* What touches a chunk *)

\* A chunk of the same LOD that touches k is its neighbour.
LEMMA SameTouch ==
  ASSUME NEW k \in Key, NEW n \in Key, NEW o \in Offset, n.lod = k.lod,
         Contains(n, Near(k, o)) \/ Contains(Near(k, o), n)
  PROVE  n = Near(k, o)
<1> DEFINE near == Near(k, o)
<1>1. near \in Key /\ near.lod = n.lod
  BY NearKey
<1>2. ASSUME NEW a \in Axis PROVE n.origin[a] = near.origin[a]
  <2>1. /\ n.origin[a] \in Int /\ near.origin[a] \in Int /\ ExtentOf[n.lod] \in Nat
    BY <1>1, KeyTypes DEF Extent
  <2> HIDE DEF near
  <2> QED
    BY <1>1, <2>1 DEF Contains, Within, near
<1> HIDE DEF near
<1>3. n = near
  BY <1>1, <1>2, SameKey
<1> QED
  BY <1>3 DEF near

\* One that is coarser by one is the parent of k's neighbour.
LEMMA CoarserTouch ==
  ASSUME NEW k \in Key, NEW n \in Key, NEW o \in Offset, n.lod = k.lod + 1,
         Contains(n, Near(k, o)) \/ Contains(Near(k, o), n)
  PROVE  n = ParentOf(Near(k, o))
<1> DEFINE near == Near(k, o)
           e == Extent(near)
<1>1. near \in Key /\ n.lod = near.lod + 1 /\ ExtentOf[near.lod] = e /\ ExtentOf[n.lod] = 2 * e
  BY NearKey, KeyTypes DEF Extent
<1>2. ASSUME NEW a \in Axis
      PROVE  /\ near.origin[a] \in Int /\ n.origin[a] \in Int /\ e \in Nat \ {0}
             /\ Within(near, n, a) => /\ n.origin[a] <= near.origin[a]
                                      /\ near.origin[a] < n.origin[a] + 2 * e
             /\ ~Within(n, near, a)
  <2>1. near.origin[a] \in Int /\ n.origin[a] \in Int /\ e \in Nat \ {0}
    BY <1>1, KeyTypes
  <2> HIDE DEF near, e
  <2> QED
    BY <1>1, <2>1 DEF Within
<1> HIDE DEF near, e
<1>3. ~Contains(near, n)
  BY <1>2, OffsetIs DEF Contains
<1>4. \A a \in Axis : Within(near, n, a)
  BY <1>3 DEF Contains, near
<1>5. \A a \in Axis : n.origin[a] <= near.origin[a] /\ near.origin[a] < n.origin[a] + 2 * Extent(near)
  BY <1>2, <1>4 DEF e
<1>6. n = ParentOf(near)
  BY <1>1, <1>5, ParentIs
<1> QED
  BY <1>6 DEF near

\* One that is finer by one is a child of k's neighbour, at the side of k: it has a
\* neighbour in k.
LEMMA FinerTouches ==
  ASSUME NEW k \in Key, NEW n \in Key, NEW o \in Offset, k.lod = n.lod + 1, Touches(n, k),
         Contains(n, Near(k, o)) \/ Contains(Near(k, o), n)
  PROVE  /\ n \in ChildrenOf(Near(k, o)) /\ Contains(Near(k, o), n)
         /\ k = ParentOf(Near(n, Opposite(o)))
<1> DEFINE near == Near(k, o)
           back == Near(n, Opposite(o))
           e == Extent(n)
<1>1. /\ near \in Key /\ near.lod = k.lod /\ Extent(near) = 2 * e /\ Extent(k) = 2 * e
      /\ ExtentOf[near.lod] = 2 * e /\ ExtentOf[n.lod] = e /\ ExtentOf[k.lod] = 2 * e
  BY NearKey, KeyTypes DEF Extent
<1>2. back \in Key /\ back.lod = n.lod /\ Extent(back) = e
  BY NearKey, OppositeIs
<1>3. ASSUME NEW a \in Axis
      PROVE  /\ ~Within(near, n, a)
             /\ Within(n, near, a) =>
                  /\ near.origin[a] <= n.origin[a] /\ n.origin[a] < near.origin[a] + 2 * e
                  /\ k.origin[a] <= back.origin[a] /\ back.origin[a] < k.origin[a] + 2 * e
  <2> DEFINE x == k.origin[a]
             y == near.origin[a]
             z == n.origin[a]
             b == back.origin[a]
             u == Opposite(o)[a]
  <2>1. /\ x \in Int /\ y \in Int /\ z \in Int /\ b \in Int /\ e \in Nat \ {0}
        /\ Multiple(x, 2 * e) /\ Multiple(z, e)
    BY <1>1, <1>2, KeyTypes
  <2>2. y = x + (IF o[a] = 1 THEN 2 * e ELSE IF o[a] = 0 THEN 0 ELSE -(2 * e))
    BY <1>1, NearKey
  <2>3. b = z + (IF u = 1 THEN e ELSE IF u = 0 THEN 0 ELSE -e)
    BY NearKey, OppositeIs
  <2>4. o[a] \in {-1, 0, 1} /\ u \in {-1, 0, 1} /\ (u = 1 <=> o[a] = -1) /\ (u = 0 <=> o[a] = 0)
    BY OffsetIs, OppositeIs
  <2>5. z <= x + 2 * e /\ x <= z + e
    BY <1>1 DEF Touches
  <2>6. /\ Within(near, n, a) <=> z <= y /\ y + 2 * e <= z + e
        /\ Within(n, near, a) <=> y <= z /\ z + e <= y + 2 * e
    BY <1>1 DEF Within
  <2>7. Multiple(x, e)
    BY <2>1, HalfMultiple
  <2>8. ~Within(near, n, a)
    <3> HIDE DEF x, y, z, b, e, u, near
    <3> QED
      BY <2>1, <2>2, <2>4, <2>6
  <2>9. ASSUME Within(n, near, a)
        PROVE  y <= z /\ z < y + 2 * e /\ x <= b /\ b < x + 2 * e
    <3> HIDE DEF x, y, z, b, e, u, near
    <3>1. y <= z /\ z + e <= y + 2 * e
      BY <2>6, <2>9
    <3>2. CASE o[a] = 1
      BY <2>1, <2>2, <2>3, <2>4, <2>5, <3>1, <3>2
    <3>3. CASE o[a] = 0
      BY <2>1, <2>2, <2>3, <2>4, <2>5, <3>1, <3>3
    <3>4. CASE o[a] = -1
      BY <2>1, <2>2, <2>3, <2>4, <2>5, <3>1, <3>4
    <3> QED
      BY <2>4, <3>2, <3>3, <3>4
  <2> HIDE DEF e, near, back
  <2> QED
    BY <2>8, <2>9
<1> HIDE DEF near, back, e
<1>4. ~Contains(n, near)
  BY <1>3, OffsetIs DEF Contains
<1>5. Contains(near, n)
  BY <1>4 DEF near
<1>6. \A a \in Axis : Within(n, near, a)
  BY <1>5 DEF Contains
<1>7. n \in ChildrenOf(near)
  <2>1. \A a \in Axis :
          near.origin[a] <= n.origin[a] /\ n.origin[a] < near.origin[a] + Extent(near)
    BY <1>1, <1>3, <1>6
  <2> QED
    BY <1>1, <2>1, ChildIs
<1>8. k = ParentOf(back)
  <2>1. \A a \in Axis :
          k.origin[a] <= back.origin[a] /\ back.origin[a] < k.origin[a] + 2 * Extent(back)
    BY <1>2, <1>3, <1>6
  <2> QED
    BY <1>2, <2>1, ParentIs
<1> QED
  BY <1>5, <1>7, <1>8 DEF near, back

-----------------------------------------------------------------------------
(* What contains what *)

LEMMA ContainsTransitive ==
  ASSUME NEW k \in Key, NEW m \in Key, NEW n \in Key, Contains(m, k), Contains(n, m)
  PROVE  Contains(n, k)
<1> SUFFICES ASSUME NEW a \in Axis PROVE Within(k, n, a)
  BY DEF Contains
<1>1. Within(k, m, a) /\ Within(m, n, a)
  BY DEF Contains
<1>2. /\ k.origin[a] \in Int /\ m.origin[a] \in Int /\ n.origin[a] \in Int
      /\ ExtentOf[k.lod] \in Nat /\ ExtentOf[m.lod] \in Nat /\ ExtentOf[n.lod] \in Nat
  BY KeyTypes DEF Extent
<1> QED
  BY <1>1, <1>2 DEF Within

LEMMA ParentContains ==
  ASSUME NEW k \in Key
  PROVE  Contains(ParentOf(k), k) /\ ParentOf(k).lod > k.lod
<1>1. ASSUME NEW a \in Axis PROVE Within(k, ParentOf(k), a)
  <2>1. /\ Inside(k, ParentOf(k).origin[a], a) /\ ExtentOf[ParentOf(k).lod] = 2 * Extent(k)
        /\ ExtentOf[k.lod] = Extent(k)
    BY ParentKey DEF Extent
  <2> QED
    BY <2>1 DEF Within, Inside
<1> QED
  BY <1>1, ParentKey, KeyTypes DEF Contains

\* Of two that contain one, the larger contains the other.
LEMMA Nested ==
  ASSUME NEW k \in Key, NEW m \in Key, NEW n \in Key, Contains(m, k), Contains(n, k),
         m.lod <= n.lod
  PROVE  Contains(n, m)
<1> SUFFICES ASSUME NEW a \in Axis PROVE Within(m, n, a)
  BY DEF Contains
<1> DEFINE x == m.origin[a]
           y == n.origin[a]
           z == k.origin[a]
           d == ExtentOf[m.lod]
           e == ExtentOf[n.lod]
<1>1. /\ x \in Int /\ y \in Int /\ z \in Int /\ d \in Nat \ {0} /\ e \in Nat \ {0}
      /\ ExtentOf[k.lod] \in Nat \ {0}
  BY KeyTypes DEF Extent
<1>2. /\ x <= z /\ z + ExtentOf[k.lod] <= x + d
      /\ y <= z /\ z + ExtentOf[k.lod] <= y + e
  BY DEF Contains, Within
<1>3. Multiple(x, d) /\ Multiple(y, e) /\ Multiple(y + e, e) /\ y + e \in Int
  BY <1>1, KeyTypes, NextMultiple DEF Extent
<1>4. Multiple(y, d) /\ Multiple(y + e, d)
  <2>1. n.lod - m.lod \in Nat /\ m.lod \in Nat /\ m.lod + (n.lod - m.lod) = n.lod
    BY KeyTypes
  <2>2. ExtentOf[m.lod + (n.lod - m.lod)] = e
    BY <2>1
  <2> HIDE DEF x, y, z, d, e
  <2>3. \A w \in Int : Multiple(w, e) => Multiple(w, d)
    BY <2>1, <2>2, Finer DEF d
  <2> QED
    BY <1>1, <1>3, <2>3
<1> HIDE DEF x, y, z, d, e
<1>5. y <= x
  BY <1>1, <1>2, <1>3, <1>4, Apart
<1>6. x < y + e
  BY <1>1, <1>2
<1>7. x + d <= y + e
  BY <1>1, <1>3, <1>4, <1>6, Apart
<1> QED
  BY <1>5, <1>7 DEF Within, x, y, d, e

LEMMA SurfaceKeys == Land \subseteq Key /\ Bare \subseteq Land
BY SurfaceAssumption DEF Key

LEMMA LodsAre == \A k \in Key : k.lod \in Nat
BY KeyTypes

LEMMA TouchedIs ==
  ASSUME NEW k \in Land, NEW n \in Land, NEW o \in Touched[k][n]
  PROVE  o \in Offset /\ Touches(n, k) /\ (Contains(n, Near(k, o)) \/ Contains(Near(k, o), n))
<1>1. Touched[k][n] = {u \in Offset : /\ Touches(n, k)
                                      /\ Contains(n, Near(k, u)) \/ Contains(Near(k, u), n)}
  BY DEF Touched
<1> QED
  BY <1>1

\* Above is what contains a chunk, a chain.
LEMMA AboveChain ==
  /\ \A k \in Land : Containing[k] = {n \in Land : n.lod > k.lod /\ Contains(n, k)}
  /\ \A k, m, n \in Land : m \in Containing[k] /\ n \in Containing[k] =>
       m = n \/ m \in Containing[n] \/ n \in Containing[m]
<1>1. \A k \in Land : Containing[k] = {n \in Land : n.lod > k.lod /\ Contains(n, k)}
  BY DEF Containing
<1>2. ASSUME NEW k \in Land, NEW m \in Land, NEW n \in Land,
             m \in Containing[k], n \in Containing[k]
      PROVE  m = n \/ m \in Containing[n] \/ n \in Containing[m]
  <2>1. k \in Key /\ m \in Key /\ n \in Key /\ Contains(m, k) /\ Contains(n, k)
    BY <1>1, <1>2, SurfaceKeys
  <2>2. m.lod \in Nat /\ n.lod \in Nat
    BY <2>1, KeyTypes
  <2>3. CASE m.lod < n.lod
    BY <1>1, <2>1, <2>2, <2>3, Nested
  <2>4. CASE n.lod < m.lod
    BY <1>1, <2>1, <2>2, <2>4, Nested
  <2>5. CASE m.lod = n.lod
    <3>1. Contains(n, m) /\ Contains(m, n)
      BY <2>1, <2>2, <2>5, Nested
    <3>2. ASSUME NEW a \in Axis PROVE m.origin[a] = n.origin[a]
      <4>1. Within(n, m, a) /\ Within(m, n, a) /\ m.origin[a] \in Int /\ n.origin[a] \in Int
        BY <2>1, <3>1, KeyTypes DEF Contains
      <4> QED
        BY <4>1 DEF Within
    <3> QED
      BY <2>1, <2>5, <3>2, SameKey
  <2> QED
    BY <2>2, <2>3, <2>4, <2>5
<1> QED
  BY <1>1, <1>2

-----------------------------------------------------------------------------
(* Any one swap *)

\* Two chunks drawn have none in common: one that contains another is not drawn
\* with it.
LEMMA DrawnApart ==
  ASSUME NEW shown, shown \subseteq Land, NoneAbove(shown),
         NEW k \in Key, NEW n \in shown, Contains(k, n), k.lod > n.lod
  PROVE  /\ k \notin shown
         /\ \A m \in Key : Contains(m, k) /\ m.lod > k.lod => m \notin shown
<1>1. n \in Key /\ n \in Land
  BY SurfaceKeys
<1>2. ASSUME NEW m \in Key, Contains(m, n), m.lod > n.lod PROVE m \notin shown
  <2>1. m \in Land => m \in Containing[n]
    BY <1>1, <1>2, AboveChain
  <2> QED
    BY <2>1 DEF NoneAbove
<1>3. ASSUME NEW m \in Key, Contains(m, k), m.lod > k.lod PROVE m \notin shown
  <2>1. m.lod \in Nat /\ n.lod \in Nat /\ k.lod \in Nat
    BY <1>1, LodsAre
  <2>2. Contains(m, n) /\ m.lod > n.lod
    BY <1>1, <1>3, <2>1, ContainsTransitive
  <2> QED
    BY <1>2, <2>2
<1> QED
  BY <1>2, <1>3

LEMMA SelectedApart ==
  ASSUME NEW leaves \in Selections
  PROVE  leaves \subseteq Land /\ NoneAbove(leaves)
<1>1. PICK split \in SUBSET {k \in Land : k.lod > 0} : leaves = SelectedBy(split)
  BY DEF Selections
<1> QED
  BY <1>1 DEF SelectedBy, NoneAbove

\* The parts of a swap.
RetiredBy(leaves, done) == {k \in drawn \ leaves : CoverReady(k, leaves, done)}

AppearingBy(leaves, done) ==
  {l \in done \ drawn : Containing[l] \cap (drawn \ RetiredBy(leaves, done)) = {}}

LEMMA SwapParts ==
  ASSUME StitchInv, NEW leaves \in Selections, NEW done \in SUBSET leaves,
         drawn \cap leaves \subseteq done, Swap(leaves, done)
  PROVE  LET retired == RetiredBy(leaves, done)
             appearing == AppearingBy(leaves, done)
             changed == retired \cup appearing
         IN  /\ drawn' \subseteq Land /\ changed \subseteq Land
             /\ drawn' = (drawn \ retired) \cup appearing
             /\ coarser' = Rewritten(coarser, CoarserAt(drawn'), drawn', changed)
             /\ finer' = Rewritten(finer, FinerAt(drawn'), drawn', changed)
             /\ \A x : x \notin changed => (x \in drawn <=> x \in drawn')
             /\ \A x \in changed : x \in drawn \/ x \in drawn'
BY SelectedApart DEF Swap, RetiredBy, AppearingBy, StitchInv, MasksTypeOK

LEMMA SwappedApart ==
  ASSUME StitchInv, NEW leaves \in Selections, NEW done \in SUBSET leaves,
         drawn \cap leaves \subseteq done, Swap(leaves, done)
  PROVE  NoneAbove(drawn')
<1> DEFINE retired == RetiredBy(leaves, done)
           kept == drawn \ retired
           appearing == AppearingBy(leaves, done)
<1>1. drawn' = kept \cup appearing /\ drawn' \subseteq Land /\ drawn \subseteq Land
  BY SwapParts DEF StitchInv, MasksTypeOK
<1> SUFFICES ASSUME NEW k \in drawn', NEW n \in drawn', n \in Containing[k] PROVE FALSE
  BY DEF NoneAbove
<1>2. leaves \subseteq Land /\ NoneAbove(leaves) /\ NoneAbove(drawn)
  BY SelectedApart DEF StitchInv
<1>3. CASE n \in kept
  <2>1. k \notin kept
    BY <1>2, <1>3 DEF NoneAbove
  <2> QED
    BY <1>1, <1>3, <2>1 DEF AppearingBy
<1>4. CASE n \in appearing /\ k \in appearing
  BY <1>2, <1>4 DEF NoneAbove, AppearingBy
<1>5. CASE n \in appearing /\ k \in kept
  <2>1. n \in done /\ n \in leaves
    BY <1>5 DEF AppearingBy
  <2>2. k \notin leaves
    BY <1>2, <2>1 DEF NoneAbove
  <2>3. \A m \in Containing[k] \cap leaves : m = n
    <3> SUFFICES ASSUME NEW m \in Containing[k] \cap leaves, m # n PROVE FALSE
      OBVIOUS
    <3>1. m \in Containing[n] \/ n \in Containing[m]
      BY <1>1, <1>2, <2>1, AboveChain
    <3> QED
      BY <1>2, <2>1, <3>1 DEF NoneAbove
  <2>4. CoverReady(k, leaves, done)
    BY <2>1, <2>3 DEF CoverReady
  <2> QED
    BY <1>5, <2>2, <2>4 DEF RetiredBy
<1> QED
  BY <1>1, <1>3, <1>4, <1>5

\* What one mask becomes.
LEMMA RewrittenIs ==
  ASSUME NEW mask, NEW now, NEW shown, NEW changed, NEW k \in shown \ Bare
  PROVE  /\ k \in Affected(shown, changed) => Rewritten(mask, now, shown, changed)[k] = now[k]
         /\ k \notin Affected(shown, changed) /\ k \in DOMAIN mask =>
              Rewritten(mask, now, shown, changed)[k] = mask[k]
BY DEF Rewritten

LEMMA MasksTypes ==
  ASSUME NEW mask, mask \in [drawn \ Bare -> SUBSET Offset],
         NEW now, \A k \in Land : now[k] \in SUBSET Offset,
         NEW shown, shown \subseteq Land, NEW changed
  PROVE  Rewritten(mask, now, shown, changed) \in [shown \ Bare -> SUBSET Offset]
BY DEF Rewritten

LEMMA AnewTypes ==
  ASSUME NEW shown, NEW k \in Land
  PROVE  CoarserAt(shown)[k] \in SUBSET Offset /\ FinerAt(shown)[k] \in SUBSET Offset
BY DEF CoarserAt, FinerAt

\* A mask written anew is right.
LEMMA AnewIsRight ==
  ASSUME NEW shown, shown \subseteq Land, NoneAbove(shown), NEW k \in shown, NEW o \in Offset
  PROVE  /\ Near(k, o) \in shown \/ ParentOf(Near(k, o)) \in shown => o \notin FinerAt(shown)[k]
         /\ o \in FinerTouch(shown, k) => o \in FinerAt(shown)[k]
<1>1. k \in Land /\ k \in Key
  BY SurfaceKeys
<1>2. Near(k, o) \in shown \/ ParentOf(Near(k, o)) \in shown => o \notin FinerAt(shown)[k]
  BY <1>1 DEF FinerAt
<1>3. ASSUME o \in FinerTouch(shown, k) PROVE o \in FinerAt(shown)[k]
  <2>1. PICK n \in shown : n.lod = k.lod - 1 /\ o \in Touched[k][n]
    BY <1>3 DEF FinerTouch
  <2>2. n \in Land /\ n \in Key /\ k.lod = n.lod + 1
    BY <2>1, <1>1, SurfaceKeys, LodsAre
  <2>3. Touches(n, k) /\ (Contains(n, Near(k, o)) \/ Contains(Near(k, o), n))
    BY <1>1, <2>1, <2>2, TouchedIs
  <2>4. n \in ChildrenOf(Near(k, o)) /\ Contains(Near(k, o), n)
    BY <1>1, <2>2, <2>3, FinerTouches
  <2> DEFINE near == Near(k, o)
  <2>5. near \in Key /\ near.lod = k.lod /\ Contains(near, n)
    BY <1>1, <2>4, NearKey
  <2> HIDE DEF near
  <2>6. ParentOf(near) \in Key /\ Contains(ParentOf(near), near)
        /\ ParentOf(near).lod > near.lod
    BY <2>5, ParentKey, ParentContains
  <2>7. near.lod > n.lod
    BY <2>2, <2>5, LodsAre
  <2>8. near \notin shown
    BY <2>5, <2>7, DrawnApart
  <2>9. ParentOf(near) \notin shown
    BY <2>5, <2>6, <2>7, DrawnApart
  <2> QED
    BY <1>1, <2>4, <2>8, <2>9 DEF FinerAt, near
<1> QED
  BY <1>2, <1>3

\* What came or went where it matters has the chunk next to it.
LEMMA ChangeIsSeen ==
  ASSUME NEW shown, shown \subseteq Land, NEW changed, changed \subseteq Land,
         NEW k \in shown, k \notin Affected(shown, changed), NEW o \in Offset
  PROVE  /\ k \notin changed
         /\ Near(k, o) \notin changed
         /\ ParentOf(Near(k, o)) \in changed => ParentOf(Near(k, o)) \in Containing[k]
         /\ \A n \in changed : n.lod = k.lod - 1 => o \notin Touched[k][n]
<1>1. k \in Land /\ k \in Key
  BY SurfaceKeys
<1>2. k \notin changed /\ \A c \in changed : k \notin NextTo[c]
  BY DEF Affected
<1>3. \A c \in Land : \A u \in Offset : /\ Near(c, u) \in NextTo[c]
                                           /\ ParentOf(Near(c, u)) \in NextTo[c]
                                           /\ ChildrenOf(Near(c, u)) \subseteq NextTo[c]
  BY DEF NextTo
<1>4. Near(k, o) \notin changed
  BY <1>1, <1>2, <1>3, NearBack, OppositeIs
<1>5. ASSUME ParentOf(Near(k, o)) \in changed PROVE ParentOf(Near(k, o)) \in Containing[k]
  <2>1. ParentOf(Near(k, o)) = ParentOf(k)
    BY <1>1, <1>2, <1>3, <1>5, ParentsNear
  <2> QED
    BY <1>1, <1>5, <2>1, ParentContains, AboveChain
<1>6. ASSUME NEW n \in changed, n.lod = k.lod - 1, o \in Touched[k][n] PROVE FALSE
  <2>1. n \in Land /\ n \in Key /\ k.lod = n.lod + 1
    BY <1>1, <1>6, SurfaceKeys, LodsAre
  <2>2. Touches(n, k) /\ (Contains(n, Near(k, o)) \/ Contains(Near(k, o), n))
    BY <1>1, <1>6, <2>1, TouchedIs
  <2>3. k = ParentOf(Near(n, Opposite(o)))
    BY <1>1, <2>1, <2>2, FinerTouches
  <2> QED
    BY <1>2, <1>3, <2>1, <2>3, OppositeIs
<1> QED
  BY <1>2, <1>4, <1>5, <1>6

LEMMA ChangeIsSeenBy ==
  \A shown, changed \in SUBSET Land : \A k \in shown, o \in Offset :
    k \notin Affected(shown, changed) =>
      /\ k \notin changed
      /\ Near(k, o) \notin changed
      /\ ParentOf(Near(k, o)) \in changed => ParentOf(Near(k, o)) \in Containing[k]
      /\ \A n \in changed : n.lod = k.lod - 1 => o \notin Touched[k][n]
BY ChangeIsSeen

LEMMA SwapMasks ==
  ASSUME StitchInv, NEW leaves \in Selections, NEW done \in SUBSET leaves,
         drawn \cap leaves \subseteq done, Swap(leaves, done)
  PROVE  MasksInv'
<1> DEFINE changed == RetiredBy(leaves, done) \cup AppearingBy(leaves, done)
<1> SUFFICES ASSUME NEW k \in (drawn \ Bare)', NEW o \in Offset
             PROVE  /\ o \in coarser'[k] <=> o \in CoarserAt(drawn')[k]
                    /\ Near(k, o) \in drawn' \/ ParentOf(Near(k, o)) \in drawn' =>
                         o \notin finer'[k]
                    /\ o \in FinerTouch(drawn', k) => o \in finer'[k]
  BY DEF MasksInv
<1>1. /\ drawn' \subseteq Land /\ changed \subseteq Land
      /\ coarser' = Rewritten(coarser, CoarserAt(drawn'), drawn', changed)
      /\ finer' = Rewritten(finer, FinerAt(drawn'), drawn', changed)
      /\ \A x : x \notin changed => (x \in drawn <=> x \in drawn')
      /\ \A x \in changed : x \in drawn \/ x \in drawn'
  BY SwapParts
<1> HIDE DEF changed
<1>2. NoneAbove(drawn') /\ NoneAbove(drawn) /\ MasksTypeOK /\ MasksInv
  BY SwappedApart DEF StitchInv
<1>3. k \in drawn' /\ k \notin Bare /\ k \in Land
  BY <1>1
<1>4. CASE k \in Affected(drawn', changed)
  <2>1. coarser'[k] = CoarserAt(drawn')[k] /\ finer'[k] = FinerAt(drawn')[k]
    BY <1>1, <1>3, <1>4, RewrittenIs
  <2> QED
    BY <1>1, <1>2, <1>3, <2>1, AnewIsRight
<1>5. CASE k \notin Affected(drawn', changed)
  <2> DEFINE near == Near(k, o)
             c == ParentOf(near)
  <2>1. /\ k \notin changed /\ near \notin changed
        /\ c \in changed => c \in Containing[k]
        /\ \A n \in changed : n.lod = k.lod - 1 => o \notin Touched[k][n]
    <3> SUFFICES /\ k \notin changed
                 /\ Near(k, o) \notin changed
                 /\ ParentOf(Near(k, o)) \in changed => ParentOf(Near(k, o)) \in Containing[k]
                 /\ \A n \in changed : n.lod = k.lod - 1 => o \notin Touched[k][n]
      OBVIOUS
    <3>1. drawn' \subseteq Land /\ changed \subseteq Land /\ k \in drawn'
      BY <1>1, <1>3
    <3> HIDE DEF near, c
    <3> QED
      BY <3>1, <1>5, ChangeIsSeenBy
  <2>2. k \in drawn
    BY <1>1, <1>3, <2>1
  <2>3. coarser'[k] = coarser[k] /\ finer'[k] = finer[k]
    <3>1. k \in DOMAIN coarser /\ k \in DOMAIN finer
      BY <1>2, <1>3, <2>2 DEF MasksTypeOK
    <3> QED
      BY <1>1, <1>3, <1>5, <3>1, RewrittenIs
  <2>4. c \notin changed
    BY <1>1, <1>2, <1>3, <2>1, <2>2 DEF NoneAbove
  <2>5. (near \in drawn <=> near \in drawn') /\ (c \in drawn <=> c \in drawn')
    BY <1>1, <2>1, <2>4
  <2>6. o \in CoarserAt(drawn)[k] <=> o \in CoarserAt(drawn')[k]
    BY <1>3, <2>5 DEF CoarserAt
  <2>7. o \in FinerTouch(drawn', k) => o \in FinerTouch(drawn, k)
    BY <1>1, <2>1 DEF FinerTouch
  <2>8. /\ o \in coarser[k] <=> o \in CoarserAt(drawn)[k]
        /\ near \in drawn \/ c \in drawn => o \notin finer[k]
        /\ o \in FinerTouch(drawn, k) => o \in finer[k]
    BY <1>2, <1>3, <2>2 DEF MasksInv
  <2> QED
    BY <2>3, <2>5, <2>6, <2>7, <2>8
<1> QED
  BY <1>4, <1>5

-----------------------------------------------------------------------------
(* The theorem *)

LEMMA StitchStep ==
  ASSUME StitchInv, [MasksNext]_maskVars
  PROVE  StitchInv'
<1>1. CASE Swaps
  <2>1. PICK leaves \in Selections : \E late \in SUBSET (leaves \ drawn) :
          Swap(leaves, leaves \ late)
    BY <1>1 DEF Swaps
  <2>2. PICK late \in SUBSET (leaves \ drawn) : Swap(leaves, leaves \ late)
    BY <2>1
  <2> DEFINE done == leaves \ late
             changed == RetiredBy(leaves, done) \cup AppearingBy(leaves, done)
  <2>3. done \in SUBSET leaves /\ drawn \cap leaves \subseteq done /\ Swap(leaves, done)
    BY <2>2
  <2> HIDE DEF done
  <2>4. NoneAbove(drawn') /\ MasksInv'
    BY <2>3, SwappedApart, SwapMasks
  <2>5. MasksTypeOK'
    <3>1. /\ drawn' \subseteq Land
          /\ coarser' = Rewritten(coarser, CoarserAt(drawn'), drawn', changed)
          /\ finer' = Rewritten(finer, FinerAt(drawn'), drawn', changed)
      BY <2>3, SwapParts
    <3>2. /\ coarser \in [drawn \ Bare -> SUBSET Offset]
          /\ finer \in [drawn \ Bare -> SUBSET Offset]
      BY DEF StitchInv, MasksTypeOK
    <3>3. \A k \in Land : /\ CoarserAt(drawn')[k] \in SUBSET Offset
                             /\ FinerAt(drawn')[k] \in SUBSET Offset
      BY AnewTypes
    <3> HIDE DEF changed
    <3>4. coarser' \in [drawn' \ Bare -> SUBSET Offset]
      BY <3>1, <3>2, <3>3, MasksTypes
    <3>5. finer' \in [drawn' \ Bare -> SUBSET Offset]
      BY <3>1, <3>2, <3>3, MasksTypes
    <3> QED
      BY <3>1, <3>4, <3>5 DEF MasksTypeOK
  <2> QED
    BY <2>4, <2>5 DEF StitchInv
<1>2. CASE ToImpostor
  BY <1>2 DEF ToImpostor, StitchInv, MasksTypeOK, NoneAbove, MasksInv
<1>3. CASE UNCHANGED maskVars
  BY <1>3 DEF maskVars, StitchInv, MasksTypeOK, NoneAbove, MasksInv
<1> QED
  BY <1>1, <1>2, <1>3 DEF MasksNext

LEMMA StitchMatches == StitchInv => MasksMatch
<1> SUFFICES ASSUME StitchInv, NEW k \in drawn \ Bare, NEW n \in drawn,
                    NEW o \in Touched[k][n]
             PROVE  /\ n.lod = k.lod => o \notin coarser[k] \cup finer[k]
                    /\ n.lod = k.lod + 1 => o \in coarser[k] \ finer[k]
                    /\ n.lod = k.lod - 1 => o \in finer[k] \ coarser[k]
  BY DEF MasksMatch, StitchInv
<1>1. k \in Land /\ n \in Land /\ k \in Key /\ n \in Key
  BY SurfaceKeys DEF StitchInv, MasksTypeOK
<1>2. o \in Offset /\ Touches(n, k) /\ (Contains(n, Near(k, o)) \/ Contains(Near(k, o), n))
  BY <1>1, TouchedIs
<1> DEFINE near == Near(k, o)
<1>3. near \in Key /\ ParentOf(near) \in Key /\ near.lod = k.lod
  BY <1>1, <1>2, NearKey, ParentKey
<1>4. Contains(ParentOf(near), near) /\ ParentOf(near).lod > near.lod
  BY <1>3, ParentContains
<1>5. /\ o \in coarser[k] <=> o \in CoarserAt(drawn)[k]
      /\ near \in drawn \/ ParentOf(near) \in drawn => o \notin finer[k]
      /\ o \in FinerTouch(drawn, k) => o \in finer[k]
  BY <1>2 DEF StitchInv, MasksInv
<1>6. o \in CoarserAt(drawn)[k] <=> near \notin drawn /\ ParentOf(near) \in drawn
  BY <1>1, <1>2 DEF CoarserAt
<1> HIDE DEF near
<1>7. drawn \subseteq Land /\ NoneAbove(drawn)
  BY DEF StitchInv, MasksTypeOK
<1>8. CASE n.lod = k.lod
  <2>1. n = near
    BY <1>1, <1>2, <1>8, SameTouch DEF near
  <2> QED
    BY <1>1, <1>5, <1>6, <1>8, <2>1, LodsAre
<1>9. CASE n.lod = k.lod + 1
  <2>1. n = ParentOf(near)
    BY <1>1, <1>2, <1>9, CoarserTouch DEF near
  <2>2. near \notin drawn
    <3>1. near \in Land => n \in Containing[near]
      BY <1>1, <1>4, <2>1, AboveChain
    <3> QED
      BY <1>7, <3>1 DEF NoneAbove
  <2>3. o \in coarser[k] \ finer[k]
    BY <1>5, <1>6, <2>1, <2>2
  <2> QED
    BY <1>1, <1>9, <2>3, LodsAre
<1>10. CASE n.lod = k.lod - 1
  <2>1. k.lod = n.lod + 1
    BY <1>1, <1>10, LodsAre
  <2>2. Contains(near, n)
    BY <1>1, <1>2, <2>1, FinerTouches DEF near
  <2>3. near.lod > n.lod
    BY <1>1, <1>3, <2>1, LodsAre
  <2>4. ParentOf(near) \notin drawn
    BY <1>3, <1>4, <1>7, <2>2, <2>3, DrawnApart
  <2>5. o \in FinerTouch(drawn, k)
    BY <1>2, <1>10 DEF FinerTouch
  <2>6. o \in finer[k] \ coarser[k]
    BY <1>5, <1>6, <2>4, <2>5
  <2> QED
    BY <1>1, <2>1, <2>6, LodsAre
<1> QED
  BY <1>8, <1>9, <1>10

\* "Which of its 26 neighbours on screen are one LOD coarser and which finer":
\* after any swaps, on any surface, each chunk's masks are right for every chunk
\* that touches it.
THEOREM MasksStayRight == MasksSpec => []MasksMatch
<1>1. MasksInit => StitchInv
  BY DEF MasksInit, StitchInv, MasksTypeOK, NoneAbove, MasksInv
<1>2. StitchInv /\ [MasksNext]_maskVars => StitchInv'
  BY StitchStep
<1>3. StitchInv => MasksMatch
  BY StitchMatches
<1> QED
  BY <1>1, <1>2, <1>3, PTL DEF MasksSpec

=============================================================================
