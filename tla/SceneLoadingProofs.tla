------------------------ MODULE SceneLoadingProofs -------------------------
(***************************************************************************)
(* Proofs about Gltf, for any file that is as glTF has it and any spawn;   *)
(* about AssetWorker, for any number of jobs; and about SceneLoading, for  *)
(* any models, images, sets and files, and any calls that set a scene up.  *)
(***************************************************************************)
EXTENDS SceneLoading, SequenceTheorems, FiniteSetTheorems, WellFoundedInduction,
        TLAPS

-----------------------------------------------------------------------------
(* The invariant of the walk *)

\* A mesh as the model is to have it.
Expected(gltf, s) ==
  LET drawn == Drawn(gltf, s)
  IN [p \in DOMAIN drawn |-> IF drawn[p].material = 0 THEN Len(gltf.materials) + 1
                             ELSE drawn[p].material]

NodeRecord(gltf) ==
  [name : DOMAIN gltf.nodes, parent : Nat, mesh : Nat,
   moving : {gltf.nodes[n].moving : n \in DOMAIN gltf.nodes}, shape : {"none", "box", "hull"}]

VisitRecord(gltf) == [node : DOMAIN gltf.nodes, parent : Nat]

OutRecord(gltf) ==
  [ok : BOOLEAN, nodes : Seq(NodeRecord(gltf)),
   meshes : Seq({Expected(gltf, s) : s \in DOMAIN gltf.meshes}),
   meshIds : [DOMAIN gltf.meshes -> Nat], materials : Nat, defaultMaterial : Nat,
   toVisit : Seq(VisitRecord(gltf))]

\* A mesh that is loaded is what it is to be, and there is one more material
\* for those that name none, or none needed it yet.
MeshesInv(gltf, out) ==
  /\ \/ out.defaultMaterial = 0 /\ out.materials = Len(gltf.materials)
     \/ out.defaultMaterial = out.materials /\ out.materials = Len(gltf.materials) + 1
  /\ \A s \in DOMAIN gltf.meshes : out.meshIds[s] # 0 =>
       /\ out.meshIds[s] \in DOMAIN out.meshes
       /\ out.meshes[out.meshIds[s]] = Expected(gltf, s)

\* A node is the file's.
NodesInv(gltf, out) ==
  \A i \in DOMAIN out.nodes :
    LET of == gltf.nodes[out.nodes[i].name]
    IN /\ out.nodes[i].moving = of.moving /\ out.nodes[i].shape = of.shape
       /\ of.mesh = 0 => out.nodes[i].mesh = 0
       /\ of.mesh # 0 => out.nodes[i].mesh = out.meshIds[of.mesh] /\ out.nodes[i].mesh # 0

\* The parent of node n is among the first of the model's.
HangsFrom(gltf, out, n, parent, last) ==
  \/ parent = 0 /\ n \in Range(gltf.roots)
  \/ parent \in 1 .. last /\ n \in Children(gltf, out.nodes[parent].name)

PlacedInv(gltf, out) ==
  /\ \A i \in DOMAIN out.nodes :
       HangsFrom(gltf, out, out.nodes[i].name, out.nodes[i].parent, i - 1)
  /\ \A k \in DOMAIN out.toVisit :
       HangsFrom(gltf, out, out.toVisit[k].node, out.toVisit[k].parent, Len(out.nodes))

Visited(out) == {out.nodes[i].name : i \in DOMAIN out.nodes}

Left(out) == {out.toVisit[k].node : k \in DOMAIN out.toVisit}

\* No node is met twice.
OnceInv(out) ==
  /\ \A i, j \in DOMAIN out.nodes : out.nodes[i].name = out.nodes[j].name => i = j
  /\ \A k, l \in DOMAIN out.toVisit : out.toVisit[k].node = out.toVisit[l].node => k = l
  /\ Visited(out) \cap Left(out) = {}

OfScene(gltf) == UNION {Under(gltf, root) : root \in Range(gltf.roots)}

\* What is the scene's and was not visited is left, or below what is left.
SceneInv(gltf, out) ==
  /\ Visited(out) \cup Left(out) \subseteq OfScene(gltf)
  /\ Range(gltf.roots) \subseteq Visited(out) \cup Left(out)
  /\ \A n \in Visited(out) : Children(gltf, n) \subseteq Visited(out) \cup Left(out)

\* A visit that fails, or finds nothing left, leaves things as they are.
CountInv(visits, out) == out.ok /\ out.toVisit # <<>> => Len(out.nodes) = visits

WalkInv(gltf, visits, out) ==
  /\ out \in OutRecord(gltf)
  /\ MeshesInv(gltf, out) /\ NodesInv(gltf, out) /\ PlacedInv(gltf, out)
  /\ OnceInv(out) /\ SceneInv(gltf, out) /\ CountInv(visits, out)

-----------------------------------------------------------------------------
(* Sequences and numbers *)

LEMMA RangeIs == ASSUME NEW s PROVE Range(s) = {s[i] : i \in DOMAIN s}
BY DEF Range

LEMMA RangeOfAppend ==
  ASSUME NEW S, NEW s \in Seq(S), NEW x
  PROVE  Range(Append(s, x)) = Range(s) \cup {x}
<1>1. /\ Len(s) \in Nat /\ DOMAIN s = 1 .. Len(s)
      /\ DOMAIN Append(s, x) = 1 .. Len(s) + 1
      /\ \A i \in 1 .. Len(s) : Append(s, x)[i] = s[i]
      /\ Append(s, x)[Len(s) + 1] = x
  OBVIOUS
<1>2. \A i : i \in 1 .. Len(s) + 1 <=> i \in 1 .. Len(s) \/ i = Len(s) + 1
  BY <1>1
<1> QED
  BY <1>1, <1>2 DEF Range

LEMMA RangeOfTail ==
  ASSUME NEW S, NEW s \in Seq(S), s # <<>>
  PROVE  /\ Head(s) \in Range(s) /\ Range(s) = Range(Tail(s)) \cup {Head(s)}
         /\ Head(s) \in S /\ Tail(s) \in Seq(S) /\ Range(s) \subseteq S
<1>1. /\ Len(s) \in Nat /\ Len(s) # 0 /\ DOMAIN s = 1 .. Len(s)
      /\ DOMAIN Tail(s) = 1 .. Len(s) - 1 /\ Head(s) = s[1]
      /\ \A i \in 1 .. Len(s) - 1 : Tail(s)[i] = s[i + 1]
      /\ Tail(s) \in Seq(S)
  OBVIOUS
<1>2. \A i \in 1 .. Len(s) : i = 1 \/ (i - 1 \in 1 .. Len(s) - 1 /\ (i - 1) + 1 = i)
  BY <1>1
<1>3. \A i \in 1 .. Len(s) - 1 : i + 1 \in 1 .. Len(s)
  BY <1>1
<1>4. \A x : x \in Range(s) <=> \E i \in 1 .. Len(s) : x = s[i]
  BY <1>1 DEF Range
<1>5. \A x : x \in Range(Tail(s)) <=> \E i \in 1 .. Len(s) - 1 : x = s[i + 1]
  BY <1>1 DEF Range
<1>6. 1 \in 1 .. Len(s) /\ \A i \in 1 .. Len(s) : s[i] \in S
  BY <1>1
<1>7. ASSUME NEW x \in Range(s) PROVE x \in Range(Tail(s)) \cup {Head(s)}
  <2>1. PICK i \in 1 .. Len(s) : x = s[i]
    BY <1>4
  <2>2. CASE i = 1
    BY <1>1, <2>1, <2>2
  <2>3. CASE i # 1
    <3>1. i - 1 \in 1 .. Len(s) - 1 /\ x = s[(i - 1) + 1]
      BY <1>2, <2>1, <2>3
    <3> QED
      BY <1>5, <3>1
  <2> QED
    BY <2>2, <2>3
<1>8. \A x \in Range(Tail(s)) : x \in Range(s)
  BY <1>3, <1>4, <1>5
<1>9. Head(s) \in Range(s)
  BY <1>1, <1>4, <1>6
<1> QED
  BY <1>1, <1>4, <1>6, <1>7, <1>8, <1>9

LEMMA RangeOfBoth ==
  ASSUME NEW S, NEW s \in Seq(S), NEW t \in Seq(S)
  PROVE  Range(s \o t) = Range(s) \cup Range(t) /\ s \o t \in Seq(S)
<1>1. /\ Len(s) \in Nat /\ Len(t) \in Nat /\ DOMAIN s = 1 .. Len(s) /\ DOMAIN t = 1 .. Len(t)
      /\ DOMAIN (s \o t) = 1 .. Len(s) + Len(t)
      /\ \A i \in 1 .. Len(s) : (s \o t)[i] = s[i]
      /\ \A i \in 1 .. Len(t) : (s \o t)[Len(s) + i] = t[i]
      /\ s \o t \in Seq(S)
  OBVIOUS
<1>2. \A i \in 1 .. Len(s) + Len(t) :
        i \in 1 .. Len(s) \/ (i - Len(s) \in 1 .. Len(t) /\ Len(s) + (i - Len(s)) = i)
  BY <1>1
<1>3. \A i \in 1 .. Len(s) : i \in 1 .. Len(s) + Len(t)
  BY <1>1
<1>4. \A i \in 1 .. Len(t) : Len(s) + i \in 1 .. Len(s) + Len(t)
  BY <1>1
<1>5. \A x : /\ x \in Range(s) <=> \E i \in 1 .. Len(s) : x = s[i]
             /\ x \in Range(t) <=> \E i \in 1 .. Len(t) : x = t[i]
             /\ x \in Range(s \o t) <=> \E i \in 1 .. Len(s) + Len(t) : x = (s \o t)[i]
  BY <1>1 DEF Range
<1>6. ASSUME NEW x \in Range(s \o t) PROVE x \in Range(s) \cup Range(t)
  <2>1. PICK i \in 1 .. Len(s) + Len(t) : x = (s \o t)[i]
    BY <1>5
  <2>2. CASE i \in 1 .. Len(s)
    BY <1>1, <1>5, <2>1, <2>2
  <2>3. CASE i \notin 1 .. Len(s)
    <3>1. i - Len(s) \in 1 .. Len(t) /\ x = (s \o t)[Len(s) + (i - Len(s))]
      BY <1>2, <2>1, <2>3
    <3>2. x = t[i - Len(s)]
      BY <1>1, <3>1
    <3> QED
      BY <1>5, <3>1, <3>2
  <2> QED
    BY <2>2, <2>3
<1>7. \A x \in Range(s) : x \in Range(s \o t)
  BY <1>1, <1>3, <1>5
<1>8. \A x \in Range(t) : x \in Range(s \o t)
  BY <1>1, <1>4, <1>5
<1> QED
  BY <1>1, <1>6, <1>7, <1>8

LEMMA BothAre ==
  ASSUME NEW S, NEW s \in Seq(S), NEW t \in Seq(S)
  PROVE  /\ s \o t \in Seq(S) /\ Len(s \o t) = Len(s) + Len(t)
         /\ DOMAIN (s \o t) = 1 .. Len(s) + Len(t)
         /\ \A i \in 1 .. Len(s) : (s \o t)[i] = s[i]
         /\ \A i \in 1 .. Len(t) : (s \o t)[Len(s) + i] = t[i]
<1>1. s \o t \in Seq(S) /\ Len(s \o t) = Len(s) + Len(t)
  OBVIOUS
<1>2. DOMAIN (s \o t) = 1 .. Len(s) + Len(t)
  BY <1>1
<1>3. \A i \in 1 .. Len(s) + Len(t) :
        (s \o t)[i] = IF i <= Len(s) THEN s[i] ELSE t[i - Len(s)]
  OBVIOUS
<1>4. /\ Len(s) \in Nat /\ Len(t) \in Nat
      /\ \A i \in 1 .. Len(s) : i \in 1 .. Len(s) + Len(t) /\ i <= Len(s)
      /\ \A i \in 1 .. Len(t) : /\ Len(s) + i \in 1 .. Len(s) + Len(t)
                                 /\ ~(Len(s) + i <= Len(s)) /\ (Len(s) + i) - Len(s) = i
  OBVIOUS
<1> QED
  BY <1>1, <1>2, <1>3, <1>4

\* Induction by the least counterexample.
LEMMA Induct ==
  ASSUME NEW S, 1 \in S, \A n \in Nat \ {0} : n \in S => n + 1 \in S
  PROVE  \A n \in Nat \ {0} : n \in S
<1> DEFINE T == (Nat \ {0}) \ S
<1> DEFINE R == OpToRel(<, Nat)
<1> SUFFICES ASSUME T # {} PROVE FALSE
  OBVIOUS
<1>1. IsWellFoundedOn(R, Nat)
  BY NatLessThanWellFounded
<1>2. \A x, y \in Nat : <<y, x>> \in R <=> y < x
  BY DEF OpToRel
<1>3. T \in SUBSET Nat
  OBVIOUS
<1> HIDE DEF R
<1>4. \E m \in T : \A k \in T : ~(<<k, m>> \in R)
  <2> HIDE DEF T
  <2> QED
    BY <1>1, <1>3, WFMin
<1>5. PICK m \in T : \A k \in T : ~(k < m)
  BY <1>2, <1>3, <1>4
<1>6. m # 1 /\ m - 1 \in Nat \ {0} /\ m - 1 \notin T
  BY <1>5
<1>7. (m - 1) + 1 = m
  BY <1>5
<1> QED
  BY <1>5, <1>6, <1>7

-----------------------------------------------------------------------------
(* The file's tree *)

LEMMA FileFacts ==
  ASSUME NEW gltf, NamesWhatItHas(gltf)
  PROVE  /\ Len(gltf.nodes) \in Nat /\ DOMAIN gltf.nodes = 1 .. Len(gltf.nodes)
         /\ Len(gltf.materials) \in Nat
         /\ Range(gltf.roots) \subseteq DOMAIN gltf.nodes
         /\ \A n \in DOMAIN gltf.nodes :
              /\ Children(gltf, n) \subseteq DOMAIN gltf.nodes
              /\ gltf.nodes[n].mesh # 0 => gltf.nodes[n].mesh \in DOMAIN gltf.meshes
<1>1. /\ gltf.nodes \in Seq(Range(gltf.nodes)) /\ gltf.materials \in Seq(Range(gltf.materials))
      /\ gltf.roots \in Seq(DOMAIN gltf.nodes)
  BY DEF NamesWhatItHas
<1>2. ASSUME NEW n \in DOMAIN gltf.nodes
      PROVE  /\ gltf.nodes[n].children \in Seq(DOMAIN gltf.nodes)
             /\ gltf.nodes[n].mesh # 0 => gltf.nodes[n].mesh \in DOMAIN gltf.meshes
  BY DEF NamesWhatItHas
<1>3. ASSUME NEW S, NEW s \in Seq(S) PROVE Range(s) \subseteq S
  BY DEF Range
<1> QED
  BY <1>1, <1>2, <1>3 DEF Children

\* The least set is one: closed, with the node, and in every other such set.
LEMMA UnderIs ==
  ASSUME NEW gltf, NamesWhatItHas(gltf), NEW n \in DOMAIN gltf.nodes
  PROVE  /\ n \in Under(gltf, n) /\ Under(gltf, n) \subseteq DOMAIN gltf.nodes
         /\ \A m \in Under(gltf, n) : Children(gltf, m) \subseteq Under(gltf, n)
         /\ \A set \in SUBSET DOMAIN gltf.nodes :
              n \in set /\ (\A m \in set : Children(gltf, m) \subseteq set)
                => Under(gltf, n) \subseteq set
<1> DEFINE closed == {set \in SUBSET DOMAIN gltf.nodes :
                        n \in set /\ \A m \in set : Children(gltf, m) \subseteq set}
<1>1. Under(gltf, n) = {m \in DOMAIN gltf.nodes : \A set \in closed : m \in set}
  BY DEF Under
<1>2. ASSUME NEW m \in Under(gltf, n), NEW c \in Children(gltf, m) PROVE c \in Under(gltf, n)
  <2>1. c \in DOMAIN gltf.nodes
    BY <1>1, FileFacts
  <2>2. ASSUME NEW set \in closed PROVE c \in set
    BY <1>1
  <2> QED
    BY <1>1, <2>1, <2>2
<1> QED
  BY <1>1, <1>2

\* The scene's nodes are closed too.
LEMMA OfSceneIs ==
  ASSUME NEW gltf, NamesWhatItHas(gltf)
  PROVE  /\ OfScene(gltf) \subseteq DOMAIN gltf.nodes
         /\ Range(gltf.roots) \subseteq OfScene(gltf)
         /\ \A n \in OfScene(gltf) : Children(gltf, n) \subseteq OfScene(gltf)
         /\ \A set \in SUBSET DOMAIN gltf.nodes :
              Range(gltf.roots) \subseteq set /\ (\A m \in set : Children(gltf, m) \subseteq set)
                => OfScene(gltf) \subseteq set
<1>1. \A root \in Range(gltf.roots) : root \in DOMAIN gltf.nodes
  BY FileFacts
<1> QED
  BY <1>1, UnderIs DEF OfScene

-----------------------------------------------------------------------------
(* A mesh is loaded *)

\* A record with some fields changed is one of the same fields.
LEMMA OutWith ==
  ASSUME NEW N, NEW M, NEW D, NEW V,
         NEW out \in [ok : BOOLEAN, nodes : N, meshes : M, meshIds : [D -> Nat],
                      materials : Nat, defaultMaterial : Nat, toVisit : V]
  PROVE  /\ [out EXCEPT !.ok = FALSE] \in
              [ok : BOOLEAN, nodes : N, meshes : M, meshIds : [D -> Nat],
               materials : Nat, defaultMaterial : Nat, toVisit : V]
         /\ \A nodes \in N, toVisit \in V :
              [out EXCEPT !.nodes = nodes, !.toVisit = toVisit] \in
                [ok : BOOLEAN, nodes : N, meshes : M, meshIds : [D -> Nat],
                 materials : Nat, defaultMaterial : Nat, toVisit : V]
         /\ \A d \in D, id, default, materials \in Nat, meshes \in M :
              [out EXCEPT !.meshIds[d] = id, !.meshes = meshes,
                          !.defaultMaterial = default, !.materials = materials] \in
                [ok : BOOLEAN, nodes : N, meshes : M, meshIds : [D -> Nat],
                 materials : Nat, defaultMaterial : Nat, toVisit : V]
OBVIOUS

LEMMA LoadMeshKeeps ==
  ASSUME NEW gltf, NamesWhatItHas(gltf), NEW out \in OutRecord(gltf), MeshesInv(gltf, out),
         NEW s \in DOMAIN gltf.meshes
  PROVE  LET loaded == LoadMesh(gltf, out, s) IN
         /\ loaded \in OutRecord(gltf) /\ MeshesInv(gltf, loaded)
         /\ loaded.nodes = out.nodes /\ loaded.toVisit = out.toVisit
         /\ \A t \in DOMAIN gltf.meshes :
              out.meshIds[t] # 0 => loaded.meshIds[t] = out.meshIds[t]
         /\ loaded.ok => out.ok /\ loaded.meshIds[s] # 0
<1> DEFINE drawn == Drawn(gltf, s)
<1> DEFINE default == IF out.defaultMaterial = 0 /\ NeedsDefault(drawn)
                      THEN out.materials + 1 ELSE out.defaultMaterial
<1> DEFINE parts == [i \in DOMAIN drawn |-> IF drawn[i].material = 0 THEN default
                                            ELSE drawn[i].material]
<1> DEFINE failed == [out EXCEPT !.ok = FALSE]
<1> DEFINE made == [out EXCEPT !.meshIds[s] = Len(out.meshes) + 1,
                               !.meshes = Append(@, parts),
                               !.defaultMaterial = default,
                               !.materials = IF default = @ + 1 THEN default ELSE @]
<1>1. LoadMesh(gltf, out, s) =
        IF out.meshIds[s] # 0 THEN out
        ELSE IF \E i \in DOMAIN gltf.meshes[s] : Malformed(gltf.meshes[s][i]) THEN failed
        ELSE made
  BY DEF LoadMesh
<1> DEFINE Meshes == {Expected(gltf, t) : t \in DOMAIN gltf.meshes}
<1>2. /\ out.ok \in BOOLEAN /\ out.nodes \in Seq(NodeRecord(gltf)) /\ out.meshes \in Seq(Meshes)
      /\ out.meshIds \in [DOMAIN gltf.meshes -> Nat]
      /\ out.materials \in Nat /\ out.defaultMaterial \in Nat
      /\ out.toVisit \in Seq(VisitRecord(gltf))
  BY DEF OutRecord
<1>3. CASE out.meshIds[s] # 0
  <2>1. LoadMesh(gltf, out, s) = out
    BY <1>1, <1>3
  <2> QED
    BY <1>3, <2>1
<1>4. /\ failed \in OutRecord(gltf) /\ failed.meshIds = out.meshIds /\ failed.meshes = out.meshes
      /\ failed.nodes = out.nodes /\ failed.toVisit = out.toVisit /\ failed.ok = FALSE
      /\ failed.defaultMaterial = out.defaultMaterial /\ failed.materials = out.materials
  <2>1. failed \in OutRecord(gltf)
    BY OutWith DEF OutRecord
  <2>2. /\ failed.meshIds = out.meshIds /\ failed.meshes = out.meshes
        /\ failed.nodes = out.nodes /\ failed.toVisit = out.toVisit /\ failed.ok = FALSE
        /\ failed.defaultMaterial = out.defaultMaterial /\ failed.materials = out.materials
    BY DEF OutRecord
  <2> QED
    BY <2>1, <2>2
<1>5. MeshesInv(gltf, failed)
  BY <1>4 DEF MeshesInv
<1>6. Len(gltf.materials) \in Nat
  BY FileFacts
<1>7. default \in Nat /\ (NeedsDefault(drawn) => default = Len(gltf.materials) + 1)
  BY <1>2, <1>6 DEF MeshesInv
<1>8. parts = Expected(gltf, s)
  <2>1. ASSUME NEW i \in DOMAIN drawn, drawn[i].material = 0
        PROVE  default = Len(gltf.materials) + 1
    BY <1>7, <2>1 DEF NeedsDefault
  <2> HIDE DEF default, drawn
  <2>2. parts = [p \in DOMAIN drawn |-> IF drawn[p].material = 0 THEN Len(gltf.materials) + 1
                                        ELSE drawn[p].material]
    BY <2>1
  <2> QED
    BY <2>2 DEF Expected, drawn
<1> HIDE DEF parts
<1>9. /\ made.ok = out.ok /\ made.nodes = out.nodes /\ made.toVisit = out.toVisit
      /\ made.meshes = Append(out.meshes, parts)
      /\ made.meshIds = [out.meshIds EXCEPT ![s] = Len(out.meshes) + 1]
      /\ made.defaultMaterial = default
      /\ made.materials = IF default = out.materials + 1 THEN default ELSE out.materials
  <2> HIDE DEF default
  <2> QED
    BY DEF OutRecord
<1>10. /\ Len(out.meshes) \in Nat /\ DOMAIN out.meshes = 1 .. Len(out.meshes)
       /\ made.meshes \in Seq(Meshes) /\ DOMAIN made.meshes = 1 .. Len(out.meshes) + 1
       /\ \A i \in 1 .. Len(out.meshes) : made.meshes[i] = out.meshes[i]
       /\ made.meshes[Len(out.meshes) + 1] = parts
  <2>1. parts \in Meshes
    BY <1>8
  <2> HIDE DEF made, Meshes
  <2> QED
    BY <1>2, <1>9, <2>1
<1>11. /\ made.meshIds \in [DOMAIN gltf.meshes -> Nat]
       /\ made.meshIds[s] = Len(out.meshes) + 1
       /\ \A t \in DOMAIN gltf.meshes : t # s => made.meshIds[t] = out.meshIds[t]
  <2> HIDE DEF made
  <2> QED
    BY <1>2, <1>9, <1>10
<1>12. made \in OutRecord(gltf)
  <2> DEFINE materials == IF default = out.materials + 1 THEN default ELSE out.materials
  <2>1. materials \in Nat /\ Append(out.meshes, parts) \in Seq(Meshes)
    BY <1>2, <1>7, <1>9, <1>10
  <2>2. Len(out.meshes) + 1 \in Nat
    BY <1>10
  <2>3. made = [out EXCEPT !.meshIds[s] = Len(out.meshes) + 1,
                           !.meshes = Append(out.meshes, parts),
                           !.defaultMaterial = default, !.materials = materials]
    OBVIOUS
  <2> HIDE DEF made, default, materials
  <2> QED
    BY <1>7, <2>1, <2>2, <2>3, OutWith DEF OutRecord
<1>13. ASSUME out.meshIds[s] = 0 PROVE MeshesInv(gltf, made)
  <2>1. \/ made.defaultMaterial = 0 /\ made.materials = Len(gltf.materials)
        \/ made.defaultMaterial = made.materials /\ made.materials = Len(gltf.materials) + 1
    BY <1>2, <1>6, <1>9 DEF MeshesInv
  <2>2. ASSUME NEW t \in DOMAIN gltf.meshes, made.meshIds[t] # 0
        PROVE  /\ made.meshIds[t] \in DOMAIN made.meshes
               /\ made.meshes[made.meshIds[t]] = Expected(gltf, t)
    <3>1. CASE t = s
      BY <1>8, <1>10, <1>11, <3>1
    <3>2. CASE t # s
      <4>1. /\ made.meshIds[t] = out.meshIds[t] /\ out.meshIds[t] \in DOMAIN out.meshes
            /\ out.meshes[out.meshIds[t]] = Expected(gltf, t)
        BY <1>11, <2>2, <3>2 DEF MeshesInv
      <4> HIDE DEF made
      <4> QED
        BY <1>10, <4>1
    <3> QED
      BY <3>1, <3>2
  <2> HIDE DEF made
  <2> QED
    BY <2>1, <2>2 DEF MeshesInv
<1>14. CASE out.meshIds[s] = 0 /\ \E i \in DOMAIN gltf.meshes[s] : Malformed(gltf.meshes[s][i])
  <2>1. LoadMesh(gltf, out, s) = failed
    BY <1>1, <1>14
  <2> HIDE DEF failed
  <2> QED
    BY <1>4, <1>5, <2>1
<1>15. CASE out.meshIds[s] = 0 /\ ~\E i \in DOMAIN gltf.meshes[s] : Malformed(gltf.meshes[s][i])
  <2>1. LoadMesh(gltf, out, s) = made
    BY <1>1, <1>15
  <2> HIDE DEF made
  <2> QED
    BY <1>9, <1>10, <1>11, <1>12, <1>13, <1>15, <2>1
<1> QED
  BY <1>3, <1>14, <1>15

-----------------------------------------------------------------------------
(* A node is visited *)

NextNode(out) == Head(out.toVisit).node

\* What was made once the mesh of the next node is loaded.
LoadedFor(gltf, out) ==
  IF gltf.nodes[NextNode(out)].mesh = 0 THEN out
  ELSE LoadMesh(gltf, out, gltf.nodes[NextNode(out)].mesh)

LEMMA NextIs ==
  ASSUME NEW gltf, NEW out \in OutRecord(gltf), out.toVisit # <<>>
  PROVE  /\ NextNode(out) \in DOMAIN gltf.nodes /\ Head(out.toVisit).parent \in Nat
         /\ Len(out.toVisit) \in Nat \ {0} /\ DOMAIN out.toVisit = 1 .. Len(out.toVisit)
         /\ Head(out.toVisit) = out.toVisit[1]
         /\ Tail(out.toVisit) \in Seq(VisitRecord(gltf))
         /\ Len(Tail(out.toVisit)) = Len(out.toVisit) - 1
         /\ \A k \in 1 .. Len(out.toVisit) - 1 : Tail(out.toVisit)[k] = out.toVisit[k + 1]
<1>1. out.toVisit \in Seq(VisitRecord(gltf))
  BY DEF OutRecord
<1>2. Head(out.toVisit) \in VisitRecord(gltf)
  BY <1>1
<1> QED
  BY <1>1, <1>2 DEF NextNode, VisitRecord

LEMMA LoadedKeeps ==
  ASSUME NEW gltf, NamesWhatItHas(gltf), NEW out \in OutRecord(gltf),
         MeshesInv(gltf, out), NodesInv(gltf, out), out.ok, out.toVisit # <<>>
  PROVE  LET loaded == LoadedFor(gltf, out)
             s == gltf.nodes[NextNode(out)].mesh
         IN
         /\ loaded \in OutRecord(gltf) /\ MeshesInv(gltf, loaded) /\ NodesInv(gltf, loaded)
         /\ loaded.nodes = out.nodes /\ loaded.toVisit = out.toVisit
         /\ loaded.ok /\ s # 0 => loaded.meshIds[s] # 0
<1> DEFINE loaded == LoadedFor(gltf, out)
<1> DEFINE s == gltf.nodes[NextNode(out)].mesh
<1>1. CASE s = 0
  BY <1>1 DEF LoadedFor
<1>2. CASE s # 0
  <2>1. s \in DOMAIN gltf.meshes
    BY <1>2, NextIs, FileFacts
  <2>2. loaded = LoadMesh(gltf, out, s)
    BY <1>2 DEF LoadedFor
  <2>3. /\ loaded \in OutRecord(gltf) /\ MeshesInv(gltf, loaded)
        /\ loaded.nodes = out.nodes /\ loaded.toVisit = out.toVisit
        /\ loaded.ok => loaded.meshIds[s] # 0
        /\ \A t \in DOMAIN gltf.meshes :
             out.meshIds[t] # 0 => loaded.meshIds[t] = out.meshIds[t]
    BY <2>1, <2>2, LoadMeshKeeps
  <2> HIDE DEF loaded
  <2>4. NodesInv(gltf, loaded)
    <3>1. out.nodes \in Seq(NodeRecord(gltf))
      BY DEF OutRecord
    <3>2. ASSUME NEW i \in DOMAIN out.nodes
          PROVE  LET t == gltf.nodes[out.nodes[i].name].mesh
                 IN t # 0 => t \in DOMAIN gltf.meshes
      <4>1. out.nodes[i] \in NodeRecord(gltf)
        BY <3>1
      <4>2. out.nodes[i].name \in DOMAIN gltf.nodes
        BY <4>1 DEF NodeRecord
      <4> QED
        BY <4>2, FileFacts
    <3> QED
      BY <2>3, <3>2 DEF NodesInv
  <2> QED
    BY <1>2, <2>3, <2>4 DEF loaded
<1> QED
  BY <1>1, <1>2

\* A node more in the model, and its children to visit before what is left.
AddsNext(gltf, out, new) ==
  LET last == Len(out.nodes)
      children == gltf.nodes[NextNode(out)].children
  IN
  /\ last \in Nat /\ DOMAIN out.nodes = 1 .. last
  /\ Len(new.nodes) = last + 1 /\ DOMAIN new.nodes = 1 .. last + 1
  /\ \A i \in 1 .. last : new.nodes[i] = out.nodes[i]
  /\ new.nodes[last + 1].name = NextNode(out)
  /\ new.nodes[last + 1].parent = Head(out.toVisit).parent
  /\ Len(children) \in Nat /\ DOMAIN children = 1 .. Len(children)
  /\ DOMAIN new.toVisit = 1 .. Len(children) + Len(out.toVisit) - 1
  /\ \A k \in 1 .. Len(children) :
       new.toVisit[k].node = children[k] /\ new.toVisit[k].parent = last + 1
  /\ \A k \in 2 .. Len(out.toVisit) : new.toVisit[Len(children) + k - 1] = out.toVisit[k]

\* What a visit that succeeds makes.
LEMMA VisitMakes ==
  ASSUME NEW gltf, NamesWhatItHas(gltf), NEW out \in OutRecord(gltf),
         MeshesInv(gltf, out), NodesInv(gltf, out), out.ok, out.toVisit # <<>>,
         LoadedFor(gltf, out).ok
  PROVE  LET new == Visit(gltf, out) IN
         /\ new \in OutRecord(gltf) /\ new.ok /\ MeshesInv(gltf, new) /\ NodesInv(gltf, new)
         /\ AddsNext(gltf, out, new)
<1> DEFINE new == Visit(gltf, out)
<1> DEFINE n == NextNode(out)
<1> DEFINE parent == Head(out.toVisit).parent
<1> DEFINE last == Len(out.nodes)
<1> DEFINE children == gltf.nodes[n].children
<1> DEFINE loaded == LoadedFor(gltf, out)
<1> DEFINE node == Node(gltf, loaded, n, parent)
<1> DEFINE nodes == Append(out.nodes, node)
<1> DEFINE toVisit == Below(children, last + 1) \o Tail(out.toVisit)
<1>1. /\ loaded \in OutRecord(gltf) /\ MeshesInv(gltf, loaded) /\ NodesInv(gltf, loaded)
      /\ loaded.nodes = out.nodes /\ loaded.toVisit = out.toVisit /\ loaded.ok
      /\ gltf.nodes[n].mesh # 0 => loaded.meshIds[gltf.nodes[n].mesh] # 0
  BY LoadedKeeps
<1>2. new = [loaded EXCEPT !.nodes = nodes, !.toVisit = toVisit]
  <2>1. new = [loaded EXCEPT
                !.nodes = Append(loaded.nodes, node),
                !.toVisit = Below(children, IndexOfNext(loaded)) \o Tail(loaded.toVisit)]
    BY <1>1 DEF Visit, LoadedFor, NextNode
  <2> QED
    BY <1>1, <2>1 DEF IndexOfNext
<1>3. /\ n \in DOMAIN gltf.nodes /\ parent \in Nat /\ Len(out.toVisit) \in Nat \ {0}
      /\ Tail(out.toVisit) \in Seq(VisitRecord(gltf))
      /\ Len(Tail(out.toVisit)) = Len(out.toVisit) - 1
      /\ \A k \in 1 .. Len(out.toVisit) - 1 : Tail(out.toVisit)[k] = out.toVisit[k + 1]
  BY NextIs
<1>4. /\ children \in Seq(DOMAIN gltf.nodes) /\ Len(children) \in Nat
      /\ DOMAIN children = 1 .. Len(children)
      /\ \A k \in 1 .. Len(children) : children[k] \in DOMAIN gltf.nodes
  <2>1. children \in Seq(DOMAIN gltf.nodes)
    BY <1>3 DEF NamesWhatItHas
  <2> HIDE DEF children
  <2> QED
    BY <2>1
<1>5. out.nodes \in Seq(NodeRecord(gltf)) /\ last \in Nat /\ DOMAIN out.nodes = 1 .. last
  BY DEF OutRecord
<1>6. /\ node \in NodeRecord(gltf) /\ node.name = n /\ node.parent = parent
      /\ node.moving = gltf.nodes[n].moving /\ node.shape = gltf.nodes[n].shape
      /\ node.mesh = IF gltf.nodes[n].mesh = 0 THEN 0 ELSE loaded.meshIds[gltf.nodes[n].mesh]
  <2>1. gltf.nodes[n].shape \in {"none", "box", "hull"}
    BY <1>3 DEF NamesWhatItHas
  <2>2. gltf.nodes[n].mesh # 0 => loaded.meshIds[gltf.nodes[n].mesh] \in Nat
    BY <1>1, <1>3, FileFacts DEF OutRecord
  <2> HIDE DEF loaded, n, parent
  <2> QED
    BY <1>3, <2>1, <2>2 DEF Node, NodeRecord
<1> HIDE DEF loaded, node, n, parent
<1>7. /\ nodes \in Seq(NodeRecord(gltf)) /\ Len(nodes) = last + 1 /\ DOMAIN nodes = 1 .. last + 1
      /\ \A i \in 1 .. last : nodes[i] = out.nodes[i]
      /\ nodes[last + 1] = node
  BY <1>5, <1>6
<1> DEFINE below == Below(children, last + 1)
<1>8. /\ below \in Seq(VisitRecord(gltf)) /\ Len(below) = Len(children)
      /\ \A k \in 1 .. Len(children) :
           below[k] = [node |-> children[k], parent |-> last + 1]
  <2>1. below = [k \in 1 .. Len(children) |-> [node |-> children[k], parent |-> last + 1]]
    BY <1>4 DEF Below
  <2>2. \A k \in 1 .. Len(children) :
          [node |-> children[k], parent |-> last + 1] \in VisitRecord(gltf)
    BY <1>4, <1>5 DEF VisitRecord
  <2> HIDE DEF below, children, last
  <2> QED
    BY <1>4, <2>1, <2>2
<1>9. /\ toVisit \in Seq(VisitRecord(gltf))
      /\ DOMAIN toVisit = 1 .. Len(children) + Len(out.toVisit) - 1
      /\ \A k \in 1 .. Len(children) :
           toVisit[k] = [node |-> children[k], parent |-> last + 1]
      /\ \A k \in 2 .. Len(out.toVisit) : toVisit[Len(children) + k - 1] = out.toVisit[k]
  <2> DEFINE tail == Tail(out.toVisit)
  <2>1. toVisit = below \o tail
    OBVIOUS
  <2> HIDE DEF below, tail, toVisit
  <2>2. tail \in Seq(VisitRecord(gltf)) /\ Len(tail) = Len(out.toVisit) - 1
    BY <1>3 DEF tail
  <2>3. /\ toVisit \in Seq(VisitRecord(gltf)) /\ Len(toVisit) = Len(below) + Len(tail)
        /\ DOMAIN toVisit = 1 .. Len(below) + Len(tail)
        /\ \A k \in 1 .. Len(below) : toVisit[k] = below[k]
        /\ \A k \in 1 .. Len(tail) : toVisit[Len(below) + k] = tail[k]
    <3>1. /\ below \o tail \in Seq(VisitRecord(gltf))
          /\ Len(below \o tail) = Len(below) + Len(tail)
          /\ DOMAIN (below \o tail) = 1 .. Len(below) + Len(tail)
          /\ \A k \in 1 .. Len(below) : (below \o tail)[k] = below[k]
          /\ \A k \in 1 .. Len(tail) : (below \o tail)[Len(below) + k] = tail[k]
      <4>1. below \in Seq(VisitRecord(gltf)) /\ tail \in Seq(VisitRecord(gltf))
        BY <1>8, <2>2
      <4> HIDE DEF VisitRecord
      <4> QED
        BY <4>1, BothAre
    <3> QED
      BY <2>1, <3>1, Zenon
  <2>4. ASSUME NEW k \in 2 .. Len(out.toVisit)
        PROVE  toVisit[Len(children) + k - 1] = out.toVisit[k]
    <3>1. k - 1 \in 1 .. Len(out.toVisit) - 1 /\ (k - 1) + 1 = k
          /\ Len(below) + (k - 1) = Len(children) + k - 1
      BY <1>3, <1>4, <1>8
    <3>2. toVisit[Len(below) + (k - 1)] = tail[k - 1] /\ tail[k - 1] = out.toVisit[k]
      BY <1>3, <2>2, <2>3, <3>1 DEF tail
    <3> QED
      BY <3>1, <3>2
  <2>5. Len(below) + Len(tail) = Len(children) + Len(out.toVisit) - 1
    BY <1>3, <1>4, <1>8, <2>2
  <2>6. DOMAIN toVisit = 1 .. Len(children) + Len(out.toVisit) - 1
    BY <2>3, <2>5
  <2>7. ASSUME NEW k \in 1 .. Len(children)
        PROVE  toVisit[k] = [node |-> children[k], parent |-> last + 1]
    <3>1. k \in 1 .. Len(below)
      BY <1>8
    <3>2. toVisit[k] = below[k]
      BY <2>3, <3>1
    <3> QED
      BY <1>8, <3>2
  <2> HIDE DEF children, last
  <2> QED
    BY <2>3, <2>4, <2>6, <2>7
<1> HIDE DEF nodes, toVisit, children
<1>10. new \in OutRecord(gltf)
  <2> HIDE DEF new
  <2>1. nodes \in Seq(NodeRecord(gltf)) /\ toVisit \in Seq(VisitRecord(gltf))
    BY <1>7, <1>9
  <2> QED
    BY <1>1, <1>2, <2>1, OutWith DEF OutRecord
<1>11. /\ new.ok = loaded.ok /\ new.nodes = nodes /\ new.toVisit = toVisit
       /\ new.meshes = loaded.meshes /\ new.meshIds = loaded.meshIds
       /\ new.materials = loaded.materials /\ new.defaultMaterial = loaded.defaultMaterial
  <2> HIDE DEF new
  <2> QED
    BY <1>1, <1>2 DEF OutRecord
<1> HIDE DEF new
<1>12. MeshesInv(gltf, new)
  BY <1>1, <1>11 DEF MeshesInv
<1>13. NodesInv(gltf, new)
  <2>1. ASSUME NEW i \in 1 .. last
        PROVE  new.nodes[i] = loaded.nodes[i] /\ i \in DOMAIN loaded.nodes
    BY <1>1, <1>5, <1>7, <1>11
  <2>2. new.nodes[last + 1] = node
    BY <1>7, <1>11
  <2>3. \A i \in DOMAIN new.nodes : i \in 1 .. last \/ i = last + 1
    BY <1>5, <1>7, <1>11
  <2> HIDE DEF last
  <2> QED
    BY <1>1, <1>6, <1>11, <2>1, <2>2, <2>3 DEF NodesInv
<1>14. AddsNext(gltf, out, new)
  <2>1. ASSUME NEW k \in 1 .. Len(children)
        PROVE  new.toVisit[k].node = children[k] /\ new.toVisit[k].parent = last + 1
    <3>1. new.toVisit[k] = [node |-> children[k], parent |-> last + 1]
      BY <1>9, <1>11
    <3> QED
      BY <3>1
  <2> QED
    BY <1>4, <1>5, <1>6, <1>7, <1>9, <1>11, <2>1 DEF AddsNext, n, parent, children
<1> QED
  BY <1>1, <1>10, <1>11, <1>12, <1>13, <1>14 DEF new

\* The nodes that are left after the next one.
LaterNodes(out) == {out.toVisit[k].node : k \in 2 .. Len(out.toVisit)}

\* The parent of what was met is the file's, so no child of the next node was met.
LEMMA ChildrenAreNew ==
  ASSUME NEW gltf, NamesWhatItHas(gltf), IsForest(gltf), NEW out \in OutRecord(gltf),
         PlacedInv(gltf, out), OnceInv(out), out.toVisit # <<>>
  PROVE  Children(gltf, NextNode(out)) \cap (Visited(out) \cup Left(out)) = {}
<1> DEFINE n == NextNode(out)
<1>1. n \in DOMAIN gltf.nodes /\ n \in Left(out)
  BY NextIs DEF Left, NextNode
<1>2. n \notin Visited(out)
  BY <1>1 DEF OnceInv
<1>3. Len(out.nodes) \in Nat /\ DOMAIN out.nodes = 1 .. Len(out.nodes)
      /\ \A i \in DOMAIN out.nodes : out.nodes[i].name \in DOMAIN gltf.nodes
  <2>1. out.nodes \in Seq(NodeRecord(gltf))
    BY DEF OutRecord
  <2>2. ASSUME NEW i \in DOMAIN out.nodes PROVE out.nodes[i].name \in DOMAIN gltf.nodes
    <3>1. out.nodes[i] \in NodeRecord(gltf)
      BY <2>1
    <3> QED
      BY <3>1 DEF NodeRecord
  <2> QED
    BY <2>1, <2>2
<1> HIDE DEF n
<1>4. ASSUME NEW c, NEW parent, NEW last \in 0 .. Len(out.nodes),
             HangsFrom(gltf, out, c, parent, last)
      PROVE  c \notin Children(gltf, n)
  <2>1. CASE c \in Range(gltf.roots)
    BY <1>1, <2>1 DEF IsForest
  <2>2. CASE parent \in 1 .. last /\ c \in Children(gltf, out.nodes[parent].name)
    <3>1. parent \in DOMAIN out.nodes
      BY <1>3, <2>2
    <3>2. out.nodes[parent].name \in DOMAIN gltf.nodes \ {n}
      BY <1>2, <1>3, <3>1 DEF Visited
    <3>3. Children(gltf, n) \cap Children(gltf, out.nodes[parent].name) = {}
      BY <1>1, <3>2 DEF IsForest
    <3> QED
      BY <2>2, <3>3
  <2> QED
    BY <1>4, <2>1, <2>2 DEF HangsFrom
<1>5. ASSUME NEW c \in Visited(out) PROVE c \notin Children(gltf, n)
  <2>1. PICK i \in DOMAIN out.nodes : c = out.nodes[i].name
    BY DEF Visited
  <2>2. HangsFrom(gltf, out, c, out.nodes[i].parent, i - 1) /\ i - 1 \in 0 .. Len(out.nodes)
    BY <1>3, <2>1 DEF PlacedInv
  <2> QED
    BY <1>4, <2>2
<1>6. ASSUME NEW c \in Left(out) PROVE c \notin Children(gltf, n)
  <2>1. PICK k \in DOMAIN out.toVisit : c = out.toVisit[k].node
    BY DEF Left
  <2>2. /\ HangsFrom(gltf, out, c, out.toVisit[k].parent, Len(out.nodes))
        /\ Len(out.nodes) \in 0 .. Len(out.nodes)
    BY <1>3, <2>1 DEF PlacedInv
  <2> QED
    BY <1>4, <2>2
<1> QED
  BY <1>5, <1>6 DEF n

LEMMA VisitPlaces ==
  ASSUME NEW gltf, NamesWhatItHas(gltf), IsForest(gltf), NEW visits \in Nat, NEW out,
         WalkInv(gltf, visits, out), out.ok, out.toVisit # <<>>, LoadedFor(gltf, out).ok
  PROVE  LET new == Visit(gltf, out) IN
         PlacedInv(gltf, new) /\ OnceInv(new) /\ SceneInv(gltf, new) /\ CountInv(visits + 1, new)
<1> DEFINE new == Visit(gltf, out)
<1> DEFINE n == NextNode(out)
<1> DEFINE parent == Head(out.toVisit).parent
<1> DEFINE last == Len(out.nodes)
<1> DEFINE children == gltf.nodes[n].children
<1> DEFINE many == Len(children)
<1>1. /\ out \in OutRecord(gltf) /\ MeshesInv(gltf, out) /\ NodesInv(gltf, out)
      /\ PlacedInv(gltf, out) /\ OnceInv(out) /\ SceneInv(gltf, out) /\ last = visits
  BY DEF WalkInv, CountInv
<1>2. /\ last \in Nat /\ DOMAIN out.nodes = 1 .. last
      /\ Len(new.nodes) = last + 1 /\ DOMAIN new.nodes = 1 .. last + 1
      /\ \A i \in 1 .. last : new.nodes[i] = out.nodes[i]
      /\ new.nodes[last + 1].name = n /\ new.nodes[last + 1].parent = parent
      /\ many \in Nat /\ DOMAIN children = 1 .. many
      /\ DOMAIN new.toVisit = 1 .. many + Len(out.toVisit) - 1
      /\ \A k \in 1 .. many : new.toVisit[k].node = children[k] /\ new.toVisit[k].parent = last + 1
      /\ \A k \in 2 .. Len(out.toVisit) : new.toVisit[many + k - 1] = out.toVisit[k]
  <2>1. AddsNext(gltf, out, new)
    BY <1>1, VisitMakes
  <2> HIDE DEF new
  <2> QED
    BY <2>1 DEF AddsNext
<1>3. /\ n \in DOMAIN gltf.nodes /\ out.toVisit[1].node = n /\ out.toVisit[1].parent = parent
      /\ Len(out.toVisit) \in Nat \ {0} /\ DOMAIN out.toVisit = 1 .. Len(out.toVisit)
  BY <1>1, NextIs DEF NextNode
<1>4. Children(gltf, n) \cap (Visited(out) \cup Left(out)) = {}
  BY <1>1, ChildrenAreNew
<1>5. Children(gltf, n) = {children[k] : k \in 1 .. many} /\ IsInjective(children)
  <2>1. Children(gltf, n) = Range(children)
    BY DEF Children
  <2>2. IsInjective(children)
    BY <1>3 DEF IsForest
  <2> HIDE DEF children, many
  <2> QED
    BY <1>2, <2>1, <2>2 DEF Range
<1> HIDE DEF new, n, parent, last, children, many
\* Of what is to visit, the children come first, and then what was left.
<1>6. ASSUME NEW k \in DOMAIN new.toVisit
      PROVE  \/ /\ k \in 1 .. many /\ new.toVisit[k].node = children[k]
                /\ new.toVisit[k].parent = last + 1
             \/ /\ k \notin 1 .. many /\ k - many + 1 \in 2 .. Len(out.toVisit)
                /\ new.toVisit[k] = out.toVisit[k - many + 1]
  <2>1. CASE k \in 1 .. many
    BY <1>2, <2>1
  <2>2. CASE k \notin 1 .. many
    <3>1. k - many + 1 \in 2 .. Len(out.toVisit) /\ many + (k - many + 1) - 1 = k
      <4>1. /\ k \in 1 .. many + Len(out.toVisit) - 1
            /\ many \in Nat /\ Len(out.toVisit) \in Nat
        BY <1>2, <1>3
      <4> QED
        BY <2>2, <4>1
    <3> QED
      BY <1>2, <2>2, <3>1
  <2> QED
    BY <2>1, <2>2
<1>7. Visited(new) = Visited(out) \cup {n}
  <2>1. last + 1 \in 1 .. last + 1 /\ \A i \in 1 .. last : i \in 1 .. last + 1
    BY <1>2
  <2>2. ASSUME NEW c \in Visited(new) PROVE c \in Visited(out) \cup {n}
    <3>1. PICK i \in 1 .. last + 1 : c = new.nodes[i].name
      BY <1>2 DEF Visited
    <3>2. CASE i \in 1 .. last
      BY <1>2, <3>1, <3>2 DEF Visited
    <3>3. CASE i \notin 1 .. last
      <4>1. i = last + 1
        BY <1>2, <3>3
      <4> QED
        BY <1>2, <3>1, <4>1
    <3> QED
      BY <3>2, <3>3
  <2>3. ASSUME NEW c \in Visited(out) PROVE c \in Visited(new)
    <3>1. PICK i \in 1 .. last : c = out.nodes[i].name
      BY <1>2 DEF Visited
    <3>2. i \in DOMAIN new.nodes /\ new.nodes[i].name = c
      BY <1>2, <2>1, <3>1
    <3> QED
      BY <3>2 DEF Visited
  <2>4. n \in Visited(new)
    BY <1>2, <2>1 DEF Visited
  <2> QED
    BY <2>2, <2>3, <2>4
<1>8. /\ Left(out) = LaterNodes(out) \cup {n} /\ n \notin LaterNodes(out)
      /\ Left(new) = Children(gltf, n) \cup LaterNodes(out)
  <2>1. \A k : k \in DOMAIN out.toVisit <=> k \in 2 .. Len(out.toVisit) \/ k = 1
    BY <1>3
  <2>2. Left(out) = LaterNodes(out) \cup {n}
    BY <1>3, <2>1 DEF Left, LaterNodes
  <2>3. n \notin LaterNodes(out)
    <3>1. ASSUME NEW k \in 2 .. Len(out.toVisit) PROVE out.toVisit[k].node # n
      <4>1. k \in DOMAIN out.toVisit /\ 1 \in DOMAIN out.toVisit /\ k # 1
        BY <1>3
      <4> QED
        BY <1>1, <1>3, <4>1 DEF OnceInv
    <3> QED
      BY <3>1 DEF LaterNodes
  <2>4. Left(new) \subseteq Children(gltf, n) \cup LaterNodes(out)
    BY <1>5, <1>6 DEF Left, LaterNodes
  <2>5. ASSUME NEW c \in Children(gltf, n) PROVE c \in Left(new)
    <3>1. PICK k \in 1 .. many : c = children[k]
      BY <1>5
    <3>2. k \in DOMAIN new.toVisit /\ new.toVisit[k].node = c
      BY <1>2, <1>3, <3>1
    <3> QED
      BY <3>2 DEF Left
  <2>6. ASSUME NEW c \in LaterNodes(out) PROVE c \in Left(new)
    <3>1. PICK k \in 2 .. Len(out.toVisit) : c = out.toVisit[k].node
      BY DEF LaterNodes
    <3>2. many + k - 1 \in DOMAIN new.toVisit
      BY <1>2, <1>3, <3>1
    <3>3. new.toVisit[many + k - 1] = out.toVisit[k]
      BY <1>2
    <3> QED
      BY <3>1, <3>2, <3>3 DEF Left
  <2> QED
    BY <2>2, <2>3, <2>4, <2>5, <2>6
<1>9. PlacedInv(gltf, new)
  <2>1. ASSUME NEW c, NEW p, NEW to \in 0 .. last, NEW far \in Nat, to <= far,
               HangsFrom(gltf, out, c, p, to)
        PROVE  HangsFrom(gltf, new, c, p, far)
    <3>1. p \in 1 .. to => p \in 1 .. far /\ p \in 1 .. last
      BY <1>2, <2>1
    <3> QED
      BY <1>2, <2>1, <3>1 DEF HangsFrom
  <2>2. ASSUME NEW i \in DOMAIN new.nodes
        PROVE  HangsFrom(gltf, new, new.nodes[i].name, new.nodes[i].parent, i - 1)
    <3>1. CASE i \in 1 .. last
      <4>1. /\ HangsFrom(gltf, out, out.nodes[i].name, out.nodes[i].parent, i - 1)
            /\ i - 1 \in 0 .. last /\ i - 1 \in Nat /\ i - 1 <= i - 1
            /\ new.nodes[i] = out.nodes[i]
        BY <1>1, <1>2, <3>1 DEF PlacedInv
      <4> QED
        BY <2>1, <4>1
    <3>2. CASE i = last + 1
      <4>1. HangsFrom(gltf, out, n, parent, last)
        <5>1. 1 \in DOMAIN out.toVisit
          BY <1>3
        <5> QED
          BY <1>1, <1>3, <5>1 DEF PlacedInv, last
      <4>2. i - 1 = last /\ last \in 0 .. last /\ last <= last
        BY <1>2, <3>2
      <4>3. HangsFrom(gltf, new, n, parent, last)
        BY <1>2, <2>1, <4>1, <4>2
      <4> QED
        BY <1>2, <3>2, <4>2, <4>3
    <3> QED
      BY <1>2, <3>1, <3>2
  <2>3. ASSUME NEW k \in DOMAIN new.toVisit
        PROVE  HangsFrom(gltf, new, new.toVisit[k].node, new.toVisit[k].parent, last + 1)
    <3>1. CASE k \in 1 .. many
      <4>1. /\ new.toVisit[k].node \in Children(gltf, n)
            /\ new.toVisit[k].parent = last + 1
        BY <1>5, <1>6, <3>1
      <4>2. last + 1 \in 1 .. last + 1 /\ new.nodes[last + 1].name = n
        BY <1>2
      <4> QED
        BY <4>1, <4>2 DEF HangsFrom
    <3>2. CASE k \notin 1 .. many
      <4> DEFINE l == k - many + 1
      <4>1. l \in 2 .. Len(out.toVisit) /\ new.toVisit[k] = out.toVisit[l]
        BY <1>6, <3>2
      <4>2. l \in DOMAIN out.toVisit
        BY <1>3, <4>1
      <4> HIDE DEF l
      <4>3. HangsFrom(gltf, out, out.toVisit[l].node, out.toVisit[l].parent, last)
        BY <1>1, <4>2 DEF PlacedInv, last
      <4>4. last \in 0 .. last /\ last + 1 \in Nat /\ last <= last + 1
        BY <1>2
      <4> QED
        BY <2>1, <4>1, <4>3, <4>4
    <3> QED
      BY <3>1, <3>2
  <2> QED
    BY <1>2, <2>2, <2>3 DEF PlacedInv
<1>10. OnceInv(new)
  <2>1. n \in Left(out) /\ n \notin Visited(out)
    BY <1>1, <1>8 DEF OnceInv
  <2>2. ASSUME NEW i \in DOMAIN new.nodes, NEW j \in DOMAIN new.nodes,
               new.nodes[i].name = new.nodes[j].name
        PROVE  i = j
    <3>1. ASSUME NEW h \in 1 .. last PROVE new.nodes[h].name \in Visited(out)
      BY <1>2 DEF Visited
    <3>2. CASE i \in 1 .. last /\ j \in 1 .. last
      BY <1>1, <1>2, <2>2, <3>2 DEF OnceInv
    <3>3. CASE ~(i \in 1 .. last /\ j \in 1 .. last)
      <4>1. (i = last + 1 \/ i \in 1 .. last) /\ (j = last + 1 \/ j \in 1 .. last)
        BY <1>2
      <4> QED
        BY <1>2, <2>1, <2>2, <3>1, <3>3, <4>1
    <3> QED
      BY <3>2, <3>3
  <2>3. ASSUME NEW k \in DOMAIN new.toVisit, NEW l \in DOMAIN new.toVisit,
               new.toVisit[k].node = new.toVisit[l].node
        PROVE  k = l
    <3>1. ASSUME NEW j \in DOMAIN new.toVisit
          PROVE  IF j \in 1 .. many THEN new.toVisit[j].node \in Children(gltf, n)
                 ELSE new.toVisit[j].node \in Left(out)
      <4>1. CASE j \in 1 .. many
        BY <1>5, <1>6, <4>1
      <4>2. CASE j \notin 1 .. many
        <5>1. /\ new.toVisit[j] = out.toVisit[j - many + 1]
              /\ j - many + 1 \in DOMAIN out.toVisit
          BY <1>3, <1>6, <4>2
        <5> QED
          BY <4>2, <5>1 DEF Left
      <4> QED
        BY <4>1, <4>2
    <3>2. CASE k \in 1 .. many /\ l \in 1 .. many
      <4>1. children[k] = children[l]
        BY <1>6, <2>3, <3>2
      <4> QED
        BY <1>2, <1>5, <3>2, <4>1 DEF IsInjective
    <3>3. CASE k \notin 1 .. many /\ l \notin 1 .. many
      <4>1. /\ k - many + 1 \in DOMAIN out.toVisit /\ l - many + 1 \in DOMAIN out.toVisit
            /\ out.toVisit[k - many + 1].node = out.toVisit[l - many + 1].node
        BY <1>3, <1>6, <2>3, <3>3
      <4>2. k - many + 1 = l - many + 1
        BY <1>1, <4>1 DEF OnceInv
      <4> QED
        BY <1>2, <4>2
    <3> QED
      BY <1>4, <2>3, <3>1, <3>2, <3>3
  <2>4. Visited(new) \cap Left(new) = {}
    BY <1>1, <1>4, <1>7, <1>8, <2>1 DEF OnceInv
  <2> QED
    BY <2>2, <2>3, <2>4 DEF OnceInv
<1>11. SceneInv(gltf, new)
  <2>1. Visited(new) \cup Left(new) = Visited(out) \cup Left(out) \cup Children(gltf, n)
    BY <1>7, <1>8
  <2>2. n \in OfScene(gltf)
    BY <1>1, <1>8 DEF SceneInv
  <2>3. Children(gltf, n) \subseteq OfScene(gltf)
    BY <2>2, OfSceneIs
  <2> QED
    BY <1>1, <1>7, <2>1, <2>3 DEF SceneInv
<1>12. CountInv(visits + 1, new)
  BY <1>1, <1>2 DEF CountInv
<1> QED
  BY <1>9, <1>10, <1>11, <1>12 DEF new

LEMMA VisitStep ==
  ASSUME NEW gltf, NamesWhatItHas(gltf), IsForest(gltf), NEW visits \in Nat, NEW out,
         WalkInv(gltf, visits, out)
  PROVE  WalkInv(gltf, visits + 1, Visit(gltf, out))
<1>1. CASE ~out.ok \/ out.toVisit = <<>>
  <2>1. Visit(gltf, out) = out
    BY <1>1 DEF Visit
  <2> QED
    BY <1>1, <2>1 DEF WalkInv, CountInv
<1>2. CASE out.ok /\ out.toVisit # <<>>
  <2> DEFINE loaded == LoadedFor(gltf, out)
  <2>1. CASE loaded.ok
    <3>1. /\ Visit(gltf, out) \in OutRecord(gltf) /\ MeshesInv(gltf, Visit(gltf, out))
          /\ NodesInv(gltf, Visit(gltf, out))
      BY <1>2, <2>1, VisitMakes DEF WalkInv
    <3> QED
      BY <1>2, <2>1, <3>1, VisitPlaces DEF WalkInv
  <2>2. CASE ~loaded.ok
    <3>1. Visit(gltf, out) = loaded
      BY <1>2, <2>2 DEF Visit, LoadedFor, NextNode
    <3>2. /\ loaded \in OutRecord(gltf) /\ MeshesInv(gltf, loaded) /\ NodesInv(gltf, loaded)
          /\ loaded.nodes = out.nodes /\ loaded.toVisit = out.toVisit
      BY <1>2, LoadedKeeps DEF WalkInv
    <3> HIDE DEF loaded
    <3>3. PlacedInv(gltf, out) /\ OnceInv(out) /\ SceneInv(gltf, out)
      BY DEF WalkInv
    <3>4. PlacedInv(gltf, loaded)
      BY <3>2, <3>3 DEF PlacedInv, HangsFrom
    <3>5. Visited(loaded) = Visited(out) /\ Left(loaded) = Left(out)
      BY <3>2 DEF Visited, Left
    <3>6. OnceInv(loaded) /\ SceneInv(gltf, loaded)
      BY <3>2, <3>3, <3>5 DEF OnceInv, SceneInv
    <3> QED
      BY <2>2, <3>1, <3>2, <3>4, <3>6 DEF WalkInv, CountInv
  <2> QED
    BY <2>1, <2>2
<1> QED
  BY <1>1, <1>2

-----------------------------------------------------------------------------
(* The whole walk *)

LEMMA WalkStarts ==
  ASSUME NEW gltf, NamesWhatItHas(gltf), IsForest(gltf)
  PROVE  WalkInv(gltf, 0, NothingYet(gltf))
<1> DEFINE out == NothingYet(gltf)
<1> DEFINE toVisit == Below(gltf.roots, 0)
<1>1. /\ gltf.roots \in Seq(DOMAIN gltf.nodes) /\ Len(gltf.roots) \in Nat
      /\ DOMAIN gltf.roots = 1 .. Len(gltf.roots)
      /\ \A k \in 1 .. Len(gltf.roots) : gltf.roots[k] \in DOMAIN gltf.nodes
  <2>1. gltf.roots \in Seq(DOMAIN gltf.nodes)
    BY DEF NamesWhatItHas
  <2> QED
    BY <2>1
<1>2. /\ DOMAIN toVisit = 1 .. Len(gltf.roots)
      /\ \A k \in 1 .. Len(gltf.roots) :
           toVisit[k].node = gltf.roots[k] /\ toVisit[k].parent = 0
      /\ toVisit \in Seq(VisitRecord(gltf))
  <2>1. toVisit = [k \in 1 .. Len(gltf.roots) |-> [node |-> gltf.roots[k], parent |-> 0]]
    BY <1>1 DEF Below
  <2>2. \A k \in 1 .. Len(gltf.roots) : [node |-> gltf.roots[k], parent |-> 0] \in VisitRecord(gltf)
    BY <1>1 DEF VisitRecord
  <2> HIDE DEF toVisit
  <2>3. toVisit \in Seq(VisitRecord(gltf))
    BY <1>1, <2>1, <2>2
  <2> QED
    BY <2>1, <2>3
<1>3. /\ out.ok = TRUE /\ out.nodes = <<>> /\ out.meshes = <<>>
      /\ out.meshIds = [s \in DOMAIN gltf.meshes |-> 0]
      /\ out.materials = Len(gltf.materials) /\ out.defaultMaterial = 0
      /\ out.toVisit = toVisit
  BY DEF NothingYet
<1>4. out \in OutRecord(gltf)
  <2>1. Len(gltf.materials) \in Nat
    BY FileFacts
  <2> HIDE DEF toVisit
  <2> QED
    BY <1>2, <2>1 DEF NothingYet, OutRecord, toVisit
<1> HIDE DEF out, toVisit
<1>5. DOMAIN out.nodes = {} /\ Len(out.nodes) = 0
  BY <1>3
<1>6. MeshesInv(gltf, out) /\ NodesInv(gltf, out) /\ CountInv(0, out)
  BY <1>3, <1>5 DEF MeshesInv, NodesInv, CountInv
<1>7. Left(out) = Range(gltf.roots) /\ Visited(out) = {}
  BY <1>1, <1>2, <1>3, <1>5 DEF Left, Visited, Range
<1>8. PlacedInv(gltf, out)
  <2>1. \A k \in 1 .. Len(gltf.roots) : gltf.roots[k] \in Range(gltf.roots)
    BY <1>1 DEF Range
  <2> QED
    BY <1>2, <1>3, <1>5, <2>1 DEF PlacedInv, HangsFrom
<1>9. OnceInv(out)
  <2>1. IsInjective(gltf.roots)
    BY DEF IsForest
  <2> QED
    BY <1>1, <1>2, <1>3, <1>5, <1>7, <2>1 DEF OnceInv, IsInjective
<1>10. SceneInv(gltf, out)
  BY <1>7, OfSceneIs DEF SceneInv
<1> QED
  BY <1>4, <1>6, <1>8, <1>9, <1>10 DEF WalkInv, out

\* The function load_gltf is defined by is there, and each of its values is
\* what so many visits made.
LEMMA WalkEnds ==
  ASSUME NEW gltf, NamesWhatItHas(gltf), IsForest(gltf)
  PROVE  \E out : /\ WalkInv(gltf, Len(gltf.nodes), out)
                  /\ LoadGltf(gltf) = [out EXCEPT !.ok = @ /\ DrawsSomething(out)]
<1> DEFINE N == Len(gltf.nodes)
<1> DEFINE After(f, v) == IF v = 0 THEN {NothingYet(gltf)} ELSE {Visit(gltf, out) : out \in f[v - 1]}
<1> DEFINE Upto(f, n) == f = [v \in 0 .. n |-> After(f, v)]
<1> DEFINE P == {n \in Nat \ {0} : \E f : Upto(f, n - 1)}
<1>0. N \in Nat
  BY FileFacts
<1>1. 1 \in P
  <2>1. Upto([v \in 0 .. 0 |-> {NothingYet(gltf)}], 0)
    OBVIOUS
  <2>2. Upto([v \in 0 .. 0 |-> {NothingYet(gltf)}], 1 - 1)
    BY <2>1
  <2> HIDE DEF Upto
  <2> QED
    BY <2>2
<1>2. ASSUME NEW n \in Nat \ {0}, n \in P PROVE n + 1 \in P
  <2>1. PICK f : Upto(f, n - 1)
    BY <1>2
  <2> DEFINE g == [v \in 0 .. n |-> After(f, v)]
  <2>2. ASSUME NEW v \in 0 .. n - 1 PROVE g[v] = f[v]
    <3>1. v \in 0 .. n
      OBVIOUS
    <3> HIDE DEF After
    <3> QED
      BY <2>1, <3>1
  <2>3. ASSUME NEW v \in 0 .. n PROVE After(f, v) = After(g, v)
    <3>1. v # 0 => v - 1 \in 0 .. n - 1
      OBVIOUS
    <3>2. v = 0 \/ f[v - 1] = g[v - 1]
      BY <2>2, <3>1
    <3> HIDE DEF g
    <3> QED
      BY <3>2
  <2>4. Upto(g, n) /\ (n + 1) - 1 = n
    <3> HIDE DEF After
    <3> QED
      BY <2>3
  <2> HIDE DEF Upto, g
  <2> QED
    BY <2>4
<1>3. \E f : Upto(f, N)
  <2> HIDE DEF P
  <2>1. N + 1 \in P /\ (N + 1) - 1 = N
    BY <1>0, <1>1, <1>2, Induct
  <2> QED
    BY <2>1 DEF P
<1> DEFINE walk == CHOOSE f : Upto(f, N)
<1>4. Upto(walk, N)
  <2> HIDE DEF Upto
  <2> QED
    BY <1>3
<1> DEFINE Made(v) == \E out : walk[v] = {out} /\ WalkInv(gltf, v, out)
<1> DEFINE Q == {n \in Nat \ {0} : n <= N + 1 => Made(n - 1)}
<1>5. 1 \in Q
  <2>1. walk[0] = {NothingYet(gltf)} /\ 1 - 1 = 0
    <3> HIDE DEF walk
    <3> QED
      BY <1>0, <1>4
  <2> HIDE DEF walk
  <2> QED
    BY <2>1, WalkStarts
<1> HIDE DEF walk
<1>6. ASSUME NEW n \in Nat \ {0}, n \in Q PROVE n + 1 \in Q
  <2> SUFFICES ASSUME n + 1 <= N + 1 PROVE Made((n + 1) - 1)
    OBVIOUS
  <2>1. n \in 0 .. N /\ n # 0 /\ n - 1 \in Nat /\ (n + 1) - 1 = n /\ (n - 1) + 1 = n
    BY <1>0
  <2>2. PICK out : walk[n - 1] = {out} /\ WalkInv(gltf, n - 1, out)
    BY <1>0, <1>6
  <2>3. walk[n] = {Visit(gltf, o) : o \in walk[n - 1]}
    BY <1>4, <2>1
  <2>4. walk[n] = {Visit(gltf, out)}
    BY <2>2, <2>3
  <2>5. WalkInv(gltf, n, Visit(gltf, out))
    BY <2>1, <2>2, VisitStep
  <2> QED
    BY <2>1, <2>4, <2>5
<1>7. Made(N)
  <2> HIDE DEF Made
  <2>1. N + 1 \in Q /\ (N + 1) - 1 = N /\ N + 1 <= N + 1
    <3> HIDE DEF Q
    <3> QED
      BY <1>0, <1>5, <1>6, Induct
  <2> QED
    BY <2>1
<1>8. PICK out : walk[N] = {out} /\ WalkInv(gltf, N, out)
  BY <1>7
<1> DEFINE ended(o) == [o EXCEPT !.ok = @ /\ DrawsSomething(o)]
<1>9. LoadGltf(gltf) = CHOOSE o \in {ended(w) : w \in walk[N]} : TRUE
  BY DEF LoadGltf, walk
<1>10. LoadGltf(gltf) = ended(out)
  <2> HIDE DEF ended
  <2> QED
    BY <1>8, <1>9
<1> QED
  BY <1>8, <1>10

\* As many visits as there are nodes leave none.
LEMMA NoneIsLeft ==
  ASSUME NEW gltf, NamesWhatItHas(gltf), NEW out,
         WalkInv(gltf, Len(gltf.nodes), out), out.ok
  PROVE  out.toVisit = <<>>
<1> SUFFICES ASSUME out.toVisit # <<>> PROVE FALSE
  OBVIOUS
<1> DEFINE N == Len(gltf.nodes)
<1> DEFINE n == NextNode(out)
<1>1. /\ N \in Nat /\ DOMAIN gltf.nodes = 1 .. N /\ Len(out.nodes) = N
      /\ out \in OutRecord(gltf) /\ OnceInv(out)
  BY FileFacts DEF WalkInv, CountInv
<1>2. n \in 1 .. N /\ n \in Left(out)
  BY <1>1, NextIs DEF Left, NextNode
<1>3. out.nodes \in Seq(NodeRecord(gltf)) /\ DOMAIN out.nodes = 1 .. N
  BY <1>1 DEF OutRecord
<1> DEFINE f == [i \in 1 .. N |-> out.nodes[i].name]
<1>4. ASSUME NEW i \in 1 .. N PROVE f[i] \in (1 .. N) \ {n}
  <2>1. out.nodes[i] \in NodeRecord(gltf)
    BY <1>3
  <2>2. out.nodes[i].name \in 1 .. N
    BY <1>1, <2>1 DEF NodeRecord
  <2>3. out.nodes[i].name \in Visited(out)
    BY <1>3 DEF Visited
  <2>4. out.nodes[i].name # n
    BY <1>1, <1>2, <2>3 DEF OnceInv
  <2> QED
    BY <2>2, <2>4
<1>5. \A i, j \in 1 .. N : f[i] = f[j] => i = j
  BY <1>1, <1>3 DEF OnceInv
<1>6. f \in Injection(1 .. N, (1 .. N) \ {n})
  BY <1>4, <1>5 DEF Injection, IsInjective
<1>7. IsFiniteSet(1 .. N) /\ Cardinality(1 .. N) = N
  BY <1>1, FS_Interval
<1>8. /\ IsFiniteSet((1 .. N) \ {n})
      /\ Cardinality((1 .. N) \ {n}) = N - 1
  BY <1>2, <1>7, FS_RemoveElement
<1> HIDE DEF f
<1>9. N <= N - 1
  BY <1>6, <1>7, <1>8, FS_Injection
<1> QED
  BY <1>1, <1>9

\* What load_gltf leaves, when it says it succeeded.
LEMMA LoadMakes ==
  ASSUME NEW gltf, NamesWhatItHas(gltf), IsForest(gltf), LoadGltf(gltf).ok
  PROVE  LET made == LoadGltf(gltf) IN
         /\ made.nodes \in Seq(NodeRecord(gltf))
         /\ MeshesInv(gltf, made) /\ NodesInv(gltf, made)
         /\ \A i \in DOMAIN made.nodes :
              HangsFrom(gltf, made, made.nodes[i].name, made.nodes[i].parent, i - 1)
         /\ \A i, j \in DOMAIN made.nodes :
              made.nodes[i].name = made.nodes[j].name => i = j
         /\ Visited(made) = OfScene(gltf)
<1> DEFINE made == LoadGltf(gltf)
<1>1. PICK out : /\ WalkInv(gltf, Len(gltf.nodes), out)
                 /\ made = [out EXCEPT !.ok = @ /\ DrawsSomething(out)]
  BY WalkEnds
<1>2. out \in OutRecord(gltf)
  BY <1>1 DEF WalkInv
<1> HIDE DEF made
<1>3. /\ made.ok = (out.ok /\ DrawsSomething(out)) /\ made.nodes = out.nodes
      /\ made.meshes = out.meshes /\ made.meshIds = out.meshIds
      /\ made.materials = out.materials /\ made.defaultMaterial = out.defaultMaterial
  BY <1>1, <1>2 DEF OutRecord
<1>4. out.toVisit = <<>>
  <2>1. out.ok
    BY <1>3 DEF made
  <2> QED
    BY <1>1, <2>1, NoneIsLeft
<1>5. out.nodes \in Seq(NodeRecord(gltf))
  BY <1>2 DEF OutRecord
<1>6. MeshesInv(gltf, made) /\ NodesInv(gltf, made)
  BY <1>1, <1>3 DEF WalkInv, MeshesInv, NodesInv
<1>7. \A i \in DOMAIN made.nodes :
        HangsFrom(gltf, made, made.nodes[i].name, made.nodes[i].parent, i - 1)
  BY <1>1, <1>3 DEF WalkInv, PlacedInv, HangsFrom
<1>8. Visited(made) = OfScene(gltf)
  <2>1. Left(out) = {} /\ Visited(made) = Visited(out)
    BY <1>3, <1>4 DEF Left, Visited
  <2>2. /\ Visited(out) \subseteq OfScene(gltf) /\ Range(gltf.roots) \subseteq Visited(out)
        /\ \A n \in Visited(out) : Children(gltf, n) \subseteq Visited(out)
    BY <1>1, <2>1 DEF WalkInv, SceneInv
  <2>3. OfScene(gltf) \subseteq Visited(out)
    BY <2>2, OfSceneIs
  <2> QED
    BY <2>1, <2>2, <2>3
<1> QED
  BY <1>1, <1>3, <1>5, <1>6, <1>7, <1>8 DEF WalkInv, OnceInv, made

-----------------------------------------------------------------------------
(* What the model is *)

\* load_gltf: a model that loads has the nodes of the file's default scene, each
\* once and under its own parent.
THEOREM LoadKeepsTheTree ==
  ASSUME NEW gltf, NamesWhatItHas(gltf), IsForest(gltf), LoadGltf(gltf).ok
  PROVE  KeepsTheTree(gltf, LoadGltf(gltf))
<1> DEFINE made == LoadGltf(gltf)
<1> DEFINE last == Len(made.nodes)
<1>1. /\ made.nodes \in Seq(NodeRecord(gltf))
      /\ \A i \in DOMAIN made.nodes :
           HangsFrom(gltf, made, made.nodes[i].name, made.nodes[i].parent, i - 1)
      /\ \A i, j \in DOMAIN made.nodes :
           made.nodes[i].name = made.nodes[j].name => i = j
      /\ Visited(made) = OfScene(gltf)
  BY LoadMakes
<1> HIDE DEF made
<1>2. last \in Nat /\ DOMAIN made.nodes = 1 .. last
  BY <1>1
<1>3. last = Cardinality(OfScene(gltf))
  <2> DEFINE f == [i \in 1 .. last |-> made.nodes[i].name]
  <2>1. f \in Bijection(1 .. last, OfScene(gltf))
    <3>1. f \in [1 .. last -> OfScene(gltf)]
      BY <1>1, <1>2 DEF Visited
    <3>2. \A i, j \in 1 .. last : f[i] = f[j] => i = j
      BY <1>1, <1>2
    <3>3. \A n \in OfScene(gltf) : \E i \in 1 .. last : f[i] = n
      BY <1>1, <1>2 DEF Visited
    <3> QED
      BY <3>1, <3>2, <3>3 DEF Bijection, Injection, Surjection, IsInjective
  <2>2. IsFiniteSet(1 .. last) /\ Cardinality(1 .. last) = last
    BY <1>2, FS_Interval
  <2> HIDE DEF f
  <2> QED
    BY <2>1, <2>2, FS_Bijection DEF ExistsBijection
<1>4. ASSUME NEW i \in DOMAIN made.nodes
      PROVE  IF made.nodes[i].parent = 0 THEN made.nodes[i].name \in Range(gltf.roots)
             ELSE /\ made.nodes[i].parent < i
                  /\ made.nodes[i].name \in
                       Children(gltf, made.nodes[made.nodes[i].parent].name)
  <2>1. HangsFrom(gltf, made, made.nodes[i].name, made.nodes[i].parent, i - 1) /\ i \in Nat
    BY <1>1, <1>2
  <2> QED
    BY <2>1 DEF HangsFrom
<1>5. {made.nodes[i].name : i \in DOMAIN made.nodes} = OfScene(gltf)
  BY <1>1 DEF Visited
<1> HIDE DEF last
<1>6. KeepsTheTree(gltf, made)
  BY <1>3, <1>4, <1>5 DEF KeepsTheTree, OfScene, last
<1> QED
  BY <1>6 DEF made

\* load_gltf: each of its nodes has its own mesh, with the parts that are
\* triangles, in their materials.
THEOREM LoadKeepsTheMeshes ==
  ASSUME NEW gltf, NamesWhatItHas(gltf), IsForest(gltf), LoadGltf(gltf).ok
  PROVE  KeepsTheMeshes(gltf, LoadGltf(gltf))
<1> DEFINE made == LoadGltf(gltf)
<1>1. /\ made.nodes \in Seq(NodeRecord(gltf))
      /\ MeshesInv(gltf, made) /\ NodesInv(gltf, made)
  BY LoadMakes
<1> HIDE DEF made
<1>2. ASSUME NEW i \in DOMAIN made.nodes
      PROVE  LET s == gltf.nodes[made.nodes[i].name].mesh
             IN IF s = 0 THEN made.nodes[i].mesh = 0
                ELSE made.meshes[made.nodes[i].mesh] = Expected(gltf, s)
  <2> DEFINE s == gltf.nodes[made.nodes[i].name].mesh
  <2>1. made.nodes[i] \in NodeRecord(gltf)
    BY <1>1
  <2>2. made.nodes[i].name \in DOMAIN gltf.nodes
    BY <2>1 DEF NodeRecord
  <2>3. s # 0 => s \in DOMAIN gltf.meshes
    BY <2>2, FileFacts
  <2> QED
    BY <1>1, <2>3 DEF MeshesInv, NodesInv
<1>3. KeepsTheMeshes(gltf, made)
  BY <1>2 DEF KeepsTheMeshes, Expected
<1> QED
  BY <1>3 DEF made

-----------------------------------------------------------------------------
(* What collides *)

\* Solid is the function its definition says: parents come before children.
LEMMA SolidIs ==
  ASSUME NEW made, NEW spawn, NEW S, made.nodes \in Seq(S),
         \A i \in DOMAIN made.nodes :
           made.nodes[i].parent = 0 \/ made.nodes[i].parent \in 1 .. i - 1
  PROVE  \A i \in DOMAIN made.nodes :
           Solid(made, spawn)[i] <=>
             LET parent == made.nodes[i].parent
             IN /\ spawn.collision # "none" /\ ~Excluded(made.nodes[i], spawn)
                /\ parent = 0 \/ Solid(made, spawn)[parent]
<1> DEFINE N == Len(made.nodes)
<1> DEFINE IsSolid(f, i) ==
             LET parent == made.nodes[i].parent
             IN /\ spawn.collision # "none" /\ ~Excluded(made.nodes[i], spawn)
                /\ parent = 0 \/ f[parent]
<1> DEFINE Upto(f, n) == f = [i \in 1 .. n |-> IsSolid(f, i)]
<1> DEFINE P == {n \in Nat \ {0} : n - 1 <= N => \E f : Upto(f, n - 1)}
<1>1. N \in Nat /\ DOMAIN made.nodes = 1 .. N
  OBVIOUS
<1>2. 1 \in P
  <2>1. Upto(<<>>, 1 - 1)
    OBVIOUS
  <2> HIDE DEF Upto
  <2> QED
    BY <2>1
<1>3. ASSUME NEW n \in Nat \ {0}, n \in P PROVE n + 1 \in P
  <2> SUFFICES ASSUME n <= N PROVE \E f : Upto(f, n)
    BY <1>1
  <2>1. PICK f : Upto(f, n - 1)
    BY <1>1, <1>3
  <2> DEFINE g == [i \in 1 .. n |-> IsSolid(f, i)]
  <2>2. ASSUME NEW i \in 1 .. n - 1 PROVE g[i] = f[i]
    <3>1. i \in 1 .. n
      OBVIOUS
    <3> HIDE DEF IsSolid
    <3> QED
      BY <2>1, <3>1
  <2>3. ASSUME NEW i \in 1 .. n PROVE IsSolid(f, i) = IsSolid(g, i)
    <3> DEFINE parent == made.nodes[i].parent
    <3>1. parent = 0 \/ parent \in 1 .. n - 1
      <4>1. i \in DOMAIN made.nodes
        BY <1>1
      <4>2. parent = 0 \/ parent \in 1 .. i - 1
        BY <4>1
      <4> QED
        BY <4>2
    <3>2. parent = 0 \/ f[parent] = g[parent]
      BY <2>2, <3>1
    <3> HIDE DEF g
    <3> QED
      BY <3>2
  <2>4. Upto(g, n)
    <3> HIDE DEF IsSolid
    <3> QED
      BY <2>3
  <2> HIDE DEF Upto, g
  <2> QED
    BY <2>4
<1>4. \E f : Upto(f, N)
  <2> HIDE DEF P
  <2>1. N + 1 \in P /\ (N + 1) - 1 = N /\ N <= N
    BY <1>1, <1>2, <1>3, Induct
  <2> QED
    BY <2>1 DEF P
<1> DEFINE solid == CHOOSE f : f = [i \in DOMAIN made.nodes |-> IsSolid(f, i)]
<1>5. solid = CHOOSE f : Upto(f, N)
  BY <1>1
<1>6. Upto(solid, N)
  <2> HIDE DEF Upto, solid
  <2> QED
    BY <1>4, <1>5
<1>7. Solid(made, spawn) = solid
  BY DEF Solid
<1> HIDE DEF solid
<1>8. ASSUME NEW i \in DOMAIN made.nodes PROVE solid[i] = IsSolid(solid, i)
  BY <1>1, <1>6
<1> QED
  BY <1>7, <1>8

\* What is below a node, other than itself, is a child of something below it.
LEMMA UnderFrom ==
  ASSUME NEW gltf, NamesWhatItHas(gltf), NEW n \in DOMAIN gltf.nodes,
         NEW c \in Under(gltf, n), c # n
  PROVE  \E m \in Under(gltf, n) : c \in Children(gltf, m)
<1> SUFFICES ASSUME \A m \in Under(gltf, n) : c \notin Children(gltf, m) PROVE FALSE
  OBVIOUS
<1> DEFINE set == Under(gltf, n) \ {c}
<1>1. set \in SUBSET DOMAIN gltf.nodes /\ n \in set
  BY UnderIs
<1>2. \A m \in set : Children(gltf, m) \subseteq set
  BY UnderIs
<1>3. Under(gltf, n) \subseteq set
  <2> HIDE DEF set
  <2> QED
    BY <1>1, <1>2, UnderIs
<1> QED
  BY <1>3

\* The nodes a spawn leaves without colliders of their own.
Spared(gltf, spawn) ==
  {n \in DOMAIN gltf.nodes :
    n \in spawn.noCollision \/ (spawn.collision = "mesh" /\ gltf.nodes[n].moving)}

SparedToo(gltf, spawn) == UNION {Under(gltf, n) : n \in Spared(gltf, spawn)}

\* A node is spared if it is named, or its parent is.
LEMMA SparedFromAbove ==
  ASSUME NEW gltf, NamesWhatItHas(gltf), IsForest(gltf), NEW spawn, NEW c \in DOMAIN gltf.nodes
  PROVE  /\ c \in Range(gltf.roots) =>
              (c \in SparedToo(gltf, spawn) <=> c \in Spared(gltf, spawn))
         /\ \A p \in DOMAIN gltf.nodes : c \in Children(gltf, p) =>
              (c \in SparedToo(gltf, spawn) <=>
                 c \in Spared(gltf, spawn) \/ p \in SparedToo(gltf, spawn))
<1>1. Spared(gltf, spawn) \subseteq DOMAIN gltf.nodes
  BY DEF Spared
<1>2. c \in Spared(gltf, spawn) => c \in SparedToo(gltf, spawn)
  BY UnderIs DEF SparedToo
<1>3. ASSUME NEW p \in SparedToo(gltf, spawn), c \in Children(gltf, p)
      PROVE  c \in SparedToo(gltf, spawn)
  <2>1. PICK n \in Spared(gltf, spawn) : p \in Under(gltf, n)
    BY DEF SparedToo
  <2>2. c \in Under(gltf, n)
    BY <1>1, <1>3, <2>1, UnderIs
  <2> QED
    BY <2>1, <2>2 DEF SparedToo
<1>4. ASSUME c \in SparedToo(gltf, spawn), c \notin Spared(gltf, spawn)
      PROVE  \E m \in SparedToo(gltf, spawn) : m \in DOMAIN gltf.nodes /\ c \in Children(gltf, m)
  <2>1. PICK n \in Spared(gltf, spawn) : c \in Under(gltf, n)
    BY <1>4 DEF SparedToo
  <2>2. c # n /\ n \in DOMAIN gltf.nodes
    BY <1>1, <1>4, <2>1
  <2>3. PICK m \in Under(gltf, n) : c \in Children(gltf, m)
    BY <2>1, <2>2, UnderFrom
  <2>4. m \in DOMAIN gltf.nodes /\ m \in SparedToo(gltf, spawn)
    BY <2>1, <2>2, UnderIs DEF SparedToo
  <2> QED
    BY <2>3, <2>4
<1>5. ASSUME c \in Range(gltf.roots), NEW m \in DOMAIN gltf.nodes PROVE c \notin Children(gltf, m)
  BY <1>5 DEF IsForest
<1>6. ASSUME NEW p \in DOMAIN gltf.nodes, NEW m \in DOMAIN gltf.nodes,
             c \in Children(gltf, p), c \in Children(gltf, m)
      PROVE  p = m
  BY <1>6 DEF IsForest
<1> QED
  BY <1>2, <1>3, <1>4, <1>5, <1>6

\* A node collides just if the spawn does, and spares neither it nor one above.
LEMMA SolidByTheFile ==
  ASSUME NEW gltf, NamesWhatItHas(gltf), IsForest(gltf), LoadGltf(gltf).ok, NEW spawn
  PROVE  \A i \in DOMAIN LoadGltf(gltf).nodes :
           Solid(LoadGltf(gltf), spawn)[i] <=>
             spawn.collision # "none" /\ LoadGltf(gltf).nodes[i].name \notin SparedToo(gltf, spawn)
<1> DEFINE made == LoadGltf(gltf)
<1> DEFINE solid == Solid(made, spawn)
<1> DEFINE name(i) == made.nodes[i].name
<1> DEFINE spared == SparedToo(gltf, spawn)
<1> DEFINE N == Len(made.nodes)
<1>1. /\ made.nodes \in Seq(NodeRecord(gltf)) /\ NodesInv(gltf, made)
      /\ \A i \in DOMAIN made.nodes :
           HangsFrom(gltf, made, made.nodes[i].name, made.nodes[i].parent, i - 1)
  BY LoadMakes
<1> HIDE DEF made
<1>2. N \in Nat /\ DOMAIN made.nodes = 1 .. N
  BY <1>1
<1>3. ASSUME NEW i \in 1 .. N
      PROVE  /\ name(i) \in DOMAIN gltf.nodes
             /\ Excluded(made.nodes[i], spawn) <=> name(i) \in Spared(gltf, spawn)
  <2>1. made.nodes[i] \in NodeRecord(gltf)
    BY <1>1, <1>2
  <2>2. name(i) \in DOMAIN gltf.nodes
    BY <2>1 DEF NodeRecord
  <2>3. made.nodes[i].moving = gltf.nodes[name(i)].moving
    BY <1>1, <1>2 DEF NodesInv
  <2> QED
    BY <2>2, <2>3 DEF Excluded, Spared
<1>4. ASSUME NEW i \in 1 .. N
      PROVE  LET parent == made.nodes[i].parent
             IN solid[i] <=> /\ spawn.collision # "none" /\ ~Excluded(made.nodes[i], spawn)
                             /\ parent = 0 \/ solid[parent]
  <2>1. \A j \in DOMAIN made.nodes :
          made.nodes[j].parent = 0 \/ made.nodes[j].parent \in 1 .. j - 1
    BY <1>1 DEF HangsFrom
  <2> QED
    BY <1>1, <1>2, <2>1, SolidIs
<1> DEFINE AsTheFile(i) == solid[i] <=> spawn.collision # "none" /\ name(i) \notin spared
<1> HIDE DEF solid, spared
<1>5. ASSUME NEW i \in 1 .. N, \A j \in 1 .. i - 1 : AsTheFile(j) PROVE AsTheFile(i)
  <2> DEFINE parent == made.nodes[i].parent
  <2>1. HangsFrom(gltf, made, name(i), parent, i - 1)
    BY <1>1, <1>2
  <2>2. CASE parent = 0 /\ name(i) \in Range(gltf.roots)
    <3>1. name(i) \in spared <=> name(i) \in Spared(gltf, spawn)
      BY <1>3, <2>2, SparedFromAbove DEF spared
    <3> QED
      BY <1>3, <1>4, <2>2, <3>1
  <2>3. CASE parent \in 1 .. i - 1 /\ name(i) \in Children(gltf, name(parent))
    <3>1. parent \in 1 .. N /\ parent # 0
      BY <1>2, <2>3
    <3>2. name(i) \in spared <=> name(i) \in Spared(gltf, spawn) \/ name(parent) \in spared
      BY <1>3, <2>3, <3>1, SparedFromAbove DEF spared
    <3>3. solid[parent] <=> spawn.collision # "none" /\ name(parent) \notin spared
      BY <1>5, <2>3
    <3>4. solid[i] <=> /\ spawn.collision # "none" /\ ~Excluded(made.nodes[i], spawn)
                       /\ solid[parent]
      BY <1>4, <3>1
    <3> QED
      BY <1>3, <3>2, <3>3, <3>4
  <2> QED
    BY <2>1, <2>2, <2>3 DEF HangsFrom
<1> DEFINE P == {n \in Nat \ {0} : \A i \in 1 .. n : i <= N => AsTheFile(i)}
<1> HIDE DEF AsTheFile
<1>6. 1 \in P
  <2>1. ASSUME NEW i \in 1 .. 1, i <= N PROVE AsTheFile(i)
    <3>1. i \in 1 .. N /\ 1 .. i - 1 = {}
      BY <1>2, <2>1
    <3> QED
      BY <1>5, <3>1
  <2> QED
    BY <2>1
<1>7. ASSUME NEW n \in Nat \ {0}, n \in P PROVE n + 1 \in P
  <2>1. ASSUME NEW i \in 1 .. n + 1, i <= N PROVE AsTheFile(i)
    <3>1. i \in 1 .. N /\ \A j \in 1 .. i - 1 : j \in 1 .. n /\ j <= N
      BY <1>2, <2>1
    <3>2. \A j \in 1 .. i - 1 : AsTheFile(j)
      BY <1>7, <3>1
    <3> QED
      BY <1>5, <3>1, <3>2
  <2> QED
    BY <2>1
<1>8. ASSUME NEW i \in 1 .. N PROVE AsTheFile(i)
  <2>1. i \in Nat \ {0} /\ i \in 1 .. i /\ i <= N
    BY <1>2
  <2>2. i \in P
    <3> HIDE DEF P
    <3> QED
      BY <1>6, <1>7, <2>1, Induct
  <2> QED
    BY <2>1, <2>2
<1> QED
  BY <1>2, <1>8 DEF AsTheFile, solid, spared, made

\* Scene::instantiate: a drawn part collides just if the spawn collides at all,
\* and spares neither its node nor one above it, by the file.
THEOREM SpawnsCollideByTheFile ==
  ASSUME NEW gltf, NamesWhatItHas(gltf), IsForest(gltf), LoadGltf(gltf).ok, NEW spawn
  PROVE  CollidesByTheFile(gltf, LoadGltf(gltf), spawn)
<1> DEFINE made == LoadGltf(gltf)
<1>1. made.nodes \in Seq(NodeRecord(gltf))
  BY LoadMakes
<1>2. \A i \in DOMAIN made.nodes :
        Solid(made, spawn)[i] <=>
          spawn.collision # "none" /\ made.nodes[i].name \notin SparedToo(gltf, spawn)
  BY SolidByTheFile
<1> HIDE DEF made
<1>3. ASSUME NEW e \in Instantiate(made, spawn), e.kind = "drawn"
      PROVE  e.collides <=>
               spawn.collision # "none" /\ made.nodes[e.node].name \notin SparedToo(gltf, spawn)
  <2>1. PICK i \in DOMAIN made.nodes : e \in NodeEntities(made, i, spawn)
    BY DEF Instantiate
  <2>2. made.nodes[i].shape \in {"none", "box", "hull"}
    <3>1. made.nodes[i] \in NodeRecord(gltf)
      BY <1>1
    <3> QED
      BY <3>1 DEF NodeRecord
  <2>3. made.nodes[i].shape = "none"
    <3>1. ASSUME e \in ShapeEntities(made, i, spawn) PROVE e.kind = made.nodes[i].shape
      BY <3>1 DEF ShapeEntities
    <3> QED
      BY <1>3, <2>1, <2>2, <3>1 DEF NodeEntities
  <2>4. e \in PartEntities(made, i, Solid(made, spawn)[i])
    BY <2>1, <2>3 DEF NodeEntities
  <2>5. e.node = i /\ e.collides = Solid(made, spawn)[i]
    BY <2>4 DEF PartEntities
  <2> QED
    BY <1>2, <2>5
<1>4. CollidesByTheFile(gltf, made, spawn)
  BY <1>3 DEF CollidesByTheFile, SparedToo, Spared
<1> QED
  BY <1>4 DEF made

-----------------------------------------------------------------------------
(* The worker's thread: jobs stay in order *)

\* The job in hand is one, while the thread runs it.
HandInv == hand = <<>> \/ (thread = "running" /\ Len(hand) = 1)

\* Where each job is follows from its number: the oldest finished, the next in
\* hand, the rest queued.
PlacesInv ==
  /\ \A i \in 1 .. Len(finished) : finished[i] = taken + i
  /\ \A i \in 1 .. Len(hand) : hand[i] = taken + Len(finished) + i
  /\ \A i \in 1 .. Len(queued) : queued[i] = taken + Len(finished) + Len(hand) + i

CountsInv ==
  /\ outstanding = Len(finished) + Len(hand) + Len(queued)
  /\ submitted = taken + outstanding

WorkerInv == Worker!TypeOK /\ HandInv /\ PlacesInv /\ CountsInv

LEMMA RoomForJobs == MaxJobs \in Nat
BY RoomAssumption, FS_CardinalityType

LEMMA WorkerInit == ASSUME MaxJobs \in Nat PROVE Worker!Init => WorkerInv
<1> SUFFICES ASSUME Worker!Init PROVE WorkerInv
  OBVIOUS
<1>1. /\ queued = <<>> /\ finished = <<>> /\ hand = <<>>
      /\ outstanding = 0 /\ submitted = 0 /\ taken = 0
  BY DEF Worker!Init
<1>2. /\ <<>> \in Seq(Worker!Job) /\ Len(queued) = 0 /\ Len(finished) = 0 /\ Len(hand) = 0
  BY <1>1
<1>3. thread = "none" /\ main = "loop" /\ ~stopRequested /\ ~unnotified
  BY DEF Worker!Init
<1>4. /\ outstanding \in Int /\ submitted \in 0 .. MaxJobs /\ taken \in 0 .. MaxJobs
  BY <1>1
<1>5. Worker!TypeOK
  <2>1. queued \in Seq(Worker!Job) /\ finished \in Seq(Worker!Job) /\ hand \in Seq(Worker!Job)
    BY <1>1, <1>2
  <2>2. stopRequested \in BOOLEAN /\ unnotified \in BOOLEAN
    BY DEF Worker!Init
  <2> QED
    BY <1>3, <1>4, <2>1, <2>2 DEF Worker!TypeOK
<1> QED
  BY <1>1, <1>2, <1>5 DEF WorkerInv, HandInv, PlacesInv, CountsInv

\* Each step of the main thread or of the worker keeps jobs in their order.
LEMMA WorkerStep ==
  ASSUME MaxJobs \in Nat
  PROVE  WorkerInv /\ [Worker!Next]_(Worker!vars) => WorkerInv'
<1> SUFFICES ASSUME WorkerInv, [Worker!Next]_(Worker!vars) PROVE WorkerInv'
  OBVIOUS
<1> USE DEF WorkerInv
<1>1. /\ queued \in Seq(Worker!Job) /\ finished \in Seq(Worker!Job) /\ hand \in Seq(Worker!Job)
      /\ Len(queued) \in Nat /\ Len(finished) \in Nat /\ Len(hand) \in Nat
      /\ taken \in Nat /\ submitted \in Nat
  BY DEF Worker!TypeOK
<1>2. ASSUME UNCHANGED <<queued, finished, outstanding, hand, submitted, taken>>,
             thread' \in {"none", "ready", "waiting", "running", "exited"},
             thread = "running" => thread' = "running",
             stopRequested' \in BOOLEAN, main' \in {"loop", "joining", "stopped"},
             unnotified' \in BOOLEAN
      PROVE  WorkerInv'
  BY <1>2 DEF Worker!TypeOK, HandInv, PlacesInv, CountsInv
<1>3. CASE Worker!Start
  BY <1>2, <1>3 DEF Worker!Start, Worker!TypeOK
<1>4. CASE Worker!Submit
  <2>1. /\ queued' = Append(queued, submitted + 1)
        /\ submitted' = submitted + 1 /\ outstanding' = outstanding + 1
        /\ submitted + 1 \in Worker!Job
        /\ UNCHANGED <<finished, hand, thread, taken>>
    BY <1>1, <1>4 DEF Worker!Submit, Worker!Job
  <2>2. Worker!TypeOK'
    BY <1>1, <1>4, <2>1 DEF Worker!Submit, Worker!TypeOK, Worker!Job
  <2>3. Len(queued') = Len(queued) + 1
    BY <1>1, <2>1
  <2>4. \A i \in 1 .. Len(queued') : queued'[i] = taken + Len(finished) + Len(hand) + i
    BY <1>1, <2>1, <2>3 DEF PlacesInv, CountsInv
  <2> QED
    BY <1>1, <2>1, <2>2, <2>3, <2>4 DEF HandInv, PlacesInv, CountsInv
<1>5. CASE Worker!NotifyOne
  BY <1>2, <1>5 DEF Worker!NotifyOne, Worker!TypeOK
<1>6. CASE Worker!TakeFinished
  <2>1. /\ taken' = taken + Len(finished) /\ outstanding' = outstanding - Len(finished)
        /\ finished' = <<>> /\ Len(finished') = 0
        /\ UNCHANGED <<queued, hand, thread, submitted>>
    BY <1>6 DEF Worker!TakeFinished
  <2>2. taken' \in 0 .. MaxJobs
    BY <1>1, <2>1 DEF CountsInv, Worker!TypeOK
  <2>3. Worker!TypeOK'
    BY <1>1, <1>6, <2>1, <2>2 DEF Worker!TakeFinished, Worker!TypeOK
  <2> QED
    BY <1>1, <2>1, <2>3 DEF HandInv, PlacesInv, CountsInv
<1>7. CASE Worker!StopUnstarted \/ Worker!RequestStop \/ Worker!Joined \/ Worker!Wait
             \/ Worker!Exit \/ Worker!SpuriousWake
  BY <1>2, <1>7 DEF Worker!StopUnstarted, Worker!RequestStop, Worker!Joined, Worker!Wait,
       Worker!Exit, Worker!SpuriousWake, Worker!TypeOK
<1>8. CASE Worker!Take
  <2>1. /\ hand' = <<Head(queued)>> /\ queued' = Tail(queued) /\ queued # <<>>
        /\ thread' = "running" /\ hand = <<>>
        /\ UNCHANGED <<finished, outstanding, submitted, taken>>
    BY <1>8 DEF Worker!Take, HandInv
  <2>2. /\ Len(hand) = 0 /\ Len(hand') = 1 /\ Len(queued') = Len(queued) - 1
        /\ Len(queued) # 0
        /\ hand'[1] = queued[1] /\ queued[1] \in Worker!Job
        /\ \A i \in 1 .. Len(queued') : queued'[i] = queued[i + 1]
    BY <1>1, <2>1
  <2>3. Worker!TypeOK'
    BY <1>1, <1>8, <2>1, <2>2 DEF Worker!Take, Worker!TypeOK
  <2>4. PlacesInv'
    BY <1>1, <2>1, <2>2 DEF PlacesInv
  <2> QED
    BY <1>1, <2>1, <2>2, <2>3, <2>4 DEF HandInv, CountsInv
<1>9. CASE Worker!Finish
  <2>1. /\ finished' = finished \o hand /\ hand' = <<>>
        /\ UNCHANGED <<queued, outstanding, submitted, taken>>
    BY <1>9 DEF Worker!Finish
  <2>2. /\ Len(finished') = Len(finished) + Len(hand) /\ Len(hand') = 0
        /\ \A i \in 1 .. Len(finished') :
             finished'[i] = IF i <= Len(finished) THEN finished[i]
                            ELSE hand[i - Len(finished)]
    BY <1>1, <2>1
  <2>3. Worker!TypeOK'
    BY <1>1, <1>9, <2>1 DEF Worker!Finish, Worker!TypeOK
  <2>4. PlacesInv'
    BY <1>1, <2>1, <2>2 DEF PlacesInv
  <2> QED
    BY <1>1, <2>1, <2>2, <2>3, <2>4 DEF HandInv, CountsInv
<1>10. CASE Worker!Stopped \/ UNCHANGED Worker!vars
  BY <1>2, <1>10 DEF Worker!Stopped, Worker!vars, Worker!TypeOK
<1> QED
  BY <1>3, <1>4, <1>5, <1>6, <1>7, <1>8, <1>9, <1>10 DEF Worker!Next, Worker!Main, Worker!Thread

\* One sequence after another, element by element.
LEMMA JoinedSeqs ==
  ASSUME NEW s \in Seq(Worker!Job), NEW t \in Seq(Worker!Job)
  PROVE  /\ s \o t \in Seq(Worker!Job) /\ Len(s \o t) = Len(s) + Len(t)
         /\ \A i \in 1 .. Len(s \o t) :
              (s \o t)[i] = IF i <= Len(s) THEN s[i] ELSE t[i - Len(s)]
BY ConcatProperties

\* Jobs in their places are in order.
LEMMA PlacesInOrder == WorkerInv => Worker!InOrder
<1> SUFFICES ASSUME WorkerInv PROVE Worker!InOrder
  OBVIOUS
<1>1. /\ queued \in Seq(Worker!Job) /\ finished \in Seq(Worker!Job) /\ hand \in Seq(Worker!Job)
      /\ Len(queued) \in Nat /\ Len(finished) \in Nat /\ Len(hand) \in Nat
      /\ taken \in Nat /\ submitted \in Nat
  BY DEF WorkerInv, Worker!TypeOK
<1> DEFINE first == finished \o hand
<1>2. /\ first \in Seq(Worker!Job) /\ Len(first) = Len(finished) + Len(hand)
      /\ \A i \in 1 .. Len(first) :
           first[i] = IF i <= Len(finished) THEN finished[i] ELSE hand[i - Len(finished)]
  BY <1>1
<1>3. \A i \in 1 .. Len(first) : first[i] = taken + i
  BY <1>1, <1>2 DEF WorkerInv, PlacesInv
<1>4. Worker!Unfinished = first \o queued
  BY DEF Worker!Unfinished
<1> HIDE DEF first
<1>5. /\ Worker!Unfinished \in Seq(Worker!Job) /\ Len(Worker!Unfinished) = Len(first) + Len(queued)
      /\ \A i \in 1 .. Len(Worker!Unfinished) :
           Worker!Unfinished[i] = IF i <= Len(first) THEN first[i] ELSE queued[i - Len(first)]
  BY <1>1, <1>2, <1>4, JoinedSeqs
<1>6. \A i \in 1 .. Len(Worker!Unfinished) : Worker!Unfinished[i] = taken + i
  <2> SUFFICES ASSUME NEW i \in 1 .. Len(Worker!Unfinished) PROVE Worker!Unfinished[i] = taken + i
    OBVIOUS
  <2>1. CASE i <= Len(first)
    BY <1>2, <1>3, <1>5, <2>1
  <2>2. CASE i > Len(first)
    <3>1. i - Len(first) \in 1 .. Len(queued) /\ Worker!Unfinished[i] = queued[i - Len(first)]
      BY <1>1, <1>2, <1>5, <2>2
    <3>2. queued[i - Len(first)] = taken + Len(first) + (i - Len(first))
      BY <1>1, <1>2, <3>1 DEF WorkerInv, PlacesInv
    <3> QED
      BY <1>1, <1>2, <3>1, <3>2
  <2> QED
    BY <1>2, <2>1, <2>2
<1>7. Len(Worker!Unfinished) = submitted - taken /\ outstanding = Len(Worker!Unfinished)
  BY <1>1, <1>2, <1>5 DEF WorkerInv, CountsInv
<1>8. Worker!Unfinished = [i \in 1 .. submitted - taken |-> taken + i]
  BY <1>5, <1>6, <1>7
<1> QED
  BY <1>7, <1>8 DEF Worker!InOrder

\* Jobs run, and their Finishes are taken, in the order of submission, and
\* outstanding() counts those in between, however many are submitted.
THEOREM JobsStayInOrder == Worker!Spec => []Worker!InOrder
<1>1. Worker!Init => WorkerInv
  BY WorkerInit, RoomForJobs
<1>2. WorkerInv /\ [Worker!Next]_(Worker!vars) => WorkerInv'
  BY WorkerStep, RoomForJobs
<1>3. WorkerInv => Worker!InOrder
  BY PlacesInOrder
<1> QED
  BY <1>1, <1>2, <1>3, PTL DEF Worker!Spec

-----------------------------------------------------------------------------
(* The worker's thread: wake-ups *)

LEMMA WakeStep == Worker!NoLostWakeup /\ [Worker!Next]_(Worker!vars) => Worker!NoLostWakeup'
<1> SUFFICES ASSUME Worker!NoLostWakeup, [Worker!Next]_(Worker!vars) PROVE Worker!NoLostWakeup'
  OBVIOUS
<1>1. CASE Worker!Start \/ Worker!Submit \/ Worker!NotifyOne \/ Worker!RequestStop
  BY <1>1 DEF Worker!Start, Worker!Submit, Worker!NotifyOne, Worker!RequestStop, Worker!NoLostWakeup
<1>2. CASE Worker!TakeFinished \/ Worker!StopUnstarted \/ Worker!Joined \/ Worker!Stopped
  BY <1>2 DEF Worker!TakeFinished, Worker!StopUnstarted, Worker!Joined, Worker!Stopped,
       Worker!NoLostWakeup, Worker!vars
<1>3. CASE Worker!Take \/ Worker!Wait \/ Worker!Exit \/ Worker!SpuriousWake \/ Worker!Finish
  BY <1>3 DEF Worker!Take, Worker!Wait, Worker!Exit, Worker!SpuriousWake, Worker!Finish,
       Worker!NoLostWakeup
<1>4. CASE UNCHANGED Worker!vars
  BY <1>4 DEF Worker!vars, Worker!NoLostWakeup
<1> QED
  BY <1>1, <1>2, <1>3, <1>4 DEF Worker!Next, Worker!Main, Worker!Thread

\* The thread never sleeps over a queue that nobody will wake it for.
THEOREM AssetThreadIsWoken == Worker!Spec => []Worker!NoLostWakeup
<1>1. Worker!Init => Worker!NoLostWakeup
  BY DEF Worker!Init, Worker!NoLostWakeup
<1>2. Worker!NoLostWakeup /\ [Worker!Next]_(Worker!vars) => Worker!NoLostWakeup'
  BY WakeStep
<1> QED
  BY <1>1, <1>2, PTL DEF Worker!Spec

-----------------------------------------------------------------------------
(* The inductive invariant *)

Key == Model \cup Image


CallsInv ==
  /\ script \in Seq(Range(Script))
  /\ \A i \in DOMAIN script : IsCall(script[i])
  /\ \A p \in pending : IsSpawn(p.spawn)

Types == TypeOK /\ CallsInv

\* The worker's books, and a job in hand while its thread runs.
WorkersInv ==
  /\ WorkerInv /\ Worker!NoLostWakeup
  /\ thread = "running" => Len(hand) = 1

\* A key is known from the job it was given, its only one.
KnownInv ==
  /\ \A k \in Key : state[k] # "absent" <=> k \in Range(jobs)
  /\ DecodedOnce

\* What is loading has a job whose Finish has not run.
LoadingInv ==
  \A k \in Key : state[k] = "loading" =>
    \E j \in 1 .. submitted : jobs[j] = k /\ (j > taken \/ j \in Range(batch))

ReadyInv == \A k \in Key : state[k] = "ready" => k \in streamed \/ k \in Range(ready)

\* Where the loop is says what the manager has in progress.
PhaseInv ==
  /\ batch # <<>> => phase = "finishes"
  /\ asking # <<>> \/ unnotified => phase \in {"startup", "finishes", "scene"}
  /\ phase # "startup" => script = <<>>
  /\ phase \in {"scene", "draw"} => palette
  /\ phase \in {"startup", "tick"} => palette \/ taken = 0

\* Something is loaded before the first frame, and the palette asked for in it,
\* so the first frame does not find the assets idle.
AskedInv ==
  /\ \/ submitted > 0 \/ asking # <<>>
     \/ \E i \in DOMAIN script : script[i].op \in {"load", "spawn"}
  /\ phase # "startup" => submitted > 0
  /\ settled => palette

\* Until the first frame spawns wait for models that are asked for.
StartInv ==
  phase = "startup" =>
    /\ \A k \in Key : state[k] \in {"absent", "loading"}
    /\ \A p \in pending : state[p.spawn.model] # "absent" \/ asking = <<p.spawn.model>>

\* From Scene::update to the next Finish a spawn that has attachments waits for
\* its model.
SpawnsInv ==
  phase \in {"draw", "tick", "take"} \/ (settled /\ phase \in {"finishes", "scene"}) =>
    \A p \in pending : p.spawn.attachments # <<>> => state[p.spawn.model] = "loading"

\* A frame that found the assets idle loads nothing.
QuietInv ==
  settled /\ phase \in {"take", "finishes", "scene", "draw"} =>
    /\ outstanding = 0 /\ batch = <<>> /\ asking = <<>>
    /\ \A k \in Key : state[k] # "loading" /\ (state[k] = "ready" => k \in streamed)
    /\ phase = "draw" => pending = {}

BooksInv == KnownInv /\ LoadingInv /\ ReadyInv

FrameInv == PhaseInv /\ AskedInv /\ StartInv /\ SpawnsInv /\ QuietInv

LoadInv == Types /\ WorkersInv /\ BooksInv /\ FrameInv

-----------------------------------------------------------------------------
(* What the steps do is of its type *)

\* One sequence of all the sequences' elements.
LEMMA FlattenIsTyped ==
  ASSUME NEW S, NEW seqs \in Seq(Seq(S))
  PROVE  FlattenSeq(seqs) \in Seq(S)
<1>1. CASE Len(seqs) = 0
  BY <1>1 DEF FlattenSeq
<1>2. CASE Len(seqs) # 0
  <2> DEFINE Next1(f, i) == IF i = 1 THEN seqs[i] ELSE f[i - 1] \o seqs[i]
  <2> DEFINE Upto(f, n) == f = [i \in 1 .. n |-> Next1(f, i)]
  <2> DEFINE P == {n \in Nat : \E f : Upto(f, n)}
  <2>1. Len(seqs) \in Nat \ {0} /\ \A i \in 1 .. Len(seqs) : seqs[i] \in Seq(S)
    BY <1>2
  <2>2. 1 \in P
    <3>1. Upto([i \in 1 .. 1 |-> seqs[i]], 1)
      OBVIOUS
    <3> QED
      BY <3>1
  <2>3. ASSUME NEW n \in Nat \ {0}, n \in P PROVE n + 1 \in P
    <3>1. PICK f : Upto(f, n)
      BY <2>3
    <3> DEFINE g == [i \in 1 .. n + 1 |-> Next1(f, i)]
    <3>2. ASSUME NEW i \in 1 .. n PROVE g[i] = f[i]
      <4>1. i \in 1 .. n + 1
        OBVIOUS
      <4> HIDE DEF Next1
      <4> QED
        BY <3>1, <4>1
    <3>3. ASSUME NEW i \in 1 .. n + 1 PROVE Next1(f, i) = Next1(g, i)
      <4>1. i # 1 => i - 1 \in 1 .. n
        OBVIOUS
      <4>2. i = 1 \/ f[i - 1] = g[i - 1]
        BY <3>2, <4>1
      <4> HIDE DEF g
      <4> QED
        BY <4>2
    <3>4. Upto(g, n + 1)
      BY <3>3
    <3> HIDE DEF Upto, g
    <3> QED
      BY <3>4
  <2>4. \E f : Upto(f, Len(seqs))
    <3> HIDE DEF P
    <3>1. Len(seqs) \in P
      BY <2>1, <2>2, <2>3, Induct
    <3> QED
      BY <3>1 DEF P
  <2> DEFINE flatten == CHOOSE f : Upto(f, Len(seqs))
  <2>5. FlattenSeq(seqs) = flatten[Len(seqs)]
    BY <1>2 DEF FlattenSeq
  <2>6. Upto(flatten, Len(seqs))
    <3> HIDE DEF Upto
    <3> QED
      BY <2>4
  <2> HIDE DEF flatten
  <2> DEFINE Q == {n \in Nat \ {0} : n <= Len(seqs) => flatten[n] \in Seq(S)}
  <2>7. 1 \in Q
    BY <2>1, <2>6
  <2>8. ASSUME NEW n \in Nat \ {0}, n \in Q PROVE n + 1 \in Q
    <3> SUFFICES ASSUME n + 1 <= Len(seqs) PROVE flatten[n + 1] \in Seq(S)
      OBVIOUS
    <3>1. n + 1 \in 1 .. Len(seqs) /\ n \in 1 .. Len(seqs) /\ (n + 1) - 1 = n /\ n + 1 # 1
      BY <2>1
    <3>2. flatten[n + 1] = flatten[n] \o seqs[n + 1]
      BY <2>6, <3>1
    <3>3. flatten[n] \in Seq(S) /\ seqs[n + 1] \in Seq(S)
      BY <2>1, <2>8, <3>1
    <3> QED
      BY <3>2, <3>3, RangeOfBoth
  <2>9. Len(seqs) \in Q
    <3> HIDE DEF Q
    <3> QED
      BY <2>1, <2>7, <2>8, Induct
  <2> QED
    BY <2>1, <2>5, <2>9
<1> QED
  BY <1>1, <1>2

LEMMA ImagesAreKeys == ASSUME NEW s \in Seq(Image) PROVE s \in Seq(Key)
BY DEF Key

LEMMA TexturesAreKeys ==
  ASSUME NEW files \in Files, NEW m \in Model
  PROVE  TexturesOf(files[m]) \in Seq(Key)
<1>1. files[m].materials \in Seq(Seq(Image))
  BY KeysAssumption
<1>2. TexturesOf(files[m]) \in Seq(Image)
  BY <1>1, FlattenIsTyped DEF TexturesOf
<1> QED
  BY <1>2, ImagesAreKeys

LEMMA MapsAreKeys == ASSUME NEW names \in Seq(Set) PROVE NewMaps(names) \in Seq(Key)
<1> DEFINE maps == [i \in DOMAIN names |-> IF names[i] \in sets THEN <<>> ELSE Maps[names[i]]]
<1>1. DOMAIN names = 1 .. Len(names) /\ Len(names) \in Nat
  OBVIOUS
<1>2. ASSUME NEW i \in 1 .. Len(names) PROVE maps[i] \in Seq(Image)
  <2>1. names[i] \in Set
    OBVIOUS
  <2>2. <<>> \in Seq(Image) /\ Maps[names[i]] \in Seq(Image)
    BY <2>1, KeysAssumption
  <2> QED
    BY <1>1, <2>2
<1>3. maps \in Seq(Seq(Image))
  BY <1>1, <1>2
<1>4. NewMaps(names) \in Seq(Image)
  <2>1. NewMaps(names) = FlattenSeq(maps)
    BY DEF NewMaps
  <2> HIDE DEF maps
  <2> QED
    BY <1>3, <2>1, FlattenIsTyped
<1> QED
  BY <1>4, ImagesAreKeys

\* The types, as the provers want them.
LEMMA TypeFacts ==
  ASSUME Types
  PROVE  /\ state \in [Key \cup Baked -> {"absent", "loading", "ready", "failed"}]
         /\ jobs \in Seq(Key) /\ Len(jobs) = submitted /\ DOMAIN jobs = 1 .. submitted
         /\ submitted \in Nat /\ taken \in Nat /\ outstanding \in Int
         /\ asking \in Seq(Key) /\ batch \in Seq(1 .. submitted)
         /\ ready \in Seq(Key \cup Baked) /\ file \in Files
         /\ finished \in Seq(Int) /\ hand \in Seq(Int) /\ queued \in Seq(Int)
         /\ \A j \in 1 .. submitted : jobs[j] \in Key
<1>1. /\ jobs \in Seq(Key) /\ Len(jobs) = submitted
      /\ state \in [Key \cup Baked -> {"absent", "loading", "ready", "failed"}]
      /\ asking \in Seq(Key) /\ batch \in Seq(1 .. submitted)
      /\ ready \in Seq(Key \cup Baked) /\ file \in Files
  BY DEF Types, TypeOK, AssetsType, Key
<1>2. /\ submitted \in Nat /\ taken \in Nat /\ outstanding \in Int
      /\ finished \in Seq(Int) /\ hand \in Seq(Int) /\ queued \in Seq(Int)
  BY RoomForJobs DEF Types, TypeOK, AssetsType, Worker!TypeOK, Worker!Job
<1> QED
  BY <1>1, <1>2

-----------------------------------------------------------------------------
(* The worker in the composition *)

\* Every step of the scene, the manager or the thread is one of the worker's, or
\* leaves the worker alone.
LEMMA WorkerMoves == [Next]_vars => [Worker!Next]_(Worker!vars)
<1> SUFFICES ASSUME [Next]_vars PROVE Worker!Next \/ UNCHANGED workerVars
  BY DEF workerVars, Worker!vars
<1>1. CASE Start \/ Joined \/ Stop
  BY <1>1 DEF Start, Joined, Stop, Worker!Next, Worker!Main
<1>2. CASE SetUp
  BY <1>2 DEF SetUp, LoadAmbientCg, LoadModel
<1>3. CASE Asks
  BY <1>3 DEF Asks, AskedBefore, LoadNew, Notify, Worker!Next, Worker!Main
<1>4. CASE Tick \/ SetUpDone \/ SceneUpdate \/ NotDrawn
  BY <1>4 DEF Tick, SetUpDone, SceneUpdate, NotDrawn, assetVars
<1>5. CASE Take
  BY <1>5 DEF Take, TakeFinishes, Worker!Next, Worker!Main
<1>6. CASE FinishNext
  BY <1>6 DEF FinishNext, RunFinish
<1>7. CASE Terrain
  BY <1>7 DEF Terrain, LoadAmbientCg, AddTextures, assetVars
<1>8. CASE Draw
  BY <1>8 DEF Draw, TakeReady
<1>9. CASE Stopped \/ UNCHANGED vars
  BY <1>9 DEF Stopped, vars, assetVars
<1>10. CASE Thread
  BY <1>10 DEF Thread, Decodes, WorkerGoesOn, Worker!Next, Worker!Thread
<1>11. CASE Woken
  BY <1>11 DEF Woken, SpuriousWake, Worker!Next, Worker!Thread
<1> QED
  BY <1>1, <1>2, <1>3, <1>4, <1>5, <1>6, <1>7, <1>8, <1>9, <1>10, <1>11
     DEF Next, Main, Frame

\* The thread runs just the job in hand.
LEMMA HandStep ==
  ASSUME Types, HandInv, thread = "running" => Len(hand) = 1, [Worker!Next]_(Worker!vars)
  PROVE  thread' = "running" => Len(hand') = 1
<1>1. CASE Worker!Take
  <2>1. hand' = <<Head(queued)>>
    BY <1>1 DEF Worker!Take
  <2> QED
    BY <2>1
<1>2. CASE Worker!Start \/ Worker!NotifyOne \/ Worker!RequestStop \/ Worker!Wait \/ Worker!Exit
             \/ Worker!SpuriousWake \/ Worker!Finish
  BY <1>2 DEF Worker!Start, Worker!NotifyOne, Worker!RequestStop, Worker!Wait, Worker!Exit,
       Worker!SpuriousWake, Worker!Finish
<1>3. CASE Worker!Submit \/ Worker!TakeFinished \/ Worker!StopUnstarted \/ Worker!Joined
             \/ Worker!Stopped \/ UNCHANGED Worker!vars
  BY <1>3 DEF Worker!Submit, Worker!TakeFinished, Worker!StopUnstarted, Worker!Joined,
       Worker!Stopped, Worker!vars
<1> QED
  BY <1>1, <1>2, <1>3 DEF Worker!Next, Worker!Main, Worker!Thread

LEMMA WorkersStep == ASSUME Types, WorkersInv, [Next]_vars PROVE WorkersInv'
<1>1. [Worker!Next]_(Worker!vars)
  BY WorkerMoves
<1>2. WorkerInv'
  BY <1>1, WorkerStep, RoomForJobs DEF WorkersInv
<1>3. Worker!NoLostWakeup'
  BY <1>1, WakeStep DEF WorkersInv
<1>5. thread' = "running" => Len(hand') = 1
  BY <1>1, HandStep DEF WorkersInv, WorkerInv
<1> QED
  BY <1>2, <1>3, <1>5 DEF WorkersInv

\* Where each job is, and how many there are.
LEMMA JobFacts ==
  ASSUME Types, WorkersInv
  PROVE  /\ outstanding = Len(finished) + Len(hand) + Len(queued)
         /\ submitted = taken + outstanding /\ taken <= submitted
         /\ Len(finished) \in Nat /\ Len(hand) \in Nat /\ Len(queued) \in Nat
         /\ \A i \in 1 .. Len(finished) : finished[i] = taken + i
         /\ \A i \in 1 .. Len(hand) : hand[i] = taken + Len(finished) + i
BY TypeFacts DEF WorkersInv, WorkerInv, CountsInv, PlacesInv

-----------------------------------------------------------------------------
(* Type correctness *)

ManagerTypes ==
  /\ file \in Files
  /\ jobs \in Seq(Key) /\ Len(jobs) = submitted
  /\ decoded \subseteq 1 .. submitted
  /\ state \in [Key \cup Baked -> {"absent", "loading", "ready", "failed"}]
  /\ sets \subseteq Set
  /\ ready \in Seq(Key \cup Baked)
  /\ asking \in Seq(Key)
  /\ batch \in Seq(1 .. submitted)

SceneTypes ==
  /\ phase \in {"startup", "tick", "take", "finishes", "scene", "draw"}
  /\ palette \in BOOLEAN /\ settled \in BOOLEAN
  /\ \A p \in pending \cup instances : p.spawn.model \in Model
  /\ streamed \subseteq Key \cup Baked

LEMMA TypesParts ==
  /\ Types <=> Worker!TypeOK /\ ManagerTypes /\ SceneTypes /\ CallsInv
  /\ Types' <=> Worker!TypeOK' /\ ManagerTypes' /\ SceneTypes' /\ CallsInv'
BY DEF Types, TypeOK, AssetsType, ManagerTypes, SceneTypes, Key

\* More jobs only make room for more numbers.
LEMMA NumbersKept ==
  ASSUME NEW m \in Nat, NEW n \in Nat, m <= n, NEW s \in Seq(1 .. m)
  PROVE  s \in Seq(1 .. n)
<1>1. 1 .. m \subseteq 1 .. n
  OBVIOUS
<1> QED
  BY <1>1

LEMMA SeqOfAll ==
  ASSUME NEW S, NEW T, NEW s \in Seq(S), \A i \in 1 .. Len(s) : s[i] \in T
  PROVE  s \in Seq(T)
<1>1. Len(s) \in Nat /\ s = [i \in 1 .. Len(s) |-> s[i]]
  OBVIOUS
<1> QED
  BY <1>1

LEMMA AppendTyped == ASSUME NEW S, NEW s \in Seq(S), NEW x \in S PROVE Append(s, x) \in Seq(S)
OBVIOUS

LEMMA ManagerTypesStep ==
  ASSUME Types, WorkersInv, [Next]_vars
  PROVE  ManagerTypes'
<1> USE TypeFacts, TypesParts
<1>0. ManagerTypes /\ SceneTypes /\ CallsInv /\ submitted \in Nat
  OBVIOUS
<1> DEFINE Others == UNCHANGED <<jobs, state, sets, ready, asking, batch, file, submitted>>
<1>1. ASSUME Others, decoded' \subseteq 1 .. submitted PROVE ManagerTypes'
  BY <1>0, <1>1 DEF ManagerTypes
<1>2. CASE Start \/ Joined \/ Stop \/ Woken \/ Stopped \/ UNCHANGED vars
  <2>1. Others /\ decoded' = decoded
    BY <1>2 DEF Start, Joined, Stop, Woken, Stopped, SpuriousWake, vars, assetVars, managerVars,
         workerVars, Worker!Start, Worker!Joined, Worker!StopUnstarted, Worker!RequestStop,
         Worker!SpuriousWake
  <2> QED
    BY <1>0, <1>1, <2>1 DEF ManagerTypes
<1>3. CASE Tick \/ SetUpDone \/ SceneUpdate \/ NotDrawn
  <2>1. Others /\ decoded' = decoded
    BY <1>3 DEF Tick, SetUpDone, SceneUpdate, NotDrawn, assetVars, managerVars, workerVars
  <2> QED
    BY <1>0, <1>1, <2>1 DEF ManagerTypes
<1>4. CASE SetUp
  <2>1. script # <<>> /\ IsCall(Call)
    <3>1. script # <<>> /\ script \in Seq(Range(Script))
      BY <1>0, <1>4 DEF SetUp, CallsInv
    <3>2. 1 \in DOMAIN script /\ Call = script[1]
      BY <3>1 DEF Call
    <3> QED
      BY <1>0, <3>1, <3>2 DEF CallsInv
  <2>2. CASE LoadAmbientCg(Call.sets) /\ Call.op = "sets"
    <3>1. Call.sets \in Seq(Set)
      BY <2>1, <2>2 DEF IsCall
    <3>2. asking' \in Seq(Key) /\ sets' = sets \cup Range(Call.sets)
      BY <2>2, <3>1, MapsAreKeys DEF LoadAmbientCg
    <3>3. Range(Call.sets) \subseteq Set
      BY <3>1 DEF Range
    <3> QED
      BY <1>0, <2>2, <3>2, <3>3 DEF LoadAmbientCg, ManagerTypes, workerVars
  <2>3. ASSUME NEW m \in Model, LoadModel(m) PROVE ManagerTypes'
    <3>1. asking' = <<m>> /\ m \in Key
      BY <2>3 DEF LoadModel, Key
    <3>2. asking' \in Seq(Key)
      BY <3>1
    <3> QED
      BY <1>0, <2>3, <3>2 DEF LoadModel, ManagerTypes, workerVars
  <2> QED
    BY <1>4, <2>1, <2>2, <2>3 DEF SetUp, IsCall, IsSpawn
<1>5. CASE Asks
  <2>1. CASE Notify
    <3>1. Others /\ decoded' = decoded
      BY <2>1 DEF Notify, managerVars, Worker!NotifyOne
    <3> QED
      BY <1>0, <1>1, <3>1 DEF ManagerTypes
  <2>2. CASE AskedBefore
    <3>1. asking' \in Seq(Key)
      BY <1>0, <2>2, RangeOfTail DEF AskedBefore, ManagerTypes
    <3> QED
      BY <1>0, <2>2, <3>1 DEF AskedBefore, ManagerTypes, workerVars
  <2>3. CASE LoadNew
    <3>1. /\ asking # <<>> /\ asking' = Tail(asking) /\ jobs' = Append(jobs, Head(asking))
          /\ state' = [state EXCEPT ![Head(asking)] = "loading"]
          /\ submitted' = submitted + 1
          /\ UNCHANGED <<sets, ready, batch, file, decoded>>
      BY <2>3 DEF LoadNew, Worker!Submit
    <3>2. Head(asking) \in Key /\ asking' \in Seq(Key)
      BY <1>0, <3>1, RangeOfTail DEF ManagerTypes
    <3>3. jobs' \in Seq(Key) /\ Len(jobs') = submitted'
      BY <1>0, <3>1, <3>2 DEF ManagerTypes
    <3>4. state' \in [Key \cup Baked -> {"absent", "loading", "ready", "failed"}]
      BY <1>0, <3>1, <3>2 DEF ManagerTypes
    <3>5. batch' \in Seq(1 .. submitted')
      BY <1>0, <3>1, NumbersKept DEF ManagerTypes
    <3>6. decoded' \subseteq 1 .. submitted'
      BY <1>0, <3>1 DEF ManagerTypes
    <3> QED
      BY <1>0, <3>1, <3>2, <3>3, <3>4, <3>5, <3>6 DEF ManagerTypes
  <2> QED
    BY <1>5, <2>1, <2>2, <2>3 DEF Asks
<1>6. CASE Take
  <2>1. CASE finished = <<>>
    <3>1. Others /\ decoded' = decoded
      BY <1>6, <2>1 DEF Take, TakeFinishes, workerVars
    <3> QED
      BY <1>0, <1>1, <3>1 DEF ManagerTypes
  <2>2. CASE finished # <<>>
    <3>1. /\ batch' = finished
          /\ UNCHANGED <<jobs, state, sets, ready, asking, file, decoded, submitted>>
      BY <1>6, <2>2 DEF Take, TakeFinishes, Worker!TakeFinished
    <3>2. \A i \in 1 .. Len(finished) : finished[i] \in 1 .. submitted
      BY JobFacts
    <3>3. finished \in Seq(1 .. submitted)
      BY <3>2, SeqOfAll
    <3> QED
      BY <1>0, <3>1, <3>3 DEF ManagerTypes
  <2> QED
    BY <2>1, <2>2
<1>7. CASE FinishNext
  <2>1. /\ batch # <<>> /\ batch' = Tail(batch)
        /\ UNCHANGED <<jobs, sets, file, decoded, submitted>>
    BY <1>7 DEF FinishNext, RunFinish, workerVars
  <2>2. Head(batch) \in 1 .. submitted /\ batch' \in Seq(1 .. submitted)
    BY <1>0, <2>1, RangeOfTail DEF ManagerTypes
  <2> DEFINE k == jobs[Head(batch)]
  <2>3. k \in Key
    BY <1>0, <2>2
  <2>4. state' \in [Key \cup Baked -> {"absent", "loading", "ready", "failed"}]
    <3>1. \E s \in {"ready", "failed"} : state' = [state EXCEPT ![k] = s]
      BY <1>7 DEF FinishNext, RunFinish
    <3> QED
      BY <1>0, <2>3, <3>1 DEF ManagerTypes
  <2>5. ready' = ready \/ ready' = Append(ready, k)
    BY <1>7 DEF FinishNext, RunFinish
  <2>6. ready' \in Seq(Key \cup Baked)
    <3>1. k \in Key \cup Baked /\ ready \in Seq(Key \cup Baked)
      BY <1>0, <2>3 DEF ManagerTypes
    <3>2. Append(ready, k) \in Seq(Key \cup Baked)
      BY <3>1, AppendTyped
    <3> QED
      BY <2>5, <3>1, <3>2
  <2>7. asking' = asking \/ (k \in Model /\ asking' = TexturesOf(file[k]))
    BY <1>7 DEF FinishNext, RunFinish
  <2>8. asking' \in Seq(Key)
    BY <1>0, <2>7, TexturesAreKeys DEF ManagerTypes
  <2> QED
    BY <1>0, <2>1, <2>2, <2>4, <2>6, <2>8 DEF ManagerTypes
<1>8. CASE Terrain
  <2>1. CASE LoadAmbientCg(Palette)
    <3>1. Palette \in Seq(Set)
      BY ScriptAssumption
    <3>2. asking' \in Seq(Key) /\ sets' = sets \cup Range(Palette)
      BY <2>1, <3>1, MapsAreKeys DEF LoadAmbientCg
    <3>3. Range(Palette) \subseteq Set
      BY <3>1 DEF Range
    <3> QED
      BY <1>0, <2>1, <3>2, <3>3 DEF LoadAmbientCg, ManagerTypes, workerVars
  <2>2. CASE UNCHANGED assetVars
    <3>1. Others /\ decoded' = decoded
      BY <2>2 DEF assetVars, managerVars, workerVars
    <3> QED
      BY <1>0, <1>1, <3>1 DEF ManagerTypes
  <2>3. ASSUME NEW b \in Baked, AddTextures(<<b>>) PROVE ManagerTypes'
    <3>1. /\ state' = [k \in DOMAIN state |-> IF k \in Range(<<b>>) THEN "ready" ELSE state[k]]
          /\ ready' = ready \o <<b>>
          /\ UNCHANGED <<submitted, jobs, sets, asking, batch, file, decoded>>
      BY <2>3 DEF AddTextures, workerVars
    <3>2. <<b>> \in Seq(Key \cup Baked)
      OBVIOUS
    <3>3. ready' \in Seq(Key \cup Baked)
      BY <1>0, <3>1, <3>2, RangeOfBoth DEF ManagerTypes
    <3>4. state' \in [Key \cup Baked -> {"absent", "loading", "ready", "failed"}]
      BY <1>0, <3>1 DEF ManagerTypes
    <3> QED
      BY <1>0, <3>1, <3>3, <3>4 DEF ManagerTypes
  <2> QED
    BY <1>8, <2>1, <2>2, <2>3 DEF Terrain
<1>9. CASE Draw
  <2>1. ready' = <<>> /\ UNCHANGED <<submitted, jobs, state, sets, asking, batch, file, decoded>>
    BY <1>9 DEF Draw, TakeReady, workerVars
  <2> QED
    BY <1>0, <2>1 DEF ManagerTypes
<1>10. CASE Thread
  <2>1. CASE WorkerGoesOn
    <3>1. Others /\ decoded' = decoded
      BY <2>1 DEF WorkerGoesOn, managerVars, Worker!Take, Worker!Wait, Worker!Exit
    <3> QED
      BY <1>0, <1>1, <3>1 DEF ManagerTypes
  <2>2. CASE Decodes
    <3>1. Others /\ thread = "running" /\ (decoded' = decoded \/ decoded' = decoded \cup {Head(hand)})
      BY <2>2 DEF Decodes, managerVars, Worker!Finish
    <3>2. Len(hand) = 1 /\ Head(hand) = hand[1]
      BY <3>1 DEF WorkersInv
    <3>3. Head(hand) \in 1 .. submitted
      BY <3>2, JobFacts
    <3> QED
      BY <1>0, <1>1, <3>1, <3>3 DEF ManagerTypes
  <2> QED
    BY <1>10, <2>1, <2>2 DEF Thread
<1> QED
  BY <1>2, <1>3, <1>4, <1>5, <1>6, <1>7, <1>8, <1>9, <1>10 DEF Next, Main, Frame

\* The spawns that a spawn's attachments become.
LEMMA AttachedAre ==
  ASSUME NEW p, IsSpawn(p.spawn), NEW q \in Attached(p)
  PROVE  IsSpawn(q.spawn) /\ q.spawn.attachments = <<>> /\ p.spawn.attachments # <<>>
<1>1. PICK a \in Attachments(model(p.spawn.model), p.spawn) :
        q = [under |-> p.spawn.attachments[a].node,
             spawn |-> [model |-> p.spawn.attachments[a].model,
                        collision |-> p.spawn.attachments[a].collision,
                        noCollision |-> {}, ship |-> p.spawn.ship, attachments |-> <<>>]]
  BY DEF Attached
<1>2. a \in DOMAIN p.spawn.attachments
  BY <1>1 DEF Attachments
<1>3. q.spawn.model = p.spawn.attachments[a].model /\ q.spawn.attachments = <<>>
  BY <1>1
<1>4. p.spawn.attachments[a].model \in Model
  BY <1>2 DEF IsSpawn
<1>5. DOMAIN <<>> = {}
  OBVIOUS
<1> QED
  BY <1>2, <1>3, <1>4, <1>5 DEF IsSpawn

LEMMA SceneTypesStep ==
  ASSUME Types, WorkersInv, [Next]_vars
  PROVE  SceneTypes' /\ CallsInv'
<1> USE TypesParts
<1>0. ManagerTypes /\ SceneTypes /\ CallsInv
  OBVIOUS
<1>1. ASSUME UNCHANGED <<script, pending, instances, streamed>>,
             phase' \in {"startup", "tick", "take", "finishes", "scene", "draw"},
             palette' \in BOOLEAN, settled' \in BOOLEAN
      PROVE  SceneTypes' /\ CallsInv'
  BY <1>0, <1>1 DEF SceneTypes, CallsInv
<1>2. ASSUME UNCHANGED sceneVars PROVE SceneTypes' /\ CallsInv'
  BY <1>0, <1>1, <1>2 DEF sceneVars, SceneTypes
<1>3. CASE Start \/ Joined \/ Stop \/ Woken \/ Stopped \/ Asks \/ FinishNext \/ Thread
             \/ UNCHANGED vars
  BY <1>2, <1>3 DEF Start, Joined, Stop, Woken, Stopped, Asks, FinishNext, Thread, vars
<1>4. CASE Tick \/ SetUpDone \/ NotDrawn \/ Take \/ Terrain
  <2>1. /\ UNCHANGED <<script, pending, instances, streamed>>
        /\ phase' \in {"startup", "tick", "take", "finishes", "scene", "draw"}
        /\ palette' = palette \/ palette' = TRUE
        /\ settled' = settled \/ settled' = Idle
    BY <1>4 DEF Tick, SetUpDone, NotDrawn, Take, Terrain
  <2>2. palette' \in BOOLEAN /\ settled' \in BOOLEAN
    BY <1>0, <2>1 DEF SceneTypes, Idle
  <2> QED
    BY <1>1, <2>1, <2>2
<1>5. CASE SetUp
  <2>1. /\ script # <<>> /\ script' = Tail(script)
        /\ UNCHANGED <<phase, palette, instances, settled, streamed>>
    BY <1>5 DEF SetUp
  <2>2. script \in Seq(Range(Script))
    BY <1>0 DEF CallsInv
  <2>3. /\ Len(script) \in Nat /\ Len(script) # 0 /\ script' \in Seq(Range(Script))
        /\ DOMAIN script = 1 .. Len(script) /\ DOMAIN script' = 1 .. Len(script) - 1
        /\ \A i \in 1 .. Len(script) - 1 : script'[i] = script[i + 1]
        /\ Call = script[1]
    BY <2>1, <2>2 DEF Call
  <2>4. \A i \in DOMAIN script' : IsCall(script'[i])
    <3> SUFFICES ASSUME NEW i \in DOMAIN script' PROVE IsCall(script'[i])
      OBVIOUS
    <3>1. i + 1 \in DOMAIN script /\ script'[i] = script[i + 1]
      BY <2>3
    <3> QED
      BY <1>0, <3>1 DEF CallsInv
  <2>5. IsCall(Call)
    BY <1>0, <2>3 DEF CallsInv
  <2>6. CASE UNCHANGED pending
    BY <1>0, <2>1, <2>3, <2>4, <2>6 DEF SceneTypes, CallsInv
  <2>7. CASE /\ Call.op = "spawn"
             /\ pending' = pending \cup {[under |-> "world", spawn |-> Call.spawn]}
    <3> DEFINE new == [under |-> "world", spawn |-> Call.spawn]
    <3>1. IsSpawn(new.spawn)
      BY <2>5, <2>7 DEF IsCall
    <3>2. new.spawn.model \in Model
      BY <3>1 DEF IsSpawn
    <3>3. pending' = pending \cup {new}
      BY <2>7
    <3> HIDE DEF new
    <3> QED
      BY <1>0, <2>1, <2>3, <2>4, <3>1, <3>2, <3>3 DEF SceneTypes, CallsInv
  <2> QED
    BY <1>5, <2>6, <2>7 DEF SetUp
<1>6. CASE SceneUpdate
  <2> DEFINE built == {p \in SettledSpawns : state[p.spawn.model] = "ready"}
  <2>1. /\ instances' = instances \cup built
        /\ pending' = (pending \ SettledSpawns) \cup UNION {Attached(p) : p \in built}
        /\ phase' = "draw"
        /\ UNCHANGED <<script, palette, settled, streamed>>
    BY <1>6 DEF SceneUpdate
  <2>2. built \subseteq pending
    BY DEF SettledSpawns
  <2>3. \A p \in built : \A q \in Attached(p) : IsSpawn(q.spawn)
    BY <1>0, <2>2, AttachedAre DEF CallsInv
  <2> HIDE DEF built
  <2>4. \A q \in pending' : IsSpawn(q.spawn)
    <3> SUFFICES ASSUME NEW q \in pending' PROVE IsSpawn(q.spawn)
      OBVIOUS
    <3>1. CASE q \in pending
      BY <1>0, <3>1 DEF CallsInv
    <3>2. CASE q \notin pending
      <4>1. PICK p \in built : q \in Attached(p)
        BY <2>1, <3>2
      <4> QED
        BY <2>3, <4>1
    <3> QED
      BY <3>1, <3>2
  <2>5. \A q \in pending' : q.spawn.model \in Model
    BY <2>4 DEF IsSpawn
  <2> QED
    BY <1>0, <2>1, <2>2, <2>4, <2>5 DEF SceneTypes, CallsInv
<1>7. CASE Draw
  <2>1. /\ streamed' = streamed \cup Range(ready) /\ phase' = "tick"
        /\ UNCHANGED <<script, palette, pending, instances, settled>>
    BY <1>7 DEF Draw
  <2>2. Range(ready) \subseteq Key \cup Baked
    BY <1>0 DEF ManagerTypes, Range
  <2> QED
    BY <1>0, <2>1, <2>2 DEF SceneTypes, CallsInv
<1> QED
  BY <1>3, <1>4, <1>5, <1>6, <1>7 DEF Next, Main, Frame

LEMMA TypesStep == ASSUME Types, WorkersInv, [Next]_vars PROVE Types'
<1>1. ManagerTypes' /\ SceneTypes' /\ CallsInv'
  BY ManagerTypesStep, SceneTypesStep
<1>2. Worker!TypeOK'
  BY WorkersStep DEF WorkersInv, WorkerInv
<1> QED
  BY <1>1, <1>2, TypesParts

-----------------------------------------------------------------------------
(* What is known, loading and ready *)

LEMMA LoadNewBooks ==
  ASSUME Types, WorkersInv, BooksInv, LoadNew, UNCHANGED sceneVars
  PROVE  BooksInv'
<1> USE TypeFacts
<1> DEFINE k == Head(asking)
<1>1. /\ asking # <<>> /\ state[k] = "absent" /\ jobs' = Append(jobs, k)
      /\ state' = [state EXCEPT ![k] = "loading"]
      /\ submitted' = submitted + 1
      /\ UNCHANGED <<ready, batch, taken, streamed>>
  BY DEF LoadNew, Found, Worker!Submit, sceneVars
<1>2. k \in Key
  BY <1>1, RangeOfTail
<1> HIDE DEF k
<1>3. Range(jobs') = Range(jobs) \cup {k}
  BY <1>1, RangeOfAppend
<1>4. state'[k] = "loading" /\ \A x \in Key : x # k => state'[x] = state[x]
  BY <1>1, <1>2
<1>5. \A x \in Key : state'[x] # "absent" <=> x \in Range(jobs')
  BY <1>3, <1>4 DEF BooksInv, KnownInv
<1>6. /\ DOMAIN jobs' = 1 .. submitted + 1 /\ jobs'[submitted + 1] = k
      /\ \A j \in 1 .. submitted : jobs'[j] = jobs[j]
  BY <1>1, <1>2
<1>7. k \notin Range(jobs)
  BY <1>1, <1>2 DEF BooksInv, KnownInv
<1>8. \A j \in 1 .. submitted : jobs[j] # k
  BY <1>7 DEF Range
<1>9. \A i, j \in 1 .. submitted : jobs[i] = jobs[j] => i = j
  BY DEF BooksInv, KnownInv, DecodedOnce, IsInjective
<1>10. DecodedOnce'
  <2> SUFFICES ASSUME NEW i \in 1 .. submitted + 1, NEW j \in 1 .. submitted + 1,
                      jobs'[i] = jobs'[j]
               PROVE  i = j
    BY <1>6 DEF DecodedOnce, IsInjective
  <2>1. submitted \in Nat
    OBVIOUS
  <2>2. \A n \in 1 .. submitted + 1 : n \in 1 .. submitted \/ n = submitted + 1
    BY ONLY <2>1
  <2> QED
    BY <1>6, <1>8, <1>9, <2>2
<1>11. LoadingInv'
  <2> SUFFICES ASSUME NEW x \in Key, state'[x] = "loading"
               PROVE  \E j \in 1 .. submitted' : jobs'[j] = x /\ (j > taken' \/ j \in Range(batch'))
    BY DEF LoadingInv
  <2>1. CASE x = k
    <3>1. submitted + 1 \in 1 .. submitted' /\ submitted + 1 > taken
      BY <1>1, JobFacts
    <3> QED
      BY <1>1, <1>6, <2>1, <3>1
  <2>2. CASE x # k
    <3>1. PICK j \in 1 .. submitted : jobs[j] = x /\ (j > taken \/ j \in Range(batch))
      BY <1>4, <2>2 DEF BooksInv, LoadingInv
    <3>2. j \in 1 .. submitted'
      BY <1>1
    <3> QED
      BY <1>1, <1>6, <3>1, <3>2
  <2> QED
    BY <2>1, <2>2
<1>12. ReadyInv'
  <2>1. \A x \in Key : state'[x] = "ready" => state[x] = "ready"
    BY <1>4
  <2> QED
    BY <1>1, <2>1 DEF BooksInv, ReadyInv
<1> QED
  BY <1>5, <1>10, <1>11, <1>12 DEF BooksInv, KnownInv

\* A batch taken is the jobs that follow those taken before.
LEMMA TakeBooks ==
  ASSUME Types, WorkersInv, BooksInv, TakeFinishes, UNCHANGED streamed
  PROVE  BooksInv'
<1> USE TypeFacts
<1>1. batch = <<>> /\ UNCHANGED <<jobs, state, ready, streamed, submitted>>
  BY DEF TakeFinishes, workerVars, Worker!TakeFinished
<1>2. CASE finished = <<>>
  <2>1. UNCHANGED <<taken, batch>>
    BY <1>2 DEF TakeFinishes, workerVars
  <2> QED
    BY <1>1, <2>1 DEF BooksInv, KnownInv, DecodedOnce, LoadingInv, ReadyInv
<1>3. CASE finished # <<>>
  <2>1. taken' = taken + Len(finished) /\ batch' = finished
    BY <1>3 DEF TakeFinishes, Worker!TakeFinished
  <2>2. Range(batch) = {}
    BY <1>1 DEF Range
  <2>3. ASSUME NEW j \in 1 .. submitted, j > taken, ~(j > taken')
        PROVE  j \in Range(batch')
    <3>0. taken \in Nat /\ Len(finished) \in Nat /\ j \in Int
      BY JobFacts
    <3>1. j - taken \in 1 .. Len(finished)
      BY ONLY <2>1, <2>3, <3>0
    <3>2. finished[j - taken] = taken + (j - taken)
      BY <3>1, JobFacts
    <3>3. finished[j - taken] = j
      BY ONLY <3>0, <3>2
    <3>4. j - taken \in DOMAIN batch' /\ batch'[j - taken] = j
      BY <2>1, <3>1, <3>3
    <3> QED
      BY <3>4 DEF Range
  <2>4. LoadingInv'
    BY <1>1, <2>2, <2>3 DEF BooksInv, LoadingInv
  <2> QED
    BY <1>1, <2>4 DEF BooksInv, KnownInv, DecodedOnce, ReadyInv
<1> QED
  BY <1>2, <1>3

\* A Finish is of one job, and so of one key.
LEMMA FinishBooks ==
  ASSUME Types, WorkersInv, BooksInv, RunFinish, UNCHANGED sceneVars
  PROVE  BooksInv'
<1> USE TypeFacts
<1> DEFINE f == Head(batch)
<1> DEFINE k == jobs[f]
<1>1. /\ batch # <<>> /\ batch' = Tail(batch)
      /\ UNCHANGED <<jobs, submitted, taken, streamed>>
      /\ \/ state' = [state EXCEPT ![k] = "ready"] /\ ready' = Append(ready, k)
         \/ state' = [state EXCEPT ![k] = "failed"] /\ ready' = ready
  BY DEF RunFinish, workerVars, sceneVars
<1>2. f \in 1 .. submitted /\ Range(batch) = Range(batch') \cup {f}
  BY <1>1, RangeOfTail
<1>3. k \in Key /\ k \in Range(jobs)
  BY <1>2 DEF Range
<1> HIDE DEF k, f
<1>4. state'[k] \in {"ready", "failed"} /\ \A x \in Key : x # k => state'[x] = state[x]
  BY <1>1, <1>3
<1>5. KnownInv'
  <2>1. \A x \in Key : state'[x] # "absent" <=> x \in Range(jobs)
    BY <1>3, <1>4 DEF BooksInv, KnownInv
  <2> QED
    BY <1>1, <2>1 DEF BooksInv, KnownInv, DecodedOnce
<1>6. LoadingInv'
  <2> SUFFICES ASSUME NEW x \in Key, state'[x] = "loading"
               PROVE  \E j \in 1 .. submitted' : jobs'[j] = x /\ (j > taken' \/ j \in Range(batch'))
    BY DEF LoadingInv
  <2>1. x # k /\ state[x] = "loading"
    BY <1>4
  <2>2. PICK j \in 1 .. submitted : jobs[j] = x /\ (j > taken \/ j \in Range(batch))
    BY <2>1 DEF BooksInv, LoadingInv
  <2>3. j # f
    BY <2>1, <2>2 DEF k
  <2> QED
    BY <1>1, <1>2, <2>2, <2>3
<1>7. ReadyInv'
  <2> SUFFICES ASSUME NEW x \in Key, state'[x] = "ready"
               PROVE  x \in streamed' \/ x \in Range(ready')
    BY DEF ReadyInv
  <2>1. Range(Append(ready, k)) = Range(ready) \cup {k}
    BY RangeOfAppend
  <2>2. CASE x = k
    <3>1. ready' = Append(ready, k)
      BY <1>1, <1>3, <2>2
    <3> QED
      BY <2>1, <2>2, <3>1
  <2>3. CASE x # k
    <3>1. x \in streamed \/ x \in Range(ready)
      BY <1>4, <2>3 DEF BooksInv, ReadyInv
    <3> QED
      BY <1>1, <2>1, <3>1
  <2> QED
    BY <2>2, <2>3
<1> QED
  BY <1>5, <1>6, <1>7 DEF BooksInv

\* A texture made in code has no key, and is taken with the rest.
LEMMA AddBooks ==
  ASSUME Types, BooksInv, NEW b \in Baked, AddTextures(<<b>>), UNCHANGED streamed
  PROVE  BooksInv' /\ \A k \in Key : state'[k] = state[k]
<1> USE TypeFacts
<1>1. /\ state' = [k \in DOMAIN state |-> IF k \in Range(<<b>>) THEN "ready" ELSE state[k]]
      /\ ready' = ready \o <<b>>
      /\ UNCHANGED <<submitted, taken, jobs, batch, streamed>>
  BY DEF AddTextures, workerVars
<1>2. Range(<<b>>) = {b}
  BY DEF Range
<1>3. b \notin Key /\ Key \subseteq DOMAIN state
  BY KeysAssumption DEF Key
<1>4. \A k \in Key : state'[k] = state[k]
  BY <1>1, <1>2, <1>3
<1>5. <<b>> \in Seq(Key \cup Baked)
  OBVIOUS
<1>6. Range(ready) \subseteq Range(ready')
  <2>1. ready \in Seq(Key \cup Baked)
    OBVIOUS
  <2>2. Range(ready \o <<b>>) = Range(ready) \cup Range(<<b>>)
    BY ONLY <1>5, <2>1, RangeOfBoth
  <2> QED
    BY <1>1, <2>2
<1> QED
  BY <1>1, <1>4, <1>6 DEF BooksInv, KnownInv, DecodedOnce, LoadingInv, ReadyInv

LEMMA BooksStep == ASSUME Types, WorkersInv, BooksInv, [Next]_vars PROVE BooksInv'
<1>1. ASSUME UNCHANGED <<jobs, state, ready, batch, submitted, taken, streamed>>
      PROVE  BooksInv'
  BY <1>1 DEF BooksInv, KnownInv, DecodedOnce, LoadingInv, ReadyInv
<1>2. CASE Start \/ Joined \/ Stop \/ Woken \/ Stopped \/ UNCHANGED vars
  BY <1>1, <1>2 DEF Start, Joined, Stop, Woken, Stopped, SpuriousWake, vars, assetVars,
       managerVars, workerVars, sceneVars, Worker!Start, Worker!Joined,
       Worker!StopUnstarted, Worker!RequestStop, Worker!SpuriousWake
<1>3. CASE Tick \/ SetUpDone \/ SceneUpdate \/ NotDrawn
  BY <1>1, <1>3 DEF Tick, SetUpDone, SceneUpdate, NotDrawn, assetVars, managerVars, workerVars
<1>4. CASE SetUp
  BY <1>1, <1>4 DEF SetUp, LoadAmbientCg, LoadModel, workerVars
<1>5. CASE Thread
  BY <1>1, <1>5 DEF Thread, Decodes, WorkerGoesOn, managerVars, sceneVars, Worker!Take,
       Worker!Wait, Worker!Exit, Worker!Finish
<1>6. CASE Asks
  <2>1. CASE Notify \/ AskedBefore
    BY <1>1, <1>6, <2>1 DEF Asks, Notify, AskedBefore, managerVars, sceneVars, workerVars,
         Worker!NotifyOne
  <2>2. CASE LoadNew
    BY <1>6, <2>2, LoadNewBooks DEF Asks
  <2> QED
    BY <1>6, <2>1, <2>2 DEF Asks
<1>7. CASE Take
  BY <1>7, TakeBooks DEF Take
<1>8. CASE FinishNext
  BY <1>8, FinishBooks DEF FinishNext
<1>9. CASE Terrain
  <2>1. CASE LoadAmbientCg(Palette) \/ UNCHANGED assetVars
    BY <1>1, <1>9, <2>1 DEF Terrain, LoadAmbientCg, assetVars, managerVars, workerVars
  <2>2. ASSUME NEW b \in Baked, AddTextures(<<b>>) PROVE BooksInv'
    BY <1>9, <2>2, AddBooks DEF Terrain
  <2> QED
    BY <1>9, <2>1, <2>2 DEF Terrain
<1>10. CASE Draw
  <2>1. /\ streamed' = streamed \cup Range(ready)
        /\ UNCHANGED <<jobs, state, batch, submitted, taken>>
    BY <1>10 DEF Draw, TakeReady, workerVars
  <2> QED
    BY <2>1 DEF BooksInv, KnownInv, DecodedOnce, LoadingInv, ReadyInv
<1> QED
  BY <1>2, <1>3, <1>4, <1>5, <1>6, <1>7, <1>8, <1>9, <1>10 DEF Next, Main, Frame

-----------------------------------------------------------------------------
(* The frame *)

LEMMA StillFrame ==
  ASSUME FrameInv, unnotified' => unnotified,
         UNCHANGED <<state, batch, asking, submitted, taken, outstanding, sceneVars>>
  PROVE  FrameInv'
<1>1. UNCHANGED <<phase, script, palette, pending, instances, settled, streamed>>
  BY DEF sceneVars
<1> QED
  BY <1>1 DEF FrameInv, PhaseInv, AskedInv, StartInv, SpawnsInv, QuietInv

\* What is asked for again is known, so something has been given to the worker.
LEMMA AskedBeforeFrame ==
  ASSUME Types, BooksInv, FrameInv, AskedBefore, UNCHANGED sceneVars
  PROVE  FrameInv'
<1> USE TypeFacts
<1>1. /\ asking # <<>> /\ asking' = Tail(asking) /\ state[Head(asking)] # "absent"
      /\ UNCHANGED <<state, batch, submitted, taken, outstanding, unnotified>>
      /\ UNCHANGED <<phase, script, palette, pending, instances, settled, streamed>>
  BY DEF AskedBefore, Found, sceneVars, workerVars
<1>2. Head(asking) \in Key
  BY <1>1, RangeOfTail
<1>3. submitted > 0
  <2>1. Head(asking) \in Range(jobs)
    BY <1>1, <1>2 DEF BooksInv, KnownInv
  <2>2. \E j \in 1 .. submitted : Head(asking) = jobs[j]
    BY <2>1 DEF Range
  <2>3. submitted \in Nat
    OBVIOUS
  <2> QED
    BY <2>2, <2>3
<1>4. PhaseInv'
  BY <1>1 DEF FrameInv, PhaseInv
<1>5. AskedInv'
  BY <1>1, <1>3 DEF FrameInv, AskedInv
<1>6. StartInv'
  <2>1. \A p \in pending : asking = <<p.spawn.model>> => state[p.spawn.model] # "absent"
    BY <1>1
  <2> QED
    BY <1>1, <2>1 DEF FrameInv, StartInv
<1>7. SpawnsInv' /\ QuietInv'
  BY <1>1 DEF FrameInv, SpawnsInv, QuietInv
<1> QED
  BY <1>4, <1>5, <1>6, <1>7 DEF FrameInv

LEMMA LoadNewFrame ==
  ASSUME Types, FrameInv, LoadNew, UNCHANGED sceneVars
  PROVE  FrameInv'
<1> USE TypeFacts
<1> DEFINE k == Head(asking)
<1>1. /\ asking # <<>> /\ asking' = Tail(asking) /\ state[k] = "absent"
      /\ state' = [state EXCEPT ![k] = "loading"]
      /\ submitted' = submitted + 1
      /\ UNCHANGED <<batch, taken>>
      /\ UNCHANGED <<phase, script, palette, pending, instances, settled, streamed>>
  BY DEF LoadNew, Found, Worker!Submit, sceneVars
<1>2. k \in Key
  BY <1>1, RangeOfTail
<1>3. phase \in {"startup", "finishes", "scene"}
  BY <1>1 DEF FrameInv, PhaseInv
<1>4. ~(settled /\ phase \in {"finishes", "scene"})
  BY <1>1 DEF FrameInv, QuietInv
<1>5. PhaseInv'
  BY <1>1, <1>3 DEF FrameInv, PhaseInv
<1>6. AskedInv'
  <2>1. submitted \in Nat
    OBVIOUS
  <2>2. submitted' > 0
    BY <1>1, <2>1
  <2> QED
    BY <1>1, <2>2 DEF FrameInv, AskedInv
<1>7. StartInv'
  <2> SUFFICES ASSUME phase = "startup" PROVE StartInv'
    BY <1>1 DEF StartInv
  <2>1. state'[k] = "loading" /\ \A x \in Key : x # k => state'[x] = state[x]
    BY <1>1, <1>2
  <2>2. \A x \in Key : state'[x] \in {"absent", "loading"}
    BY <2>1 DEF FrameInv, StartInv
  <2>3. ASSUME NEW p \in pending PROVE state'[p.spawn.model] # "absent"
    <3>1. p.spawn.model \in Key
      BY DEF Types, CallsInv, IsSpawn, Key
    <3>2. CASE asking = <<p.spawn.model>>
      <4>1. k = p.spawn.model
        BY <3>2
      <4> QED
        BY <2>1, <4>1
    <3>3. CASE state[p.spawn.model] # "absent"
      BY <2>1, <3>1, <3>3
    <3> QED
      BY <3>2, <3>3 DEF FrameInv, StartInv
  <2> QED
    BY <1>1, <2>2, <2>3 DEF StartInv
<1>8. SpawnsInv' /\ QuietInv'
  BY <1>1, <1>3, <1>4 DEF SpawnsInv, QuietInv
<1> QED
  BY <1>5, <1>6, <1>7, <1>8 DEF FrameInv

LEMMA SetUpFrame ==
  ASSUME Types, FrameInv, SetUp
  PROVE  FrameInv'
<1> USE TypeFacts
<1>1. /\ phase = "startup" /\ phase' = "startup" /\ script # <<>> /\ script' = Tail(script)
      /\ asking = <<>>
      /\ UNCHANGED <<state, batch, submitted, taken, outstanding, unnotified>>
      /\ UNCHANGED <<palette, instances, settled, streamed>>
  BY DEF SetUp, Free, LoadAmbientCg, LoadModel, workerVars
<1>2. PhaseInv'
  BY <1>1 DEF FrameInv, PhaseInv
<1>3. AskedInv'
  <2>1. CASE Call.op = "sets"
    <3> SUFFICES ASSUME NEW i \in DOMAIN script, script[i].op \in {"load", "spawn"}
                 PROVE  \E n \in DOMAIN script' : script'[n].op \in {"load", "spawn"}
      BY <1>1 DEF FrameInv, AskedInv
    <3>1. script \in Seq(Range(Script))
      BY DEF Types, CallsInv
    <3>2. Call = script[1] /\ DOMAIN script = 1 .. Len(script) /\ Len(script) \in Nat
      BY <1>1, <3>1 DEF Call
    <3>3. i # 1
      BY <2>1, <3>2
    <3>4. i - 1 \in 1 .. Len(script) - 1 /\ (i - 1) + 1 = i
      BY <3>2, <3>3
    <3>5. DOMAIN script' = 1 .. Len(script) - 1 /\ \A n \in 1 .. Len(script) - 1 : script'[n] = script[n + 1]
      BY <1>1, <3>1, <3>2
    <3>6. i - 1 \in DOMAIN script' /\ script'[i - 1] = script[i]
      BY <3>4, <3>5
    <3> QED
      BY <3>6
  <2>2. CASE Call.op # "sets"
    <3>1. \E m : asking' = <<m>>
      BY <2>2 DEF SetUp, LoadModel
    <3>2. asking' # <<>>
      BY <3>1
    <3> QED
      BY <1>1, <3>2 DEF FrameInv, AskedInv
  <2> QED
    BY <2>1, <2>2
<1>4. StartInv'
  <2>1. \A p \in pending : state[p.spawn.model] # "absent"
    <3>1. \A p \in pending : asking # <<p.spawn.model>>
      BY <1>1
    <3> QED
      BY <1>1, <3>1 DEF FrameInv, StartInv
  <2>2. CASE UNCHANGED pending
    BY <1>1, <2>1, <2>2 DEF FrameInv, StartInv
  <2>3. CASE /\ LoadModel(Call.spawn.model)
             /\ pending' = pending \cup {[under |-> "world", spawn |-> Call.spawn]}
    <3> DEFINE new == [under |-> "world", spawn |-> Call.spawn]
    <3>1. asking' = <<new.spawn.model>>
      BY <2>3 DEF LoadModel
    <3>2. pending' = pending \cup {new}
      BY <2>3
    <3> HIDE DEF new
    <3>3. \A p \in pending' : state'[p.spawn.model] # "absent" \/ asking' = <<p.spawn.model>>
      BY <1>1, <2>1, <3>1, <3>2
    <3> QED
      BY <1>1, <3>3 DEF FrameInv, StartInv
  <2> QED
    BY <2>2, <2>3 DEF SetUp
<1>5. SpawnsInv' /\ QuietInv'
  BY <1>1 DEF SpawnsInv, QuietInv
<1> QED
  BY <1>2, <1>3, <1>4, <1>5 DEF FrameInv

LEMMA SetUpDoneFrame ==
  ASSUME Types, FrameInv, SetUpDone
  PROVE  FrameInv'
<1> USE TypeFacts
<1>1. /\ phase = "startup" /\ phase' = "tick" /\ script = <<>> /\ asking = <<>> /\ ~unnotified
      /\ UNCHANGED <<state, batch, asking, submitted, taken, outstanding, unnotified>>
      /\ UNCHANGED <<script, palette, pending, instances, settled, streamed>>
  BY DEF SetUpDone, Free, assetVars, managerVars, workerVars
<1>2. PhaseInv'
  BY <1>1 DEF FrameInv, PhaseInv
<1>3. AskedInv'
  <2>1. DOMAIN script = {}
    BY <1>1
  <2> QED
    BY <1>1, <2>1 DEF FrameInv, AskedInv
<1>4. SpawnsInv'
  <2> SUFFICES ASSUME NEW p \in pending PROVE state[p.spawn.model] = "loading"
    BY <1>1 DEF SpawnsInv
  <2>1. p.spawn.model \in Key
    BY DEF Types, CallsInv, IsSpawn, Key
  <2>2. asking # <<p.spawn.model>>
    BY <1>1
  <2> QED
    BY <1>1, <2>1, <2>2 DEF FrameInv, StartInv
<1>5. StartInv' /\ QuietInv'
  BY <1>1 DEF StartInv, QuietInv
<1> QED
  BY <1>2, <1>3, <1>4, <1>5 DEF FrameInv

\* With none outstanding, no batch and nothing ready, nothing is loading, and all
\* that became ready was taken.  The first frame does not find it so.
LEMMA TickFrame ==
  ASSUME Types, WorkersInv, BooksInv, FrameInv, Tick
  PROVE  FrameInv'
<1> USE TypeFacts
<1>1. /\ phase = "tick" /\ phase' = "take" /\ settled' = Idle
      /\ UNCHANGED <<state, batch, asking, submitted, taken, outstanding, unnotified, ready, jobs>>
      /\ UNCHANGED <<script, palette, pending, instances, streamed>>
  BY DEF Tick, assetVars, managerVars, workerVars
<1>2. batch = <<>> /\ asking = <<>> /\ ~unnotified
  BY <1>1 DEF FrameInv, PhaseInv
<1>3. PhaseInv'
  BY <1>1, <1>2 DEF FrameInv, PhaseInv
<1>4. settled' => palette
  <2> SUFFICES ASSUME Idle, ~palette PROVE FALSE
    BY <1>1
  <2>1. taken = 0 /\ submitted > 0
    BY <1>1 DEF FrameInv, PhaseInv, AskedInv
  <2>2. outstanding = 0 /\ submitted = taken + outstanding
    BY JobFacts DEF Idle
  <2> QED
    BY <2>1, <2>2
<1>5. AskedInv'
  BY <1>1, <1>4 DEF FrameInv, AskedInv
<1>6. StartInv' /\ SpawnsInv'
  BY <1>1 DEF FrameInv, StartInv, SpawnsInv
<1>7. QuietInv'
  <2> SUFFICES ASSUME Idle
               PROVE  /\ outstanding = 0 /\ batch = <<>> /\ asking = <<>>
                      /\ \A k \in Key : state[k] # "loading" /\ (state[k] = "ready" => k \in streamed)
    BY <1>1 DEF QuietInv
  <2>1. outstanding = 0 /\ ready = <<>> /\ Range(ready) = {} /\ Range(batch) = {}
    BY <1>2 DEF Idle, Range
  <2>2. submitted = taken
    BY <2>1, JobFacts
  <2>3. \A k \in Key : state[k] # "loading"
    <3> SUFFICES ASSUME NEW k \in Key, state[k] = "loading" PROVE FALSE
      OBVIOUS
    <3>1. PICK j \in 1 .. submitted : j > taken \/ j \in Range(batch)
      BY DEF BooksInv, LoadingInv
    <3> QED
      BY <2>1, <2>2, <3>1
  <2>4. \A k \in Key : state[k] = "ready" => k \in streamed
    BY <2>1 DEF BooksInv, ReadyInv
  <2> QED
    BY <1>2, <2>1, <2>3, <2>4
<1> QED
  BY <1>3, <1>5, <1>6, <1>7 DEF FrameInv

LEMMA TakeFrame ==
  ASSUME Types, WorkersInv, FrameInv, Take
  PROVE  FrameInv'
<1> USE TypeFacts
<1>1. /\ phase = "take" /\ phase' = "finishes" /\ asking = <<>> /\ ~unnotified
      /\ UNCHANGED <<state, asking, submitted, unnotified>>
      /\ UNCHANGED <<script, palette, pending, instances, settled, streamed>>
  BY DEF Take, TakeFinishes, Free, workerVars, Worker!TakeFinished
<1>2. PhaseInv'
  BY <1>1 DEF FrameInv, PhaseInv
<1>3. AskedInv' /\ StartInv' /\ SpawnsInv'
  BY <1>1 DEF FrameInv, AskedInv, StartInv, SpawnsInv
<1>4. QuietInv'
  <2> SUFFICES ASSUME settled PROVE QuietInv'
    BY <1>1 DEF QuietInv
  <2>1. outstanding = 0 /\ batch = <<>>
    BY <1>1 DEF FrameInv, QuietInv
  <2>2. Len(finished) = 0
    BY <2>1, JobFacts
  <2>3. finished = <<>>
    BY <2>2
  <2>4. UNCHANGED <<outstanding, batch>>
    BY <2>3 DEF Take, TakeFinishes, workerVars
  <2> QED
    BY <1>1, <2>4 DEF FrameInv, QuietInv
<1> QED
  BY <1>2, <1>3, <1>4 DEF FrameInv

LEMMA FinishFrame ==
  ASSUME FrameInv, FinishNext
  PROVE  FrameInv'
<1>1. /\ phase = "finishes" /\ phase' = "finishes" /\ batch # <<>>
      /\ UNCHANGED <<submitted, taken, outstanding, unnotified>>
      /\ UNCHANGED <<script, palette, pending, instances, settled, streamed>>
  BY DEF FinishNext, RunFinish, sceneVars, workerVars
<1>2. ~settled
  BY <1>1 DEF FrameInv, QuietInv
<1>3. PhaseInv'
  BY <1>1 DEF FrameInv, PhaseInv
<1>4. AskedInv'
  BY <1>1 DEF FrameInv, PhaseInv, AskedInv
<1>5. StartInv' /\ SpawnsInv' /\ QuietInv'
  BY <1>1, <1>2 DEF StartInv, SpawnsInv, QuietInv
<1> QED
  BY <1>3, <1>4, <1>5 DEF FrameInv

LEMMA TerrainFrame ==
  ASSUME Types, BooksInv, FrameInv, Terrain
  PROVE  FrameInv'
<1>1. /\ phase = "finishes" /\ phase' = "scene" /\ batch = <<>> /\ palette'
      /\ UNCHANGED <<batch, submitted, taken, outstanding, unnotified>>
      /\ UNCHANGED <<script, pending, instances, settled, streamed>>
  BY DEF Terrain, LoadAmbientCg, AddTextures, assetVars, managerVars, workerVars
<1>2. palette => asking' = asking
  BY DEF Terrain, AddTextures, assetVars, managerVars
<1>3. \A k \in Key : state'[k] = state[k]
  <2>1. CASE LoadAmbientCg(Palette) \/ UNCHANGED assetVars
    BY <2>1 DEF LoadAmbientCg, assetVars, managerVars
  <2>2. ASSUME NEW b \in Baked, AddTextures(<<b>>) PROVE \A k \in Key : state'[k] = state[k]
    BY <1>1, <2>2, AddBooks
  <2> QED
    BY <2>1, <2>2 DEF Terrain
<1>4. settled => palette
  BY DEF FrameInv, AskedInv
<1>5. PhaseInv'
  BY <1>1 DEF FrameInv, PhaseInv
<1>6. AskedInv'
  BY <1>1 DEF FrameInv, AskedInv
<1>7. StartInv'
  BY <1>1 DEF StartInv
<1>8. SpawnsInv'
  <2>1. \A p \in pending : p.spawn.model \in Key
    BY DEF Types, CallsInv, IsSpawn, Key
  <2> QED
    BY <1>1, <1>3, <2>1 DEF FrameInv, SpawnsInv
<1>9. QuietInv'
  BY <1>1, <1>2, <1>3, <1>4 DEF FrameInv, QuietInv
<1> QED
  BY <1>5, <1>6, <1>7, <1>8, <1>9 DEF FrameInv

\* Once spawns that are settled became entities, those left wait for their
\* models, but for attachments that came just now; and if nothing was loading
\* none came.
LEMMA SceneFrame ==
  ASSUME Types, FrameInv, SceneUpdate
  PROVE  FrameInv'
<1> DEFINE built == {p \in SettledSpawns : state[p.spawn.model] = "ready"}
<1>1. /\ phase = "scene" /\ phase' = "draw" /\ asking = <<>> /\ ~unnotified
      /\ pending' = (pending \ SettledSpawns) \cup UNION {Attached(p) : p \in built}
      /\ UNCHANGED <<state, batch, asking, submitted, taken, outstanding, unnotified>>
      /\ UNCHANGED <<script, palette, settled, streamed>>
  BY DEF SceneUpdate, Free, assetVars, managerVars, workerVars
<1>2. built \subseteq pending /\ built \subseteq SettledSpawns
  BY DEF SettledSpawns
<1> HIDE DEF built
<1>3. ASSUME NEW p \in built, NEW q \in Attached(p)
      PROVE  q.spawn.attachments = <<>> /\ p.spawn.attachments # <<>>
  <2>1. IsSpawn(p.spawn)
    BY <1>2 DEF Types, CallsInv
  <2> QED
    BY <2>1, AttachedAre
<1>4. \A p \in pending \ SettledSpawns : state[p.spawn.model] = "loading"
  BY DEF SettledSpawns
<1>5. PhaseInv' /\ AskedInv' /\ StartInv'
  BY <1>1 DEF FrameInv, PhaseInv, AskedInv, StartInv
<1>6. SpawnsInv'
  BY <1>1, <1>3, <1>4 DEF SpawnsInv
<1>7. QuietInv'
  <2> SUFFICES ASSUME settled PROVE QuietInv'
    BY <1>1 DEF QuietInv
  <2>1. \A k \in Key : state[k] # "loading"
    BY <1>1 DEF FrameInv, QuietInv
  <2>2. \A p \in pending : p.spawn.model \in Key
    BY DEF Types, CallsInv, IsSpawn, Key
  <2>3. \A p \in pending : p.spawn.attachments = <<>>
    BY <1>1, <2>1, <2>2 DEF FrameInv, SpawnsInv
  <2>4. pending \ SettledSpawns = {}
    BY <1>4, <2>1, <2>2
  <2>5. \A p \in built : Attached(p) = {}
    BY <1>2, <1>3, <2>3
  <2>6. pending' = {}
    BY <1>1, <2>4, <2>5
  <2> QED
    BY <1>1, <2>6 DEF FrameInv, QuietInv
<1> QED
  BY <1>5, <1>6, <1>7 DEF FrameInv

LEMMA DrawFrame ==
  ASSUME FrameInv, Draw \/ NotDrawn
  PROVE  FrameInv'
<1>1. /\ phase = "draw" /\ phase' = "tick" /\ palette
      /\ UNCHANGED <<state, batch, asking, submitted, taken, outstanding, unnotified>>
      /\ UNCHANGED <<script, palette, pending, instances, settled>>
  BY DEF Draw, NotDrawn, TakeReady, assetVars, managerVars, workerVars, FrameInv, PhaseInv
<1> QED
  BY <1>1 DEF FrameInv, PhaseInv, AskedInv, StartInv, SpawnsInv, QuietInv

LEMMA FrameStep ==
  ASSUME Types, WorkersInv, BooksInv, FrameInv, [Next]_vars
  PROVE  FrameInv'
<1>1. CASE Start \/ Joined \/ Stop \/ Woken \/ Stopped \/ UNCHANGED vars
  BY <1>1, StillFrame DEF Start, Joined, Stop, Woken, Stopped, SpuriousWake, vars, assetVars,
       managerVars, workerVars, Worker!Start, Worker!Joined, Worker!StopUnstarted,
       Worker!RequestStop, Worker!SpuriousWake
<1>2. CASE Thread
  BY <1>2, StillFrame DEF Thread, Decodes, WorkerGoesOn, managerVars, Worker!Take,
       Worker!Wait, Worker!Exit, Worker!Finish
<1>3. CASE Asks
  <2>1. CASE Notify
    BY <1>3, <2>1, StillFrame DEF Asks, Notify, managerVars, Worker!NotifyOne
  <2> QED
    BY <1>3, <2>1, AskedBeforeFrame, LoadNewFrame DEF Asks
<1> QED
  BY <1>1, <1>2, <1>3, SetUpFrame, SetUpDoneFrame, TickFrame, TakeFrame, FinishFrame,
     TerrainFrame, SceneFrame, DrawFrame
     DEF Next, Main, Frame

-----------------------------------------------------------------------------
(* The theorems *)

LEMMA LoadInit == Init => LoadInv
<1> SUFFICES ASSUME Init PROVE LoadInv
  OBVIOUS
<1>1. /\ Worker!Init /\ file \in Files /\ jobs = <<>> /\ decoded = {}
      /\ state = [k \in Model \cup Image \cup Baked |-> "absent"]
      /\ sets = {} /\ ready = <<>> /\ asking = <<>> /\ batch = <<>>
      /\ phase = "startup" /\ script = Script /\ palette = FALSE
      /\ pending = {} /\ instances = {} /\ settled = FALSE /\ streamed = {}
  BY DEF Init, AssetsInit
<1>2. submitted = 0 /\ taken = 0 /\ thread = "none" /\ queued = <<>> /\ ~unnotified
  BY <1>1 DEF Worker!Init
<1>3. WorkerInv
  BY <1>1, WorkerInit, RoomForJobs
<1>4. WorkersInv
  BY <1>2, <1>3 DEF WorkersInv, Worker!NoLostWakeup
<1>5. Worker!TypeOK
  BY <1>3 DEF WorkerInv
<1>6. ManagerTypes
  BY <1>1, <1>2 DEF ManagerTypes, Key
<1>7. SceneTypes /\ CallsInv
  BY <1>1, ScriptAssumption DEF SceneTypes, CallsInv
<1>8. Types
  BY <1>5, <1>6, <1>7, TypesParts
<1>9. Range(jobs) = {} /\ DecodedOnce
  BY <1>1 DEF Range, DecodedOnce, IsInjective
<1>10. \A k \in Key : state[k] = "absent"
  BY <1>1 DEF Key
<1>11. KnownInv /\ LoadingInv /\ ReadyInv
  BY <1>9, <1>10 DEF KnownInv, LoadingInv, ReadyInv
<1>12. PhaseInv /\ StartInv /\ SpawnsInv /\ QuietInv
  BY <1>1, <1>2, <1>10 DEF PhaseInv, StartInv, SpawnsInv, QuietInv
<1>13. AskedInv
  BY <1>1, ScriptAssumption DEF AskedInv
<1> QED
  BY <1>4, <1>8, <1>11, <1>12, <1>13 DEF LoadInv, BooksInv, FrameInv

LEMMA LoadStep == LoadInv /\ [Next]_vars => LoadInv'
<1> SUFFICES ASSUME LoadInv, [Next]_vars PROVE LoadInv'
  OBVIOUS
<1> QED
  BY TypesStep, WorkersStep, BooksStep, FrameStep DEF LoadInv

LEMMA LoadAlways == Spec => []LoadInv
BY LoadInit, LoadStep, PTL DEF Spec

\* Loads start once, however many ask and whatever came of them, and finish in the
\* order they were asked for; none waits beside a thread that sleeps.
THEOREM LoadsAreInOrder == Spec => []DecodedInOrder
<1>1. LoadInv => DecodedInOrder
  <2> SUFFICES ASSUME LoadInv PROVE DecodedInOrder
    OBVIOUS
  <2>1. TypeOK /\ DecodedOnce /\ Worker!NoLostWakeup /\ WorkerInv
    BY DEF LoadInv, BooksInv, Types, KnownInv, WorkersInv
  <2>2. Worker!InOrder
    BY <2>1, PlacesInOrder
  <2>3. InOrder /\ NoLostWakeup
    BY <2>1, <2>2 DEF InOrder, NoLostWakeup
  <2> QED
    BY <2>1, <2>3 DEF DecodedInOrder
<1> QED
  BY <1>1, LoadAlways, PTL

\* A frame whose settle step found the assets idle draws a whole scene, for any
\* calls that set it up and any files.
THEOREM SettledMeansLoaded == Spec => []SettledIsLoaded
<1>1. LoadInv => SettledIsLoaded
  <2> SUFFICES ASSUME LoadInv, settled, phase = "draw" PROVE Whole
    BY DEF SettledIsLoaded
  <2>1. /\ pending = {}
        /\ \A k \in Key : state[k] # "loading" /\ (state[k] = "ready" => k \in streamed)
    BY DEF LoadInv, FrameInv, QuietInv
  <2> QED
    BY <2>1 DEF Whole, Key
<1> QED
  BY <1>1, LoadAlways, PTL

-----------------------------------------------------------------------------
(* What is in the scene is what its file says *)

\* What was decoded, became ready or was spawned comes of a file that loads.
SoundInv ==
  /\ \A j \in decoded : jobs[j] \in Model => model(jobs[j]).ok
  /\ \A m \in Model : state[m] = "ready" => model(m).ok
  /\ \A p \in instances : model(p.spawn.model).ok

LEMMA SoundStep ==
  ASSUME LoadInv, SoundInv, [Next]_vars
  PROVE  SoundInv'
<1> USE TypeFacts
<1>0. Types /\ WorkersInv /\ decoded \subseteq 1 .. submitted
  BY DEF LoadInv, Types, TypeOK, AssetsType
<1>1. ASSUME file' = file, \A j \in decoded' : jobs'[j] \in Model => model(jobs'[j]).ok,
             \A m \in Model : state'[m] = "ready" => model(m).ok,
             \A p \in instances' : model(p.spawn.model).ok
      PROVE  SoundInv'
  <2>1. \A m : model(m)' = model(m)
    BY <1>1 DEF model
  <2> QED
    BY <1>1, <2>1 DEF SoundInv
<1>2. ASSUME UNCHANGED <<file, jobs, decoded, state, instances>> PROVE SoundInv'
  BY <1>1, <1>2 DEF SoundInv
<1>3. CASE \/ Start \/ Joined \/ Stop \/ Woken \/ Stopped \/ UNCHANGED vars
           \/ Tick \/ SetUpDone \/ NotDrawn
  BY <1>2, <1>3 DEF Start, Joined, Stop, Woken, Stopped, SpuriousWake, Tick, SetUpDone, NotDrawn,
     vars, assetVars, managerVars, sceneVars
<1>4. CASE SetUp \/ Take \/ Draw
  BY <1>2, <1>4 DEF SetUp, LoadAmbientCg, LoadModel, Take, TakeFinishes, Draw, TakeReady
<1>5. CASE Asks
  <2>1. CASE AskedBefore \/ Notify
    BY <1>2, <1>5, <2>1 DEF Asks, AskedBefore, Notify, managerVars, sceneVars
  <2>2. CASE LoadNew
    <3>1. /\ asking # <<>> /\ jobs' = Append(jobs, Head(asking))
          /\ state' = [state EXCEPT ![Head(asking)] = "loading"]
          /\ UNCHANGED <<file, decoded, instances>>
      BY <1>5, <2>2 DEF Asks, LoadNew, sceneVars
    <3>2. Head(asking) \in Key
      BY <1>0, <3>1, RangeOfTail
    <3>3. \A j \in decoded : jobs'[j] = jobs[j]
      BY <1>0, <3>1, <3>2
    <3>4. \A m \in Model : state'[m] = "ready" => state[m] = "ready"
      BY <1>0, <3>1 DEF Key
    <3> QED
      BY <1>1, <3>1, <3>3, <3>4 DEF SoundInv
  <2> QED
    BY <1>5, <2>1, <2>2 DEF Asks
<1>6. CASE FinishNext
  <2> DEFINE j == Head(batch)
  <2>1. /\ batch # <<>> /\ UNCHANGED <<file, jobs, decoded, instances>>
        /\ \/ j \in decoded /\ state' = [state EXCEPT ![jobs[j]] = "ready"]
           \/ state' = [state EXCEPT ![jobs[j]] = "failed"]
    BY <1>6 DEF FinishNext, RunFinish, sceneVars
  <2>2. \A m \in Model : state'[m] = "ready" =>
          state[m] = "ready" \/ (j \in decoded /\ m = jobs[j])
    BY <1>0, <2>1 DEF Key
  <2> QED
    BY <1>1, <2>1, <2>2 DEF SoundInv
<1>7. CASE Terrain
  <2>1. CASE LoadAmbientCg(Palette) \/ UNCHANGED assetVars
    BY <1>2, <1>7, <2>1 DEF Terrain, LoadAmbientCg, assetVars, managerVars
  <2>2. ASSUME NEW b \in Baked, AddTextures(<<b>>) PROVE SoundInv'
    <3>1. /\ state' = [k \in DOMAIN state |-> IF k \in Range(<<b>>) THEN "ready" ELSE state[k]]
          /\ UNCHANGED <<file, jobs, decoded, instances>>
      BY <1>7, <2>2 DEF Terrain, AddTextures
    <3>2. Range(<<b>>) = {b} /\ b \notin Model
      BY KeysAssumption DEF Range
    <3>3. \A m \in Model : state'[m] = state[m]
      BY <1>0, <3>1, <3>2 DEF Key
    <3> QED
      BY <1>1, <3>1, <3>3 DEF SoundInv
  <2> QED
    BY <1>7, <2>1, <2>2 DEF Terrain
<1>8. CASE SceneUpdate
  <2> DEFINE built == {p \in SettledSpawns : state[p.spawn.model] = "ready"}
  <2>1. instances' = instances \cup built /\ UNCHANGED <<file, jobs, decoded, state>>
    BY <1>8 DEF SceneUpdate, assetVars, managerVars
  <2>2. \A p \in built : p.spawn.model \in Model /\ state[p.spawn.model] = "ready"
    BY <1>0 DEF SettledSpawns, Types, CallsInv, IsSpawn
  <2> HIDE DEF built
  <2> QED
    BY <1>1, <2>1, <2>2 DEF SoundInv
<1>9. CASE Thread
  <2>1. CASE WorkerGoesOn
    BY <1>2, <1>9, <2>1 DEF Thread, WorkerGoesOn, managerVars, sceneVars
  <2>2. CASE Decodes
    <3>1. /\ UNCHANGED <<file, jobs, state, instances>>
          /\ \/ decoded' = decoded
             \/ /\ jobs[Head(hand)] \in Model => model(jobs[Head(hand)]).ok
                /\ decoded' = decoded \cup {Head(hand)}
      BY <1>9, <2>2 DEF Thread, Decodes, managerVars, sceneVars
    <3> QED
      BY <1>1, <3>1 DEF SoundInv
  <2> QED
    BY <1>9, <2>1, <2>2 DEF Thread
<1> QED
  BY <1>3, <1>4, <1>5, <1>6, <1>7, <1>8, <1>9 DEF Next, Main, Frame

\* The scene is its files: every spawn has their nodes under their parents, their
\* meshes and materials, and the colliders it is to have, for any files, spawns
\* and attachments, and whenever they become ready.
THEOREM ModelsStayKept == Spec => []ModelsKept
<1>1. Init => SoundInv
  <2> SUFFICES ASSUME Init PROVE SoundInv
    OBVIOUS
  <2>1. decoded = {} /\ instances = {} /\ \A m \in Model : state[m] = "absent"
    BY DEF Init, AssetsInit
  <2> QED
    BY <2>1 DEF SoundInv
<1>2. LoadInv /\ SoundInv /\ [Next]_vars => SoundInv'
  BY SoundStep
<1>3. LoadInv /\ SoundInv => ModelsKept
  <2> SUFFICES ASSUME LoadInv, SoundInv, NEW p \in instances
               PROVE  LET f == file[p.spawn.model]
                          m == model(p.spawn.model)
                      IN KeepsTheTree(f, m) /\ KeepsTheMeshes(f, m)
                           /\ CollidesByTheFile(f, m, p.spawn)
    BY DEF ModelsKept, TreeKept, MeshesKept, CollidersKept
  <2> DEFINE f == file[p.spawn.model]
  <2>1. file \in Files /\ p.spawn.model \in Model
    BY DEF LoadInv, Types, TypeOK, AssetsType
  <2>2. NamesWhatItHas(f) /\ IsForest(f)
    BY <2>1, FilesAssumption
  <2>3. model(p.spawn.model) = LoadGltf(f)
    <3>1. DOMAIN file = Model
      BY <2>1, KeysAssumption
    <3>2. f \in UNION {Range(files) : files \in Files}
      BY <2>1, <3>1 DEF Range
    <3> QED
      BY <3>2 DEF model, Loaded
  <2>4. LoadGltf(f).ok
    BY <2>3 DEF SoundInv
  <2> HIDE DEF f
  <2>5. /\ KeepsTheTree(f, LoadGltf(f)) /\ KeepsTheMeshes(f, LoadGltf(f))
        /\ CollidesByTheFile(f, LoadGltf(f), p.spawn)
    BY <2>2, <2>4, LoadKeepsTheTree, LoadKeepsTheMeshes, SpawnsCollideByTheFile
  <2> QED
    BY <2>3, <2>5 DEF f
<1> QED
  BY <1>1, <1>2, <1>3, LoadAlways, PTL DEF Spec
=============================================================================
