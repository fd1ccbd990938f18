------------------------- MODULE MeshStreamingProofs ------------------------
(***************************************************************************)
(* Proofs about MeshStreaming, for any number of mesh slots, ranges of the *)
(* pool, sizes of meshes and of staging, and frames in flight: the books of *)
(* the manager, the renderer and the pool agree, and what a frame draws for *)
(* a handle is its mesh until its fence.                                   *)
(***************************************************************************)
EXTENDS MeshStreaming, FiniteSetTheorems, SequenceTheorems, WellFoundedInduction, TLAPS

\* The handle a slot of the renderer was taken for, and the range it holds.
Held(i) == [index |-> i, generation |-> slots[i].generation]
Occupies(i, r) == slots[i].taken /\ slots[i].range = r

\* What is queued is held still, once; what was released is not.
QueuesInv ==
  /\ \A h \in released : h.index \in DOMAIN meshes /\ h.generation < meshes[h.index]
  /\ \A k \in DOMAIN ready : Resolves(ready[k].mesh) /\ ready[k].mesh.generation % 2 = 0
  /\ \A j, k \in DOMAIN ready : ready[j].mesh = ready[k].mesh => j = k

\* The renderer's slots follow the manager's, never ahead of them.
SlotsInv ==
  /\ SlotsFollowAssets
  /\ \A i \in Index : slots[i].taken =>
       /\ i \in DOMAIN meshes
       /\ slots[i].generation <= meshes[i] /\ slots[i].generation % 2 = 0
       /\ slots[i].range \in PoolId
  /\ \A k \in DOMAIN ready : ~Holds(slots, ready[k].mesh)

\* A range is live with one slot, retired in one frame's list, or free; an upload
\* is for the slot that holds its range, which is not resident yet.
PoolInv ==
  /\ \A r \in PoolId : entry[r] = "live" <=> \E i \in Index : Occupies(i, r)
  /\ \A i, j \in Index, r \in PoolId : Occupies(i, r) /\ Occupies(j, r) => i = j
  /\ \A r \in PoolId : entry[r] = "retired" <=> \E s \in Slot : r \in retired[s]
  /\ \A s, t \in Slot, r \in PoolId : r \in retired[s] /\ r \in retired[t] => s = t
  /\ \A j, k \in DOMAIN uploads : uploads[j].range = uploads[k].range => j = k
  /\ \A k \in DOMAIN uploads :
       /\ Holds(slots, uploads[k].mesh)
       /\ slots[uploads[k].mesh.index].range = uploads[k].range
       /\ uploads[k].range \notin resident
  /\ \A r \in resident : entry[r] = "live"
  /\ copies = {}

\* A frame has to do with a range if it copies to it or draws it.
Mentions(f, r) == (\E c \in f.copies : c.to = r) \/ (\E d \in f.draws : d.range = r)

\* While a frame in flight has to do with a range, the range is not free, has
\* nothing queued for it, and waits retired for a frame that comes no earlier.
MentionsInv ==
  \A k \in DOMAIN inFlight, r \in PoolId : Mentions(inFlight[k], r) =>
    /\ entry[r] # "free"
    /\ \A n \in DOMAIN uploads : uploads[n].range # r
    /\ \A s \in Slot : r \in retired[s] =>
         \E j \in DOMAIN inFlight : j >= k /\ inFlight[j].slot = s

\* A frame copies to no range an earlier frame has to do with.
CopiesInv ==
  \A j, k \in DOMAIN inFlight : j < k =>
    \A c \in inFlight[k].copies : ~Mentions(inFlight[j], c.to)

\* What the copies still to run leave in a range, at the latest frame n's, is h.
CopiesTo(k, r) == {c \in inFlight[k].copies : c.to = r /\ ~inFlight[k].copied}

Lands(r, h, n) ==
  /\ \A k \in DOMAIN inFlight : \A c \in CopiesTo(k, r) :
       k <= n /\ staging[inFlight[k].slot][c.from] = h
  /\ content[r] = h \/ \E k \in DOMAIN inFlight : CopiesTo(k, r) # {}

\* What a frame draws, and what the pool has resident, is there or on its way.
LandsInv ==
  /\ \A k \in DOMAIN inFlight : \A d \in inFlight[k].draws : Lands(d.range, d.mesh, k)
  /\ \A i \in Index : slots[i].taken /\ slots[i].range \in resident =>
       Lands(slots[i].range, Held(i), Len(inFlight))

GpuInv == MentionsInv /\ CopiesInv /\ LandsInv

-----------------------------------------------------------------------------
(* Induction, by the least counterexample: the sets of numbers it is used on *)
(* are given, where the library's theorems take a predicate.                 *)

LEMMA LeastNumber ==
  ASSUME NEW S \in SUBSET Nat, S # {}
  PROVE  \E m \in S : \A k \in S : m <= k
<1> DEFINE R == OpToRel(<, Nat)
<1>1. IsWellFoundedOn(R, Nat)
  BY NatLessThanWellFounded
<1>2. \A x, y \in Nat : <<y, x>> \in R <=> y < x
  BY DEF OpToRel
<1> HIDE DEF R
<1>3. PICK m \in S : \A k \in S : ~(<<k, m>> \in R)
  BY <1>1, WFMin
<1>4. \A k \in S : ~(k < m)
  BY <1>2, <1>3
<1>5. \A k \in S : m <= k
  BY <1>4
<1> QED
  BY <1>5

LEMMA Induct ==
  ASSUME NEW S, 0 \in S, \A n \in Nat : n \in S => n + 1 \in S
  PROVE  \A n \in Nat : n \in S
<1> SUFFICES ASSUME Nat \ S # {} PROVE FALSE
  OBVIOUS
<1>1. PICK m \in Nat \ S : \A k \in Nat \ S : m <= k
  BY LeastNumber
<1>2. m - 1 \in Nat /\ m - 1 \in S
  BY <1>1
<1> QED
  BY <1>2

-----------------------------------------------------------------------------
(* The sequences the code erases from *)

\* What one more element adds to what is kept.
Keeps(f, seq, set, n) ==
  IF n = 0 THEN <<>> ELSE IF seq[n] \in set THEN Append(f[n - 1], seq[n]) ELSE f[n - 1]

\* Kept is the function its definition says: there is one.
LEMMA KeptIs ==
  ASSUME NEW seq, Len(seq) \in Nat, NEW set
  PROVE  Kept(seq, set) = [n \in 0 .. Len(seq) |-> Keeps(Kept(seq, set), seq, set, n)]
<1> DEFINE Upto(f, n) == f = [k \in 0 .. n |-> Keeps(f, seq, set, k)]
<1> DEFINE S == {n \in Nat : \E f : Upto(f, n)}
<1>1. 0 \in S
  <2>1. Upto([k \in 0 .. 0 |-> <<>>], 0)
    BY DEF Keeps
  <2> QED
    BY <2>1
<1>2. ASSUME NEW n \in Nat, n \in S PROVE n + 1 \in S
  <2>1. PICK f : Upto(f, n)
    BY <1>2
  <2> DEFINE g == [k \in 0 .. n + 1 |-> Keeps(f, seq, set, k)]
  <2>2. \A k \in 0 .. n : g[k] = f[k]
    BY <2>1
  <2>3. ASSUME NEW k \in 0 .. n + 1 PROVE Keeps(f, seq, set, k) = Keeps(g, seq, set, k)
    <3>0. k # 0 => k - 1 \in 0 .. n
      BY <1>2
    <3>1. k = 0 \/ f[k - 1] = g[k - 1]
      BY <2>2, <3>0
    <3> HIDE DEF g
    <3> QED
      BY <3>1 DEF Keeps
  <2>4. Upto(g, n + 1)
    BY <2>3
  <2> HIDE DEF Upto, g
  <2> QED
    BY <2>4
<1>3. \E f : Upto(f, Len(seq))
  <2> HIDE DEF S
  <2>1. Len(seq) \in S
    BY <1>1, <1>2, Induct
  <2> QED
    BY <2>1 DEF S
<1>4. Kept(seq, set) = CHOOSE f : Upto(f, Len(seq))
  BY DEF Kept, Keeps
<1>5. Upto(Kept(seq, set), Len(seq))
  <2> HIDE DEF Upto
  <2> QED
    BY <1>3, <1>4
<1> QED
  BY <1>5

\* What is kept of the first n elements is a choice of them, each once, and all
\* that are in the set.
Picks(t, seq, set, n) ==
  \E f \in Injection(1 .. Len(t), 1 .. n) :
    /\ \A j \in 1 .. Len(t) : t[j] = seq[f[j]] /\ seq[f[j]] \in set
    /\ \A k \in 1 .. n : seq[k] \in set => \E j \in 1 .. Len(t) : f[j] = k

LEMMA KeptPicks ==
  ASSUME NEW U, NEW seq \in Seq(U), NEW set, NEW m \in 0 .. Len(seq)
  PROVE  /\ Kept(seq, set)[m] \in Seq(U)
         /\ Picks(Kept(seq, set)[m], seq, set, m)
<1> DEFINE kept == Kept(seq, set)
<1> DEFINE S == {n \in Nat : n <= Len(seq) => kept[n] \in Seq(U) /\ Picks(kept[n], seq, set, n)}
<1>0. kept = [n \in 0 .. Len(seq) |-> Keeps(kept, seq, set, n)]
  BY KeptIs
<1>1. 0 \in S
  <2>1. kept[0] = <<>>
    BY <1>0 DEF Keeps
  <2>2. [j \in 1 .. 0 |-> 0] \in Injection(1 .. Len(<<>>), 1 .. 0)
    BY DEF Injection, IsInjective
  <2>3. Picks(<<>>, seq, set, 0)
    BY <2>2 DEF Picks
  <2>4. kept[0] \in Seq(U) /\ Picks(kept[0], seq, set, 0)
    BY <2>1, <2>3
  <2> HIDE DEF kept
  <2> QED
    BY <2>4
<1>2. ASSUME NEW n \in Nat, n \in S, n + 1 <= Len(seq)
      PROVE  kept[n + 1] \in Seq(U) /\ Picks(kept[n + 1], seq, set, n + 1)
  <2>1. kept[n] \in Seq(U) /\ Picks(kept[n], seq, set, n) /\ seq[n + 1] \in U
    BY <1>2, ElementOfSeq
  <2>2. kept[n + 1] = IF seq[n + 1] \in set THEN Append(kept[n], seq[n + 1]) ELSE kept[n]
    <3>1. n + 1 \in 0 .. Len(seq) /\ n + 1 # 0 /\ (n + 1) - 1 = n
      BY <1>2
    <3>2. kept[n + 1] = Keeps(kept, seq, set, n + 1)
      BY <1>0, <3>1
    <3> HIDE DEF kept
    <3> QED
      BY <3>1, <3>2 DEF Keeps
  <2> DEFINE t == kept[n]
  <2> HIDE DEF kept
  <2>3. PICK f \in Injection(1 .. Len(t), 1 .. n) :
          /\ \A j \in 1 .. Len(t) : t[j] = seq[f[j]] /\ seq[f[j]] \in set
          /\ \A k \in 1 .. n : seq[k] \in set => \E j \in 1 .. Len(t) : f[j] = k
    BY <2>1 DEF Picks
  <2>4. CASE seq[n + 1] \notin set
    <3>1. f \in Injection(1 .. Len(t), 1 .. n + 1)
      BY <2>3 DEF Injection
    <3>2. \A k \in 1 .. n + 1 : seq[k] \in set => k \in 1 .. n
      BY <2>4
    <3>3. Picks(t, seq, set, n + 1)
      BY <2>3, <3>1, <3>2 DEF Picks
    <3> QED
      BY <2>1, <2>2, <2>4, <3>3
  <2>5. CASE seq[n + 1] \in set
    <3> DEFINE u == Append(t, seq[n + 1])
               g == [j \in 1 .. Len(t) + 1 |-> IF j = Len(t) + 1 THEN n + 1 ELSE f[j]]
    <3>1. u \in Seq(U) /\ Len(u) = Len(t) + 1 /\ Len(t) \in Nat
      BY <2>1
    <3>2. \A j \in 1 .. Len(t) : f[j] \in 1 .. n
      BY <2>3 DEF Injection
    <3>3. g \in [1 .. Len(u) -> 1 .. n + 1]
      BY <3>1, <3>2
    <3>4. \A j \in 1 .. Len(t) : j \in 1 .. Len(u) /\ g[j] = f[j]
      BY <3>1
    <3>5. Len(t) + 1 \in 1 .. Len(u) /\ g[Len(t) + 1] = n + 1
      BY <3>1
    <3>6. \A j \in 1 .. Len(u) : j \in 1 .. Len(t) \/ j = Len(t) + 1
      BY <3>1
    <3>7. u[Len(t) + 1] = seq[n + 1] /\ \A j \in 1 .. Len(t) : u[j] = t[j]
      BY <2>1, <3>1
    <3> HIDE DEF u, g
    <3>8. \A a, b \in 1 .. Len(u) : g[a] = g[b] => a = b
      <4>1. \A a, b \in 1 .. Len(t) : f[a] = f[b] => a = b
        BY <2>3 DEF Injection, IsInjective
      <4>2. \A a \in 1 .. Len(t) : f[a] # n + 1
        BY <3>2
      <4> QED
        BY <3>4, <3>5, <3>6, <4>1, <4>2
    <3>9. g \in Injection(1 .. Len(u), 1 .. n + 1)
      BY <3>3, <3>8 DEF Injection, IsInjective
    <3>10. \A j \in 1 .. Len(u) : u[j] = seq[g[j]] /\ seq[g[j]] \in set
      BY <2>3, <2>5, <3>4, <3>5, <3>6, <3>7
    <3>11. \A k \in 1 .. n + 1 : seq[k] \in set => \E j \in 1 .. Len(u) : g[j] = k
      <4>1. \A k \in 1 .. n + 1 : k \in 1 .. n \/ k = n + 1
        OBVIOUS
      <4> QED
        BY <2>3, <3>4, <3>5, <4>1
    <3>12. Picks(u, seq, set, n + 1)
      BY <3>9, <3>10, <3>11 DEF Picks
    <3> QED
      BY <2>2, <2>5, <3>1, <3>12 DEF u
  <2> QED
    BY <2>4, <2>5
<1>3. m \in S
  <2>1. \A n \in Nat : n \in S => n + 1 \in S
    BY <1>2
  <2> HIDE DEF S
  <2> QED
    BY <1>1, <2>1, Induct
<1> QED
  BY <1>3

\* Keep erases the others: what is left is a choice too.
LEMMA KeepPicks ==
  ASSUME NEW U, NEW seq \in Seq(U), NEW set
  PROVE  /\ Keep(seq, set) \in Seq(U)
         /\ Picks(Keep(seq, set), seq, set, Len(seq))
<1>1. Len(seq) \in 0 .. Len(seq)
  OBVIOUS
<1> QED
  BY <1>1, KeptPicks DEF Keep

-----------------------------------------------------------------------------
(* A frame's staging *)

Uses(f, us, n) ==
  IF n = 0 THEN 0 ELSE IF Fits(us[n]) THEN f[n - 1] + us[n].size ELSE f[n - 1]

\* Used is the function its definition says.
LEMMA UsedIs ==
  ASSUME NEW us, Len(us) \in Nat
  PROVE  Used(us) = [n \in 0 .. Len(us) |-> Uses(Used(us), us, n)]
<1> DEFINE Upto(f, n) == f = [k \in 0 .. n |-> Uses(f, us, k)]
<1> DEFINE S == {n \in Nat : \E f : Upto(f, n)}
<1>1. 0 \in S
  <2>1. Upto([k \in 0 .. 0 |-> 0], 0)
    BY DEF Uses
  <2> QED
    BY <2>1
<1>2. ASSUME NEW n \in Nat, n \in S PROVE n + 1 \in S
  <2>1. PICK f : Upto(f, n)
    BY <1>2
  <2> DEFINE g == [k \in 0 .. n + 1 |-> Uses(f, us, k)]
  <2>2. \A k \in 0 .. n : g[k] = f[k]
    BY <2>1
  <2>3. ASSUME NEW k \in 0 .. n + 1 PROVE Uses(f, us, k) = Uses(g, us, k)
    <3>1. k # 0 => k - 1 \in 0 .. n
      BY <1>2
    <3>2. k = 0 \/ f[k - 1] = g[k - 1]
      BY <2>2, <3>1
    <3> HIDE DEF g
    <3> QED
      BY <3>2 DEF Uses
  <2>4. Upto(g, n + 1)
    BY <2>3
  <2> HIDE DEF Upto, g
  <2> QED
    BY <2>4
<1>3. \E f : Upto(f, Len(us))
  <2> HIDE DEF S
  <2>1. Len(us) \in S
    BY <1>1, <1>2, Induct
  <2> QED
    BY <2>1 DEF S
<1>4. Used(us) = CHOOSE f : Upto(f, Len(us))
  BY DEF Used, Uses
<1>5. Upto(Used(us), Len(us))
  <2> HIDE DEF Upto
  <2> QED
    BY <1>3, <1>4
<1> QED
  BY <1>5

\* Each mesh that is staged takes some of the slot's memory.
LEMMA UsedBounds ==
  ASSUME NEW us \in Seq(Upload), NEW m \in 0 .. Len(us)
  PROVE  /\ Used(us)[m] \in Nat
         /\ Len(Kept(us, {u \in Range(us) : Fits(u)})[m]) <= Used(us)[m]
<1> DEFINE set == {u \in Range(us) : Fits(u)}
           kept == Kept(us, set)
           used == Used(us)
           S == {n \in Nat : n <= Len(us) => used[n] \in Nat /\ Len(kept[n]) <= used[n]}
<1>0. /\ kept = [n \in 0 .. Len(us) |-> Keeps(kept, us, set, n)]
      /\ used = [n \in 0 .. Len(us) |-> Uses(used, us, n)]
  BY KeptIs, UsedIs
<1>1. 0 \in S
  <2>1. kept[0] = <<>> /\ used[0] = 0
    BY <1>0 DEF Keeps, Uses
  <2> HIDE DEF kept, used
  <2> QED
    BY <2>1
<1>2. ASSUME NEW n \in Nat, n \in S, n + 1 <= Len(us)
      PROVE  used[n + 1] \in Nat /\ Len(kept[n + 1]) <= used[n + 1]
  <2>1. n + 1 \in 0 .. Len(us) /\ n \in 0 .. Len(us) /\ n + 1 # 0 /\ (n + 1) - 1 = n
        /\ n + 1 \in 1 .. Len(us)
    BY <1>2
  <2>2. /\ kept[n + 1] = Keeps(kept, us, set, n + 1)
        /\ used[n + 1] = Uses(used, us, n + 1)
    BY <1>0, <2>1
  <2>3. us[n + 1] \in Upload /\ us[n + 1] \in Range(us)
    BY <2>1, ElementOfSeq DEF Range
  <2>4. us[n + 1].size \in Nat \ {0}
    BY <2>3, BudgetAssumption DEF Upload
  <2>5. kept[n] \in Seq(Upload) /\ used[n] \in Nat /\ Len(kept[n]) <= used[n]
    BY <1>2, <2>1, KeptPicks
  <2>6. us[n + 1] \in set <=> Fits(us[n + 1])
    BY <2>3
  <2> HIDE DEF kept, used, set
  <2>7. CASE Fits(us[n + 1])
    <3>1. kept[n + 1] = Append(kept[n], us[n + 1]) /\ used[n + 1] = used[n] + us[n + 1].size
      BY <2>1, <2>2, <2>6, <2>7 DEF Keeps, Uses
    <3>2. Len(kept[n + 1]) = Len(kept[n]) + 1
      BY <2>3, <2>5, <3>1
    <3> QED
      BY <2>4, <2>5, <3>1, <3>2
  <2>8. CASE ~Fits(us[n + 1])
    <3>1. kept[n + 1] = kept[n] /\ used[n + 1] = used[n]
      BY <2>1, <2>2, <2>6, <2>8 DEF Keeps, Uses
    <3> QED
      BY <2>5, <3>1
  <2> QED
    BY <2>7, <2>8
<1>3. m \in S
  <2>1. \A n \in Nat : n \in S => n + 1 \in S
    BY <1>2
  <2> HIDE DEF S
  <2> QED
    BY <1>1, <2>1, Induct
<1> QED
  BY <1>3

\* stage() gets through as many uploads as it has memory for.
LEMMA DoneBounds ==
  ASSUME NEW us \in Seq(Upload)
  PROVE  Done(us) \in 0 .. Len(us) /\ Used(us)[Done(us)] <= Budget
<1> DEFINE S == {n \in 0 .. Len(us) : Used(us)[n] <= Budget}
           T == {k \in Nat : Len(us) - k \in S}
<1>1. 0 \in S
  <2>1. Used(us)[0] = 0
    BY UsedIs DEF Uses
  <2> QED
    BY <2>1, BudgetAssumption
<1>2. Len(us) \in T
  BY <1>1
<1>3. PICK k \in T : \A j \in T : k <= j
  BY <1>2, LeastNumber
<1>4. Len(us) - k \in S /\ \A n \in S : Len(us) - n \in T
  BY <1>3
<1>5. ASSUME NEW n \in S PROVE Len(us) - k >= n
  <2>1. k <= Len(us) - n
    <3> HIDE DEF S, T
    <3> QED
      BY <1>3, <1>4
  <2> QED
    BY <2>1
<1>6. Done(us) \in S
  <2>1. Done(us) = CHOOSE n \in S : \A j \in S : n >= j
    BY DEF Done, Max
  <2> HIDE DEF S
  <2> QED
    BY <1>4, <1>5, <2>1
<1> QED
  BY <1>6

\* No two of these uploads are for the same range.
Apart(us) == \A j, k \in DOMAIN us : us[j].range = us[k].range => j = k

\* A choice of uploads that are apart is apart, and has no more of them.
LEMMA PicksApart ==
  ASSUME NEW us \in Seq(Upload), Apart(us), NEW n \in 0 .. Len(us), NEW t \in Seq(Upload),
         NEW set, Picks(t, us, set, n)
  PROVE  /\ Apart(t)
         /\ \A j \in DOMAIN t : \E k \in 1 .. n : t[j] = us[k] /\ us[k] \in set
<1> PICK f \in Injection(1 .. Len(t), 1 .. n) :
           \A j \in 1 .. Len(t) : t[j] = us[f[j]] /\ us[f[j]] \in set
  BY DEF Picks
<1>1. \A j \in DOMAIN t : f[j] \in 1 .. n /\ f[j] \in DOMAIN us
  BY DEF Injection
<1>2. \A j, k \in DOMAIN t : f[j] = f[k] => j = k
  BY DEF Injection, IsInjective
<1>3. Apart(t)
  <2> SUFFICES ASSUME NEW j \in DOMAIN t, NEW k \in DOMAIN t, t[j].range = t[k].range
               PROVE  j = k
    BY DEF Apart
  <2>1. us[f[j]].range = us[f[k]].range
    OBVIOUS
  <2>2. f[j] = f[k]
    BY <1>1, <2>1 DEF Apart
  <2> QED
    BY <1>2, <2>2
<1> QED
  BY <1>1, <1>3

\* What is still queued after a draw that releases some ranges.
Left(us, gone) == Keep(Unstaged(us), {u \in Range(us) : u.range \notin gone})

\* The uploads part in those that are staged, which fit in the slot's memory, and
\* those that wait, less those whose mesh is gone.
LEMMA StageParts ==
  ASSUME NEW us \in Seq(Upload), Apart(us), NEW gone
  PROVE  LET staged == Staged(us)
             waiting == Left(us, gone)
         IN  /\ staged \in Seq(Upload) /\ Len(staged) <= Budget /\ Apart(staged)
             /\ \A p \in DOMAIN staged : \E k \in DOMAIN us : staged[p] = us[k]
             /\ waiting \in Seq(Upload) /\ Apart(waiting)
             /\ \A j \in DOMAIN waiting :
                  waiting[j].range \notin gone /\ \E k \in DOMAIN us : waiting[j] = us[k]
             /\ \A p \in DOMAIN staged, j \in DOMAIN waiting :
                  staged[p].range # waiting[j].range
<1> DEFINE staged == Staged(us)
           rest == Unstaged(us)
           here == {u \in Range(us) : u.range \notin gone}
           waiting == Keep(rest, here)
           n == Done(us)
<1>1. n \in 0 .. Len(us) /\ Used(us)[n] <= Budget /\ Budget \in Nat
  BY DoneBounds, BudgetAssumption
<1>2. staged \in Seq(Upload) /\ Picks(staged, us, {u \in Range(us) : Fits(u)}, n)
  BY <1>1, KeptPicks DEF Staged
<1>3. Len(staged) <= Budget
  <2>1. Len(staged) <= Used(us)[n] /\ Used(us)[n] \in Nat
    BY <1>1, UsedBounds DEF Staged
  <2> HIDE DEF n, staged
  <2> QED
    BY <1>1, <1>2, <2>1
<1>4. /\ rest \in Seq(Upload) /\ Len(rest) = Len(us) - n
      /\ \A j \in 1 .. Len(rest) : rest[j] = us[n + j]
  <2> HIDE DEF n
  <2> QED
    BY <1>1 DEF Unstaged, n
<1> HIDE DEF staged, rest, here, waiting, n
<1>5. Apart(rest)
  <2> SUFFICES ASSUME NEW j \in DOMAIN rest, NEW k \in DOMAIN rest, rest[j].range = rest[k].range
               PROVE  j = k
    BY DEF Apart
  <2>1. rest[j] = us[n + j] /\ rest[k] = us[n + k]
    BY <1>4
  <2>2. n + j \in DOMAIN us /\ n + k \in DOMAIN us
    BY <1>1, <1>4
  <2>3. n + j = n + k
    BY <2>1, <2>2 DEF Apart
  <2> QED
    BY <1>1, <1>4, <2>3
<1>6. waiting \in Seq(Upload) /\ Picks(waiting, rest, here, Len(rest))
  BY <1>4, KeepPicks DEF waiting
<1>7. /\ Apart(staged)
      /\ \A p \in DOMAIN staged : \E k \in 1 .. n : staged[p] = us[k]
  BY <1>1, <1>2, PicksApart
<1>8. /\ Apart(waiting)
      /\ \A j \in DOMAIN waiting : \E k \in 1 .. Len(rest) : waiting[j] = rest[k] /\ rest[k] \in here
  BY <1>4, <1>5, <1>6, PicksApart
<1>9. \A j \in DOMAIN waiting : \E k \in n + 1 .. Len(us) : waiting[j] = us[k] /\ us[k] \in here
  <2> SUFFICES ASSUME NEW j \in DOMAIN waiting
               PROVE  \E k \in n + 1 .. Len(us) : waiting[j] = us[k] /\ us[k] \in here
    OBVIOUS
  <2>1. PICK k \in 1 .. Len(rest) : waiting[j] = rest[k] /\ rest[k] \in here
    BY <1>8
  <2>2. n + k \in n + 1 .. Len(us) /\ rest[k] = us[n + k]
    BY <1>1, <1>4
  <2> QED
    BY <2>1, <2>2
<1>10. \A p \in DOMAIN staged, j \in DOMAIN waiting : staged[p].range # waiting[j].range
  <2> SUFFICES ASSUME NEW p \in DOMAIN staged, NEW j \in DOMAIN waiting,
                      staged[p].range = waiting[j].range
               PROVE  FALSE
    OBVIOUS
  <2>1. PICK k \in 1 .. n : staged[p] = us[k]
    BY <1>7
  <2>2. PICK l \in n + 1 .. Len(us) : waiting[j] = us[l]
    BY <1>9
  <2>3. k \in DOMAIN us /\ l \in DOMAIN us /\ k # l
    BY <1>1
  <2> QED
    BY <2>1, <2>2, <2>3 DEF Apart
<1>11. 1 .. n \subseteq DOMAIN us /\ n + 1 .. Len(us) \subseteq DOMAIN us
  BY <1>1
<1> QED
  BY <1>2, <1>3, <1>6, <1>7, <1>8, <1>9, <1>10, <1>11 DEF staged, waiting, rest, here, Left

-----------------------------------------------------------------------------
(* The AssetManager *)

\* A slot that is added to was free, or is new.
LEMMA AddFacts ==
  ASSUME AssetsTyped, NEW size \in Sizes, AddMesh(size)
  PROVE  LET h == NextHandle IN
         /\ h \in Handle /\ h.generation % 2 = 0
         /\ DOMAIN meshes' = DOMAIN meshes \cup {h.index} /\ meshes'[h.index] = h.generation
         /\ \A i \in DOMAIN meshes : i # h.index => meshes'[i] = meshes[i]
         /\ h.index \in DOMAIN meshes => meshes[h.index] = h.generation - 1
         /\ AssetsTyped'
<1> DEFINE h == NextHandle
<1>0. /\ h \in Handle /\ MaxGeneration \in Nat
      /\ Cardinality(Index) \in Nat /\ Index = 1 .. Cardinality(Index)
  BY IndexAssumption, FS_CardinalityType DEF AddMesh
<1>1. /\ meshes \in Seq(0 .. MaxGeneration) /\ Len(meshes) <= Cardinality(Index)
      /\ free \in Seq(DOMAIN meshes) /\ IsInjective(free)
      /\ \A i \in DOMAIN meshes : i \in Range(free) <=> meshes[i] % 2 = 1
      /\ ready \in Seq([mesh : Handle, size : Sizes])
      /\ released \subseteq Handle
  BY DEF AssetsTyped
<1>2. /\ ready' \in Seq([mesh : Handle, size : Sizes]) /\ released' \subseteq Handle
  <2>1. [mesh |-> h, size |-> size] \in [mesh : Handle, size : Sizes]
    BY <1>0
  <2> QED
    BY <1>1, <2>1 DEF AddMesh
<1>3. CASE free # <<>>
  <2> DEFINE i == Last(free)
  <2>1. /\ h.index = i /\ h.generation = meshes[i] + 1
        /\ meshes' = [meshes EXCEPT ![i] = meshes[i] + 1] /\ free' = Front(free)
    BY <1>3 DEF AddMesh, NextHandle
  <2>2. Len(free) \in DOMAIN free /\ i = free[Len(free)] /\ Len(free) \in Nat \ {0}
    BY <1>1, <1>3, EmptySeq DEF Last
  <2>3. i \in DOMAIN meshes /\ i \in Range(free)
    BY <1>1, <2>2, ElementOfSeq DEF Range
  <2>4. meshes[i] % 2 = 1 /\ meshes[i] \in 0 .. MaxGeneration /\ meshes[i] + 1 \in 0 .. MaxGeneration
    BY <1>0, <1>1, <2>1, <2>3, ElementOfSeq DEF Handle
  <2>5. /\ meshes' \in Seq(0 .. MaxGeneration) /\ Len(meshes') = Len(meshes)
        /\ DOMAIN meshes' = DOMAIN meshes /\ meshes'[i] = meshes[i] + 1
        /\ \A j \in DOMAIN meshes : j # i => meshes'[j] = meshes[j]
    BY <1>1, <2>1, <2>3, <2>4
  <2> HIDE DEF i
  <2>6. /\ free' \in Seq(DOMAIN meshes) /\ Len(free') = Len(free) - 1
        /\ \A k \in 1 .. Len(free) - 1 : free'[k] = free[k]
    <3> DEFINE n == Len(free) - 1
    <3>1. n \in Nat /\ 1 \in Int
      BY <2>2
    <3>2. \A k \in 1 .. n : free[k] \in DOMAIN meshes /\ 1 + k - 1 = k
      BY <1>1, <2>2, ElementOfSeq
    <3>3. free' = SubSeq(free, 1, n)
      BY <2>1 DEF Front
    <3> HIDE DEF n
    <3>4. (IF 1 <= n THEN n - 1 + 1 ELSE 0) = n /\ n - 1 + 1 = n /\ n \in Int
      BY <3>1
    <3>5. /\ free' \in Seq(DOMAIN meshes) /\ Len(free') = n
          /\ \A k \in 1 .. n : free'[k] = free[k]
      BY <3>1, <3>2, <3>3, <3>4, SubSeqProperties
    <3> QED
      BY <3>5 DEF n
  <2>12. \A k \in DOMAIN free' : k \in DOMAIN free /\ k # Len(free) /\ free'[k] = free[k]
    <3>1. DOMAIN free' = 1 .. Len(free) - 1 /\ DOMAIN free = 1 .. Len(free)
      BY <1>1, <2>6
    <3> QED
      BY <2>2, <2>6, <3>1
  <2>7. IsInjective(free')
    BY <1>1, <2>12 DEF IsInjective
  <2>8. Range(free') = Range(free) \ {i}
    <3>1. Range(free') \subseteq Range(free)
      BY <2>12 DEF Range
    <3>2. i \notin Range(free')
      BY <1>1, <2>2, <2>12 DEF Range, IsInjective
    <3>3. ASSUME NEW j \in Range(free), j # i PROVE j \in Range(free')
      <4>1. PICK k \in DOMAIN free : free[k] = j
        BY DEF Range
      <4>2. k \in 1 .. Len(free) - 1
        BY <1>1, <2>2, <3>3, <4>1
      <4> QED
        BY <2>6, <4>1, <4>2 DEF Range
    <3> QED
      BY <3>1, <3>2, <3>3
  <2>11. (meshes[i] + 1) % 2 = 0
    BY <2>4
  <2>9. \A j \in DOMAIN meshes' : j \in Range(free') <=> meshes'[j] % 2 = 1
    <3>1. meshes'[i] % 2 # 1
      BY <2>4, <2>5, <2>11
    <3> QED
      BY <1>1, <2>5, <2>8, <3>1
  <2>10. AssetsTyped'
    BY <1>1, <1>2, <2>5, <2>6, <2>7, <2>9 DEF AssetsTyped
  <2>13. meshes[i] = h.generation - 1
    BY <2>1, <2>4
  <2> HIDE DEF h
  <2> QED
    BY <1>0, <2>1, <2>3, <2>5, <2>10, <2>11, <2>13 DEF h
<1>4. CASE free = <<>>
  <2> DEFINE i == Len(meshes) + 1
  <2>1. /\ h.index = i /\ h.generation = 0
        /\ meshes' = Append(meshes, 0) /\ free' = free
    BY <1>4 DEF AddMesh, NextHandle
  <2>2. /\ meshes' \in Seq(0 .. MaxGeneration) /\ Len(meshes') = i /\ meshes'[i] = 0
        /\ DOMAIN meshes' = DOMAIN meshes \cup {i} /\ i \notin DOMAIN meshes
        /\ \A j \in DOMAIN meshes : meshes'[j] = meshes[j]
    BY <1>0, <1>1, <2>1
  <2>3. i <= Cardinality(Index)
    BY <1>0, <1>1, <2>1 DEF Handle
  <2>4. free' \in Seq(DOMAIN meshes') /\ IsInjective(free') /\ Range(free') = {}
    BY <1>4, <2>1 DEF IsInjective, Range
  <2>5. \A j \in DOMAIN meshes : meshes[j] % 2 # 1
    BY <1>1, <1>4 DEF Range
  <2> HIDE DEF i
  <2>6. AssetsTyped'
    BY <1>2, <2>2, <2>3, <2>4, <2>5 DEF AssetsTyped
  <2> QED
    BY <1>0, <2>1, <2>2, <2>6
<1> QED
  BY <1>3, <1>4

\* A slot that is released was at the handle's generation, and is free after.
LEMMA ReleaseFacts ==
  ASSUME AssetsTyped, NEW h \in Issued, ReleaseMesh(h)
  PROVE  /\ h \in Handle /\ h.generation % 2 = 0
         /\ h.index \in DOMAIN meshes /\ meshes[h.index] = h.generation
         /\ DOMAIN meshes' = DOMAIN meshes /\ meshes'[h.index] = h.generation + 1
         /\ \A i \in DOMAIN meshes : i # h.index => meshes'[i] = meshes[i]
         /\ AssetsTyped'
<1> DEFINE i == h.index
<1>0. h \in Handle /\ h.generation % 2 = 0 /\ i \in DOMAIN meshes /\ meshes[i] = h.generation
  BY DEF Issued, ReleaseMesh, Resolves
<1>1. /\ meshes \in Seq(0 .. MaxGeneration) /\ Len(meshes) <= Cardinality(Index)
      /\ free \in Seq(DOMAIN meshes) /\ IsInjective(free)
      /\ \A j \in DOMAIN meshes : j \in Range(free) <=> meshes[j] % 2 = 1
      /\ ready \in Seq([mesh : Handle, size : Sizes])
      /\ released \subseteq Handle
  BY DEF AssetsTyped
<1>2. /\ ready' \in Seq([mesh : Handle, size : Sizes]) /\ released' \subseteq Handle
  BY <1>0, <1>1, KeepPicks DEF ReleaseMesh
<1>3. h.generation \in Nat /\ h.generation + 1 \in 0 .. MaxGeneration
  BY <1>0, IndexAssumption DEF Handle, ReleaseMesh
<1>4. /\ meshes' \in Seq(0 .. MaxGeneration) /\ Len(meshes') = Len(meshes)
      /\ DOMAIN meshes' = DOMAIN meshes /\ meshes'[i] = h.generation + 1
      /\ \A j \in DOMAIN meshes : j # i => meshes'[j] = meshes[j]
  BY <1>0, <1>1, <1>3 DEF ReleaseMesh
<1> HIDE DEF i
<1>5. i \notin Range(free)
  BY <1>0, <1>1
<1>6. /\ free' \in Seq(DOMAIN meshes) /\ Len(free') = Len(free) + 1 /\ free'[Len(free) + 1] = i
      /\ \A k \in 1 .. Len(free) : free'[k] = free[k]
  BY <1>0, <1>1 DEF ReleaseMesh, i
<1>7. \A k \in DOMAIN free' : k \in 1 .. Len(free) \/ k = Len(free) + 1
  BY <1>1, <1>6
<1>8. \A k \in 1 .. Len(free) : free[k] \in Range(free) /\ k \in DOMAIN free
  BY <1>1 DEF Range
<1>9. IsInjective(free')
  BY <1>1, <1>5, <1>6, <1>7, <1>8 DEF IsInjective
<1>10. Range(free') = Range(free) \cup {i}
  <2>1. Range(free') \subseteq Range(free) \cup {i}
    BY <1>6, <1>7, <1>8 DEF Range
  <2>2. 1 .. Len(free) \subseteq DOMAIN free' /\ Len(free) + 1 \in DOMAIN free'
        /\ DOMAIN free = 1 .. Len(free)
    BY <1>1, <1>6
  <2>3. Range(free) \cup {i} \subseteq Range(free')
    BY <1>6, <2>2 DEF Range
  <2> QED
    BY <2>1, <2>3
<1>11. (h.generation + 1) % 2 = 1
  BY <1>0, <1>3
<1>12. \A j \in DOMAIN meshes' : j \in Range(free') <=> meshes'[j] % 2 = 1
  BY <1>1, <1>4, <1>10, <1>11
<1>13. AssetsTyped'
  BY <1>1, <1>2, <1>4, <1>6, <1>9, <1>12 DEF AssetsTyped
<1> QED
  BY <1>0, <1>4, <1>13 DEF i

\* Handles of the same slot and generation are the same.
LEMMA SameHandle ==
  ASSUME NEW g \in Handle, NEW h \in Handle, g.index = h.index, g.generation = h.generation
  PROVE  g = h
BY DEF Handle

LEMMA AddKeeps ==
  ASSUME TypeOK, QueuesInv, SlotsInv, NEW size \in Sizes, AddMesh(size)
  PROVE  QueuesInv' /\ SlotsInv'
<1> DEFINE h == NextHandle
<1>0. AssetsTyped
  BY DEF TypeOK
<1>1. /\ h \in Handle /\ h.generation % 2 = 0
      /\ DOMAIN meshes' = DOMAIN meshes \cup {h.index} /\ meshes'[h.index] = h.generation
      /\ \A i \in DOMAIN meshes : i # h.index => meshes'[i] = meshes[i]
      /\ h.index \in DOMAIN meshes => meshes[h.index] = h.generation - 1
      /\ AssetsTyped'
  BY <1>0, AddFacts
<1>2. /\ ready' = Append(ready, [mesh |-> h, size |-> size])
      /\ released' = released /\ slots' = slots
  BY DEF AddMesh, poolVars
<1> HIDE DEF h
<1>3. h.generation \in Nat /\ (h.generation - 1) % 2 # 0
  BY <1>1, IndexAssumption DEF Handle
<1>4. \A i \in DOMAIN meshes : meshes[i] \in Nat /\ meshes[i] <= meshes'[i]
  <2>1. \A i \in DOMAIN meshes : meshes[i] \in Nat
    BY <1>0, ElementOfSeq, IndexAssumption DEF AssetsTyped
  <2> QED
    BY <1>1, <1>3, <2>1
<1>5. \A i \in DOMAIN meshes : meshes[i] % 2 = 0 => i # h.index
  BY <1>1, <1>3
<1>6. ready \in Seq([mesh : Handle, size : Sizes]) /\ released \subseteq Handle
  BY <1>0 DEF AssetsTyped
<1>7. /\ Len(ready') = Len(ready) + 1 /\ ready'[Len(ready) + 1].mesh = h
      /\ \A k \in DOMAIN ready : ready'[k] = ready[k]
      /\ \A k \in DOMAIN ready' : k \in DOMAIN ready \/ k = Len(ready) + 1
  BY <1>2, <1>6
<1> DEFINE ResolvesNext(g) == g.index \in DOMAIN meshes' /\ meshes'[g.index] = g.generation
<1>8. \A k \in DOMAIN ready : ResolvesNext(ready[k].mesh) /\ ready[k].mesh.index # h.index
  <2> SUFFICES ASSUME NEW k \in DOMAIN ready
               PROVE  ResolvesNext(ready[k].mesh) /\ ready[k].mesh.index # h.index
    OBVIOUS
  <2>1. /\ ready[k].mesh.index \in DOMAIN meshes
        /\ meshes[ready[k].mesh.index] = ready[k].mesh.generation
        /\ ready[k].mesh.generation % 2 = 0
    BY DEF QueuesInv, Resolves
  <2> QED
    BY <1>1, <1>5, <2>1
<1>9. QueuesInv'
  <2>1. \A g \in released' : g.index \in DOMAIN meshes' /\ g.generation < meshes'[g.index]
    <3> SUFFICES ASSUME NEW g \in released
                 PROVE  g.index \in DOMAIN meshes' /\ g.generation < meshes'[g.index]
      BY <1>2
    <3>1. g.index \in DOMAIN meshes /\ g.generation < meshes[g.index] /\ g.generation \in Nat
      BY <1>6, IndexAssumption DEF QueuesInv, Handle
    <3>2. meshes'[g.index] \in Nat
      BY <1>1, <1>3, <1>4, <3>1
    <3> QED
      BY <1>1, <1>4, <3>1, <3>2
  <2>2. \A k \in DOMAIN ready' : ResolvesNext(ready'[k].mesh) /\ ready'[k].mesh.generation % 2 = 0
    <3>1. ResolvesNext(h)
      BY <1>1
    <3>2. \A k \in DOMAIN ready : ready[k].mesh.generation % 2 = 0
      BY DEF QueuesInv
    <3> HIDE DEF ResolvesNext
    <3> QED
      BY <1>1, <1>7, <1>8, <3>1, <3>2
  <2>3. \A j, k \in DOMAIN ready' : ready'[j].mesh = ready'[k].mesh => j = k
    BY <1>7, <1>8 DEF QueuesInv
  <2> QED
    BY <2>1, <2>2, <2>3 DEF QueuesInv, Resolves
<1>10. SlotsInv'
  <2>1. ASSUME NEW i \in Index, slots[i].taken
        PROVE  /\ i \in DOMAIN meshes' /\ slots[i].generation <= meshes'[i]
               /\ slots[i].generation % 2 = 0 /\ slots[i].range \in PoolId
               /\ Resolves(Held(i)) <=> Resolves(Held(i))'
               /\ (Held(i) \in released <=> ~Resolves(Held(i)))
               /\ Held(i)' = Held(i) /\ Held(i) # h
    <3>1. /\ i \in DOMAIN meshes /\ slots[i].generation <= meshes[i]
          /\ slots[i].generation % 2 = 0 /\ slots[i].range \in PoolId
      BY <2>1 DEF SlotsInv
    <3>2. slots[i].generation \in Nat
      BY IndexAssumption DEF TypeOK, PoolTyped
    <3>3. i = h.index => slots[i].generation # h.generation /\ slots[i].generation # meshes[i]
      BY <1>1, <1>3, <1>4, <3>1, <3>2
    <3>4. Resolves(Held(i)) <=> Resolves(Held(i))'
      BY <1>1, <1>2, <3>1, <3>3 DEF Resolves, Held
    <3>5. Held(i) \in released <=> ~Resolves(Held(i))
      BY <2>1 DEF SlotsInv, SlotsFollowAssets, Held
    <3>6. Held(i)' = Held(i) /\ Held(i) # h
      BY <1>2, <3>3 DEF Held
    <3>7. meshes'[i] \in Nat
      BY <1>1, <1>3, <1>4, <3>1
    <3> QED
      BY <1>1, <1>4, <3>1, <3>2, <3>4, <3>5, <3>6, <3>7
  <2>2. SlotsFollowAssets'
    <3> SUFFICES ASSUME NEW i \in Index, slots[i].taken
                 PROVE  (Held(i) \in released)' <=> ~Resolves(Held(i))'
      BY <1>2 DEF SlotsFollowAssets, Held
    <3> QED
      BY <1>2, <2>1
  <2>3. \A k \in DOMAIN ready' : ~Holds(slots', ready'[k].mesh)
    <3>1. ~Holds(slots, h)
      <4>1. h.index \in Index
        BY <1>1 DEF Handle
      <4>2. Holds(slots, h) => slots[h.index].taken /\ Held(h.index) = h
        BY <1>1 DEF Holds, Held, Handle
      <4> QED
        BY <2>1, <4>1, <4>2
    <3> QED
      BY <1>2, <1>7, <3>1 DEF SlotsInv
  <2> QED
    BY <1>2, <2>1, <2>2, <2>3 DEF SlotsInv
<1> QED
  BY <1>9, <1>10

LEMMA ReleaseKeeps ==
  ASSUME TypeOK, QueuesInv, SlotsInv, NEW h \in Issued, ReleaseMesh(h)
  PROVE  QueuesInv' /\ SlotsInv'
<1>0. AssetsTyped
  BY DEF TypeOK
<1>1. /\ h \in Handle /\ h.generation % 2 = 0
      /\ h.index \in DOMAIN meshes /\ meshes[h.index] = h.generation
      /\ DOMAIN meshes' = DOMAIN meshes /\ meshes'[h.index] = h.generation + 1
      /\ \A i \in DOMAIN meshes : i # h.index => meshes'[i] = meshes[i]
  BY <1>0, ReleaseFacts
<1>2. /\ released' = (IF Queued(h) THEN released ELSE released \cup {h})
      /\ slots' = slots
  BY DEF ReleaseMesh, poolVars
<1>3. h.generation \in Nat
  BY <1>1, IndexAssumption DEF Handle
<1>4. \A i \in DOMAIN meshes : meshes[i] \in Nat /\ meshes'[i] \in Nat /\ meshes[i] <= meshes'[i]
  <2>1. \A i \in DOMAIN meshes : meshes[i] \in Nat
    BY <1>0, ElementOfSeq, IndexAssumption DEF AssetsTyped
  <2> QED
    BY <1>1, <1>3, <2>1
<1>5. ready \in Seq([mesh : Handle, size : Sizes]) /\ released \subseteq Handle
  BY <1>0 DEF AssetsTyped
<1>6. /\ \A j \in DOMAIN ready' : \E k \in DOMAIN ready :
            ready'[j] = ready[k] /\ ready[k].mesh # h /\ ready[k].mesh \in Handle
      /\ \A j, k \in DOMAIN ready' : ready'[j].mesh = ready'[k].mesh => j = k
  <2>1. Picks(ready', ready, {q \in Range(ready) : q.mesh # h}, Len(ready))
    BY <1>5, KeepPicks DEF ReleaseMesh
  <2>2. PICK f \in Injection(1 .. Len(ready'), 1 .. Len(ready)) :
          \A j \in 1 .. Len(ready') : ready'[j] = ready[f[j]] /\ ready[f[j]].mesh # h
    BY <2>1 DEF Picks
  <2>3. ready' \in Seq([mesh : Handle, size : Sizes])
    BY <1>0, ReleaseFacts DEF AssetsTyped
  <2>4. \A j \in DOMAIN ready' : f[j] \in DOMAIN ready /\ j \in 1 .. Len(ready')
    BY <1>5, <2>3 DEF Injection
  <2>5. \A k \in DOMAIN ready : ready[k].mesh \in Handle
    <3> DEFINE Addition == [mesh : Handle, size : Sizes]
    <3>1. ready \in Seq(Addition)
      BY <1>5
    <3>2. \A a \in Addition : a.mesh \in Handle
      OBVIOUS
    <3> HIDE DEF Addition
    <3>3. \A k \in DOMAIN ready : ready[k] \in Addition
      BY <3>1
    <3> QED
      BY <3>2, <3>3
  <2>6. \A j, k \in DOMAIN ready' : f[j] = f[k] => j = k
    BY <2>3 DEF Injection, IsInjective
  <2>7. \A j, k \in DOMAIN ready' : ready'[j].mesh = ready'[k].mesh => f[j] = f[k]
    BY <2>2, <2>4 DEF QueuesInv
  <2> QED
    BY <2>2, <2>4, <2>5, <2>6, <2>7
<1> DEFINE ResolvesNext(g) == g.index \in DOMAIN meshes' /\ meshes'[g.index] = g.generation
<1>7. \A g \in Handle : Resolves(g) /\ g # h => ResolvesNext(g)
  BY <1>1, SameHandle DEF Resolves
<1>8. QueuesInv'
  <2>1. ASSUME NEW g \in released' PROVE g.index \in DOMAIN meshes' /\ g.generation < meshes'[g.index]
    <3>1. CASE g = h
      BY <1>1, <1>3, <3>1
    <3>2. CASE g \in released
      <4>1. g.index \in DOMAIN meshes /\ g.generation < meshes[g.index] /\ g.generation \in Nat
        BY <1>5, <3>2, IndexAssumption DEF QueuesInv, Handle
      <4> QED
        BY <1>1, <1>4, <4>1
    <3> QED
      BY <1>2, <3>1, <3>2
  <2>2. \A k \in DOMAIN ready' : ResolvesNext(ready'[k].mesh) /\ ready'[k].mesh.generation % 2 = 0
    <3> SUFFICES ASSUME NEW j \in DOMAIN ready'
                 PROVE  ResolvesNext(ready'[j].mesh) /\ ready'[j].mesh.generation % 2 = 0
      OBVIOUS
    <3>1. PICK k \in DOMAIN ready :
            ready'[j] = ready[k] /\ ready[k].mesh # h /\ ready[k].mesh \in Handle
      BY <1>6
    <3>2. Resolves(ready[k].mesh) /\ ready[k].mesh.generation % 2 = 0
      BY DEF QueuesInv
    <3> HIDE DEF ResolvesNext
    <3> QED
      BY <1>7, <3>1, <3>2
  <2> QED
    BY <1>6, <2>1, <2>2 DEF QueuesInv, Resolves
<1>9. SlotsInv'
  <2>1. ASSUME NEW i \in Index, slots[i].taken
        PROVE  /\ i \in DOMAIN meshes' /\ slots[i].generation <= meshes'[i]
               /\ slots[i].generation % 2 = 0 /\ slots[i].range \in PoolId
               /\ (Held(i) \in released)' <=> ~Resolves(Held(i))'
    <3>1. /\ i \in DOMAIN meshes /\ slots[i].generation <= meshes[i]
          /\ slots[i].generation % 2 = 0 /\ slots[i].range \in PoolId
          /\ Held(i) \in released <=> ~Resolves(Held(i))
      BY <2>1 DEF SlotsInv, SlotsFollowAssets, Held
    <3>2. slots[i].generation \in Nat /\ Held(i) \in Handle /\ Held(i)' = Held(i)
      BY <1>2, IndexAssumption DEF TypeOK, PoolTyped, Held, Handle
    <3>3. CASE Held(i) = h
      <4>1. ~Queued(h)
        BY <2>1, <3>3 DEF SlotsInv, Queued, Holds, Held
      <4>2. ~Resolves(h)'
        BY <1>1, <1>3 DEF Resolves
      <4> QED
        BY <1>1, <1>2, <1>4, <3>1, <3>2, <3>3, <4>1, <4>2
    <3>4. CASE Held(i) # h
      <4>1. Held(i) \in released' <=> Held(i) \in released
        BY <1>2, <3>4
      <4>2. Resolves(Held(i)) => Resolves(Held(i))'
        BY <1>7, <3>2, <3>4 DEF Resolves
      <4>3. ~Resolves(Held(i)) => ~Resolves(Held(i))'
        BY <1>1, <1>3, <1>4, <3>1, <3>2 DEF Resolves, Held
      <4> QED
        BY <1>1, <1>4, <3>1, <3>2, <4>1, <4>2, <4>3
    <3> QED
      BY <3>3, <3>4
  <2>2. SlotsFollowAssets'
    BY <1>2, <2>1 DEF SlotsFollowAssets, Held
  <2>3. \A k \in DOMAIN ready' : ~Holds(slots', ready'[k].mesh)
    BY <1>2, <1>6 DEF SlotsInv
  <2> QED
    BY <1>2, <2>1, <2>2, <2>3 DEF SlotsInv
<1> QED
  BY <1>8, <1>9

-----------------------------------------------------------------------------
(* A draw: what it takes, stages and records *)

Queue(place) == AfterQueueing(place)
StagedOf(place) == Staged(Queue(place))
HereOf(place) == (resident \cup {StagedOf(place)[p].range : p \in DOMAIN StagedOf(place)}) \ Releasing
Placed(place, r) == \E k \in DOMAIN place : place[k] = r

\* The step of Draw, once the ranges of the additions are chosen.
Draws(place) ==
  /\ SlotFree /\ place \in Placements
  /\ UNCHANGED <<meshes, free, content>>
  /\ ready' = <<>> /\ released' = {} /\ copies' = {}
  /\ slots' = AfterAdds(AfterReleases, place)
  /\ entry' = [r \in PoolId |->
                 IF r \in Releasing THEN "retired"
                 ELSE IF r \in Expired THEN "free"
                 ELSE IF Placed(place, r) THEN "live"
                 ELSE entry[r]]
  /\ uploads' = Keep(Unstaged(Queue(place)), {u \in Range(Queue(place)) : u.range \notin Releasing})
  /\ resident' = HereOf(place)
  /\ retired' = [retired EXCEPT ![frame] = Releasing]
  /\ staging' = [staging EXCEPT ![frame] = Rewritten(@, StagedOf(place))]
  /\ inFlight' = Append(inFlight,
       [slot |-> frame, copies |-> copies \cup CopiesOf(StagedOf(place)),
        copied |-> copies \cup CopiesOf(StagedOf(place)) = {},
        draws |-> Drawn(AfterAdds(AfterReleases, place), HereOf(place))])
  /\ frame' = (frame + 1) % FramesInFlight

LEMMA DrawIs == Draw => \E place \in Placements : Draws(place)
BY DEF Draw, Draws, Queue, StagedOf, HereOf, Placed

\* What the additions get is free, each its own, and there are no more of them.
LEMMA PlaceFacts ==
  ASSUME TypeOK, NEW place \in Placements
  PROVE  /\ \E n \in 0 .. Len(ready) : place \in [1 .. n -> Room]
         /\ DOMAIN place \subseteq DOMAIN ready
         /\ \A k \in DOMAIN place : place[k] \in PoolId /\ entry[place[k]] = "free"
         /\ \A j, k \in DOMAIN place : place[j] = place[k] => j = k
<1> DEFINE c == Cardinality(Room)
           n == Min({Len(ready), c})
<1>1. Len(ready) \in Nat /\ DOMAIN ready = 1 .. Len(ready)
  BY DEF TypeOK, AssetsTyped
<1>2. c \in Nat
  <2>1. Room \in SUBSET PoolId
    BY DEF Room
  <2> QED
    BY <2>1, BudgetAssumption, FS_Subset, FS_CardinalityType
<1>3. n \in 0 .. Len(ready)
  <2>1. n = CHOOSE x \in {Len(ready), c} : \A y \in {Len(ready), c} : x <= y
    BY DEF Min
  <2>2. \E x \in {Len(ready), c} : \A y \in {Len(ready), c} : x <= y
    <3> HIDE DEF c
    <3>1. CASE Len(ready) <= c
      BY <1>1, <1>2, <3>1
    <3>2. CASE c <= Len(ready)
      BY <1>1, <1>2, <3>2
    <3> QED
      BY <1>1, <1>2, <3>1, <3>2
  <2>3. n \in {Len(ready), c} /\ \A y \in {Len(ready), c} : n <= y
    <3> HIDE DEF c, n
    <3> QED
      BY <2>1, <2>2
  <2> HIDE DEF c, n
  <2> QED
    BY <1>1, <1>2, <2>3
<1>4. place \in [1 .. n -> Room] /\ IsInjective(place)
  BY DEF Placements, Injection
<1> HIDE DEF n
<1>5. \A k \in DOMAIN place : place[k] \in Room
  BY <1>4
<1>6. DOMAIN place \subseteq DOMAIN ready
  BY <1>1, <1>3, <1>4
<1> QED
  BY <1>3, <1>4, <1>5, <1>6 DEF IsInjective, Room

\* What is gone is what the slots held whose handles have been released.
LEMMA GoneIs ==
  ASSUME TypeOK, NEW r
  PROVE  r \in Releasing <=> \E i \in Index : Occupies(i, r) /\ Held(i) \in released
<1>1. ASSUME NEW h \in released, Holds(slots, h)
      PROVE  h.index \in Index /\ Held(h.index) = h /\ slots[h.index].taken
  BY <1>1 DEF TypeOK, AssetsTyped, Handle, Holds, Held
<1>2. ASSUME NEW i \in Index, slots[i].taken, Held(i) \in released
      PROVE  Holds(slots, Held(i)) /\ Held(i).index = i
  BY <1>2 DEF Holds, Held
<1>3. ASSUME r \in Releasing PROVE \E i \in Index : Occupies(i, r) /\ Held(i) \in released
  <2>1. PICK h \in released : Holds(slots, h) /\ r = slots[h.index].range
    BY <1>3 DEF Releasing
  <2> QED
    BY <1>1, <2>1 DEF Occupies
<1>4. ASSUME NEW i \in Index, Occupies(i, r), Held(i) \in released PROVE r \in Releasing
  BY <1>2, <1>4 DEF Releasing, Occupies
<1> QED
  BY <1>3, <1>4

\* A slot stays as it was, is let go of, or is taken by an addition; the last only
\* if nothing is left in it.
LEMMA SlotsDrawn ==
  ASSUME TypeOK, QueuesInv, SlotsInv, NEW place, Draws(place)
  PROVE  /\ \A i \in Index : slots[i].taken /\ Held(i) \notin released => slots'[i] = slots[i]
         /\ \A k \in DOMAIN place :
              /\ ready[k].mesh \in Handle /\ ready[k].mesh.index \in Index
              /\ slots'[ready[k].mesh.index] =
                   [generation |-> ready[k].mesh.generation, range |-> place[k], taken |-> TRUE]
         /\ \A i \in Index : slots'[i].taken =>
              \/ slots[i].taken /\ Held(i) \notin released
              \/ \E k \in DOMAIN place : ready[k].mesh.index = i
<1> DEFINE Adds(i, k) == ready[k].mesh.index = i
<1>1. DOMAIN place \subseteq DOMAIN ready
  BY PlaceFacts DEF Draws
<1>2. \A k \in DOMAIN ready : ready[k].mesh \in Handle
  <2> DEFINE Addition == [mesh : Handle, size : Sizes]
  <2>1. ready \in Seq(Addition) /\ \A a \in Addition : a.mesh \in Handle
    BY DEF TypeOK, AssetsTyped
  <2> HIDE DEF Addition
  <2>2. \A k \in DOMAIN ready : ready[k] \in Addition
    BY <2>1
  <2> QED
    BY <2>1, <2>2
<1>3. \A k \in DOMAIN ready : ready[k].mesh.index \in Index
  BY <1>2 DEF Handle
<1>4. \A j, k \in DOMAIN ready : ready[j].mesh.index = ready[k].mesh.index => j = k
  <2> SUFFICES ASSUME NEW j \in DOMAIN ready, NEW k \in DOMAIN ready,
                      ready[j].mesh.index = ready[k].mesh.index
               PROVE  j = k
    OBVIOUS
  <2>1. ready[j].mesh.generation = ready[k].mesh.generation
    BY DEF QueuesInv, Resolves
  <2>2. ready[j].mesh = ready[k].mesh
    BY <1>2, <2>1, SameHandle
  <2> QED
    BY <2>2 DEF QueuesInv
<1>5. \A i \in Index : slots[i].taken /\ Held(i) \notin released =>
        \A k \in DOMAIN ready : ~Adds(i, k)
  <2> SUFFICES ASSUME NEW i \in Index, slots[i].taken, Held(i) \notin released,
                      NEW k \in DOMAIN ready, ready[k].mesh.index = i
               PROVE  FALSE
    OBVIOUS
  <2>1. meshes[i] = slots[i].generation
    BY DEF SlotsInv, SlotsFollowAssets, Held, Resolves
  <2>2. meshes[i] = ready[k].mesh.generation
    BY DEF QueuesInv, Resolves
  <2>3. Holds(slots, ready[k].mesh)
    BY <2>1, <2>2 DEF Holds
  <2> QED
    BY <2>3 DEF SlotsInv
<1>6. \A i \in Index :
        /\ slots' = AfterAdds(AfterReleases, place)
        /\ AfterReleases[i].taken = (slots[i].taken /\ Held(i) \notin released)
        /\ Held(i) \notin released => AfterReleases[i] = slots[i]
  <2> SUFFICES ASSUME NEW i \in Index
               PROVE  /\ AfterReleases[i].taken = (slots[i].taken /\ Held(i) \notin released)
                      /\ Held(i) \notin released => AfterReleases[i] = slots[i]
    BY DEF Draws
  <2>1. slots[i] \in [generation : 0 .. MaxGeneration, range : PoolId \cup {None}, taken : BOOLEAN]
    BY DEF TypeOK, PoolTyped
  <2>2. AfterReleases[i] =
          [slots[i] EXCEPT !.taken = slots[i].taken /\ Held(i) \notin released]
    BY DEF AfterReleases, Held
  <2>3. slots[i].taken \in BOOLEAN
    BY <2>1
  <2>4. Held(i) \notin released => (slots[i].taken /\ Held(i) \notin released) = slots[i].taken
    BY <2>3
  <2>5. [slots[i] EXCEPT !.taken = slots[i].taken] = slots[i]
    BY <2>1
  <2>6. AfterReleases[i].taken = (slots[i].taken /\ Held(i) \notin released)
    BY <2>1, <2>2
  <2> QED
    BY <2>2, <2>4, <2>5, <2>6
<1>7. \A i \in Index : (\A k \in DOMAIN place : ~Adds(i, k)) => slots'[i] = AfterReleases[i]
  BY <1>6 DEF AfterAdds
<1>8. ASSUME NEW n \in DOMAIN place
      PROVE  slots'[ready[n].mesh.index] =
               [generation |-> ready[n].mesh.generation, range |-> place[n], taken |-> TRUE]
  <2> DEFINE i == ready[n].mesh.index
             m == CHOOSE k \in DOMAIN place : ready[k].mesh.index = i
  <2>1. m \in DOMAIN place /\ ready[m].mesh.index = i
    BY <1>8
  <2>2. m = n
    BY <1>1, <1>4, <2>1
  <2>3. i \in Index /\ \E k \in DOMAIN place : ready[k].mesh.index = i
    BY <1>1, <1>3
  <2>4. slots'[i] =
          [generation |-> ready[m].mesh.generation, range |-> place[m], taken |-> TRUE]
    BY <1>6, <2>3 DEF AfterAdds
  <2> QED
    BY <2>2, <2>4
<1> QED
  BY <1>1, <1>2, <1>3, <1>5, <1>6, <1>7, <1>8

\* What is in the queue of a draw is not resident, it was queued before or is just
\* placed, and its mesh will hold the range if that is not released.
WasQueued(r) == entry[r] = "live" /\ \E k \in DOMAIN uploads : uploads[k].range = r

Due(place, u) ==
  /\ u \in Upload /\ u.range \notin resident
  /\ WasQueued(u.range) \/ Placed(place, u.range)
  /\ u.range \notin Releasing =>
       /\ u.mesh.index \in Index
       /\ slots'[u.mesh.index] =
            [generation |-> u.mesh.generation, range |-> u.range, taken |-> TRUE]

LEMMA QueueFacts ==
  ASSUME TypeOK, QueuesInv, SlotsInv, PoolInv, NEW place, Draws(place)
  PROVE  /\ Queue(place) \in Seq(Upload) /\ Apart(Queue(place))
         /\ \A n \in DOMAIN Queue(place) : Due(place, Queue(place)[n])
<1> DEFINE added == [k \in DOMAIN place |->
                       [range |-> place[k], mesh |-> ready[k].mesh, size |-> ready[k].size]]
<1>1. /\ DOMAIN place \subseteq DOMAIN ready
      /\ \A k \in DOMAIN place : place[k] \in PoolId /\ entry[place[k]] = "free"
      /\ \A j, k \in DOMAIN place : place[j] = place[k] => j = k
  BY PlaceFacts DEF Draws
<1>2. PICK n \in 0 .. Len(ready) : place \in [1 .. n -> Room]
  BY PlaceFacts DEF Draws
<1>3. uploads \in Seq(Upload) /\ Len(uploads) \in Nat /\ n \in Nat
  BY <1>2 DEF TypeOK, PoolTyped, AssetsTyped
<1>4. \A k \in DOMAIN place : added[k] \in Upload
  <2> DEFINE Addition == [mesh : Handle, size : Sizes]
  <2>1. ready \in Seq(Addition) /\ \A a \in Addition : a.mesh \in Handle /\ a.size \in Sizes
    BY DEF TypeOK, AssetsTyped
  <2> HIDE DEF Addition
  <2>2. \A k \in DOMAIN ready : ready[k] \in Addition
    BY <2>1
  <2>3. \A k \in DOMAIN place : ready[k].mesh \in Handle /\ ready[k].size \in Sizes
    BY <1>1, <2>1, <2>2
  <2> QED
    BY <1>1, <2>3 DEF Upload
<1>5. added \in Seq(Upload) /\ Len(added) = n /\ DOMAIN place = 1 .. n
  <2>1. DOMAIN place = 1 .. n
    BY <1>2
  <2>2. added \in [1 .. n -> Upload]
    BY <1>4, <2>1
  <2> HIDE DEF added
  <2> QED
    BY <1>3, <2>1, <2>2
<1>6. \A k \in DOMAIN place : Due(place, added[k])
  <2> SUFFICES ASSUME NEW k \in DOMAIN place PROVE Due(place, added[k])
    OBVIOUS
  <2>1. /\ added[k].range = place[k] /\ added[k].mesh = ready[k].mesh
    OBVIOUS
  <2>2. Placed(place, place[k])
    BY DEF Placed
  <2>3. place[k] \notin resident
    BY <1>1 DEF PoolInv
  <2>4. /\ ready[k].mesh.index \in Index
        /\ slots'[ready[k].mesh.index] =
             [generation |-> ready[k].mesh.generation, range |-> place[k], taken |-> TRUE]
    BY SlotsDrawn
  <2> HIDE DEF added
  <2> QED
    BY <1>4, <2>1, <2>2, <2>3, <2>4 DEF Due
<1>7. \A k \in DOMAIN uploads : Due(place, uploads[k]) /\ entry[uploads[k].range] = "live"
  <2> SUFFICES ASSUME NEW k \in DOMAIN uploads
               PROVE  Due(place, uploads[k]) /\ entry[uploads[k].range] = "live"
    OBVIOUS
  <2> DEFINE u == uploads[k]
             i == u.mesh.index
  <2>1. u \in Upload
    BY <1>3
  <2>2. u.mesh \in Handle /\ i \in Index /\ u.range \in PoolId
    BY <2>1 DEF Upload, Handle
  <2>3. Holds(slots, u.mesh) /\ slots[i].range = u.range /\ u.range \notin resident
    BY DEF PoolInv
  <2>4. Occupies(i, u.range) /\ entry[u.range] = "live"
    BY <2>2, <2>3 DEF Occupies, Holds, PoolInv
  <2>5. u.range \notin Releasing => slots'[i] = slots[i]
    BY <2>2, <2>4, GoneIs, SlotsDrawn DEF Occupies
  <2>6. slots[i] = [generation |-> u.mesh.generation, range |-> u.range, taken |-> TRUE]
    <3>1. slots[i] \in [generation : 0 .. MaxGeneration, range : PoolId \cup {None}, taken : BOOLEAN]
      BY <2>2 DEF TypeOK, PoolTyped
    <3>2. slots[i].taken = TRUE /\ slots[i].generation = u.mesh.generation
      BY <2>3, <3>1 DEF Holds
    <3> HIDE DEF u, i
    <3> QED
      BY <2>3, <3>1, <3>2
  <2>8. WasQueued(u.range)
    BY <2>4 DEF WasQueued
  <2> HIDE DEF u, i
  <2>7. Due(place, u)
    BY <2>1, <2>2, <2>3, <2>4, <2>5, <2>6, <2>8 DEF Due, i
  <2> QED
    BY <2>4, <2>7 DEF u
<1> DEFINE us == uploads \o added
<1>8. Queue(place) = us
  BY DEF Queue, AfterQueueing
<1>9. /\ us \in Seq(Upload) /\ Len(us) = Len(uploads) + n
      /\ \A k \in 1 .. Len(uploads) + n :
           us[k] = IF k <= Len(uploads) THEN uploads[k] ELSE added[k - Len(uploads)]
  <2> HIDE DEF added
  <2> QED
    BY <1>3, <1>5, ConcatProperties
<1>10. \A j, k \in DOMAIN place : added[j].range = added[k].range => j = k
  BY <1>1
<1>11. \A k \in DOMAIN place : entry[added[k].range] = "free"
  BY <1>1
<1>12. \A k \in DOMAIN us : \/ k \in DOMAIN uploads /\ us[k] = uploads[k]
                            \/ k - Len(uploads) \in DOMAIN place /\ us[k] = added[k - Len(uploads)]
  <2> HIDE DEF us, added
  <2> QED
    BY <1>3, <1>5, <1>9
<1> HIDE DEF us, added
<1>13. Apart(us)
  <2> SUFFICES ASSUME NEW j \in DOMAIN us, NEW k \in DOMAIN us, us[j].range = us[k].range
               PROVE  j = k
    BY DEF Apart
  <2>0. DOMAIN us \subseteq Nat
    BY <1>9
  <2>1. CASE us[j] = uploads[j] /\ j \in DOMAIN uploads
    <3>1. k \in DOMAIN uploads /\ us[k] = uploads[k]
      BY <1>7, <1>11, <1>12, <2>1
    <3> QED
      BY <2>1, <3>1 DEF PoolInv
  <2>2. CASE j - Len(uploads) \in DOMAIN place /\ us[j] = added[j - Len(uploads)]
    <3>1. k - Len(uploads) \in DOMAIN place /\ us[k] = added[k - Len(uploads)]
      BY <1>7, <1>11, <1>12, <2>2
    <3>2. j - Len(uploads) = k - Len(uploads)
      BY <1>10, <2>2, <3>1
    <3> QED
      BY <1>3, <2>0, <3>2
  <2> QED
    BY <1>12, <2>1, <2>2
<1>14. \A k \in DOMAIN us : Due(place, us[k])
  BY <1>6, <1>7, <1>12
<1> QED
  BY <1>8, <1>9, <1>13, <1>14

\* What a draw stages and what it leaves queued: apart, and each due.
LEMMA DrawnUploads ==
  ASSUME TypeOK, QueuesInv, SlotsInv, PoolInv, NEW place, Draws(place)
  PROVE  LET staged == StagedOf(place) IN
         /\ staged \in Seq(Upload) /\ Len(staged) <= Budget /\ Apart(staged)
         /\ uploads' \in Seq(Upload) /\ Apart(uploads')
         /\ \A p \in DOMAIN staged : Due(place, staged[p])
         /\ \A j \in DOMAIN uploads' : Due(place, uploads'[j]) /\ uploads'[j].range \notin Releasing
         /\ \A p \in DOMAIN staged, j \in DOMAIN uploads' : staged[p].range # uploads'[j].range
<1> DEFINE us == Queue(place)
           gone == Releasing
           staged == Staged(us)
           waiting == Left(us, gone)
<1>1. us \in Seq(Upload) /\ Apart(us) /\ \A n \in DOMAIN us : Due(place, us[n])
  BY QueueFacts
<1>2. uploads' = waiting /\ StagedOf(place) = staged
  BY DEF Draws, StagedOf, Left
<1> HIDE DEF us, gone
<1>3. /\ staged \in Seq(Upload) /\ Len(staged) <= Budget /\ Apart(staged)
      /\ \A p \in DOMAIN staged : \E k \in DOMAIN us : staged[p] = us[k]
      /\ waiting \in Seq(Upload) /\ Apart(waiting)
      /\ \A j \in DOMAIN waiting :
           waiting[j].range \notin gone /\ \E k \in DOMAIN us : waiting[j] = us[k]
      /\ \A p \in DOMAIN staged, j \in DOMAIN waiting : staged[p].range # waiting[j].range
  BY <1>1, StageParts
<1> HIDE DEF staged, waiting
<1>4. /\ \A p \in DOMAIN staged : Due(place, staged[p])
      /\ \A j \in DOMAIN waiting : Due(place, waiting[j]) /\ waiting[j].range \notin Releasing
  BY <1>1, <1>3 DEF gone
<1>5. /\ waiting \in Seq(Upload) <=> uploads' \in Seq(Upload)
      /\ Apart(waiting) <=> Apart(uploads')
  BY <1>2 DEF Apart
<1> QED
  BY <1>2, <1>3, <1>4, <1>5 DEF gone

LEMMA DrawKeepsSlots ==
  ASSUME TypeOK, QueuesInv, SlotsInv, NEW place, Draws(place)
  PROVE  QueuesInv' /\ SlotsInv'
<1>1. /\ meshes' = meshes /\ ready' = <<>> /\ released' = {} /\ DOMAIN place \subseteq DOMAIN ready
      /\ \A k \in DOMAIN place : place[k] \in PoolId
  BY PlaceFacts DEF Draws
<1>2. ASSUME NEW i \in Index, slots'[i].taken
      PROVE  /\ i \in DOMAIN meshes
             /\ slots'[i].generation = meshes[i] /\ slots'[i].generation % 2 = 0
             /\ slots'[i].range \in PoolId
  <2>1. CASE slots[i].taken /\ Held(i) \notin released
    <3>1. slots'[i] = slots[i]
      BY <2>1, SlotsDrawn
    <3>2. Resolves(Held(i))
      BY <2>1 DEF SlotsInv, SlotsFollowAssets, Held
    <3> QED
      BY <2>1, <3>1, <3>2 DEF SlotsInv, Resolves, Held
  <2>2. CASE \E k \in DOMAIN place : ready[k].mesh.index = i
    <3>1. PICK k \in DOMAIN place : ready[k].mesh.index = i
      BY <2>2
    <3>2. slots'[i] =
            [generation |-> ready[k].mesh.generation, range |-> place[k], taken |-> TRUE]
      BY <3>1, SlotsDrawn
    <3>3. Resolves(ready[k].mesh) /\ ready[k].mesh.generation % 2 = 0
      BY <1>1 DEF QueuesInv
    <3> QED
      BY <1>1, <3>1, <3>2, <3>3 DEF Resolves
  <2> QED
    BY <1>2, <2>1, <2>2, SlotsDrawn
<1>3. QueuesInv'
  BY <1>1 DEF QueuesInv
<1>4. \A i \in DOMAIN meshes : meshes[i] <= meshes[i]
  BY IndexAssumption, ElementOfSeq DEF TypeOK, AssetsTyped
<1>5. SlotsFollowAssets'
  BY <1>1, <1>2 DEF SlotsFollowAssets, Resolves
<1>6. SlotsInv'
  BY <1>1, <1>2, <1>4, <1>5 DEF SlotsInv
<1> QED
  BY <1>3, <1>6

\* How a draw finds each range: what is released is live, what expires is retired,
\* what is placed is free.
LEMMA RangesBefore ==
  ASSUME TypeOK, SlotsInv, PoolInv, NEW place, Draws(place), NEW r
  PROVE  /\ r \in Releasing => r \in PoolId /\ entry[r] = "live"
         /\ r \in Expired => r \in PoolId /\ entry[r] = "retired"
         /\ Placed(place, r) => r \in PoolId /\ entry[r] = "free"
         /\ r \in resident => r \in PoolId /\ entry[r] = "live"
<1>1. ASSUME r \in Expired PROVE r \in PoolId /\ entry[r] = "retired"
  BY <1>1 DEF Expired, TypeOK, PoolTyped, GpuTyped, PoolInv
<1>2. ASSUME Placed(place, r) PROVE r \in PoolId /\ entry[r] = "free"
  BY <1>2, PlaceFacts DEF Placed, Draws
<1>3. r \in resident => r \in PoolId /\ entry[r] = "live"
  BY DEF PoolInv, TypeOK, PoolTyped
<1>4. ASSUME r \in Releasing PROVE r \in PoolId /\ entry[r] = "live"
  <2>1. PICK i \in Index : Occupies(i, r)
    BY <1>4, GoneIs
  <2>2. r \in PoolId
    BY <2>1 DEF SlotsInv, Occupies
  <2> QED
    BY <2>1, <2>2 DEF PoolInv
<1> QED
  BY <1>1, <1>2, <1>3, <1>4

\* Who holds a range after a draw: who held it and is not released, or the mesh it
\* was placed for.
LEMMA Occupants ==
  ASSUME TypeOK, QueuesInv, SlotsInv, NEW place, Draws(place), NEW i \in Index, NEW r
  PROVE  Occupies(i, r)' <=> \/ Occupies(i, r) /\ Held(i) \notin released
                             \/ \E k \in DOMAIN place : ready[k].mesh.index = i /\ place[k] = r
<1>1. ASSUME NEW k \in DOMAIN place, ready[k].mesh.index = i
      PROVE  slots'[i].taken /\ slots'[i].range = place[k]
  <2>1. slots'[ready[k].mesh.index] =
          [generation |-> ready[k].mesh.generation, range |-> place[k], taken |-> TRUE]
    BY SlotsDrawn
  <2> QED
    BY <1>1, <2>1
<1>2. ASSUME slots[i].taken, Held(i) \notin released
      PROVE  slots'[i] = slots[i]
  BY <1>2, SlotsDrawn
<1>3. slots'[i].taken => \/ slots[i].taken /\ Held(i) \notin released
                         \/ \E k \in DOMAIN place : ready[k].mesh.index = i
  BY SlotsDrawn
<1> QED
  BY <1>1, <1>2, <1>3 DEF Occupies

LEMMA EntryDrawn ==
  ASSUME NEW place, Draws(place), NEW r \in PoolId
  PROVE  entry'[r] = IF r \in Releasing THEN "retired"
                     ELSE IF r \in Expired THEN "free"
                     ELSE IF Placed(place, r) THEN "live"
                     ELSE entry[r]
BY DEF Draws

\* The pool's books after a draw.
LEMMA DrawKeepsPool ==
  ASSUME TypeOK, QueuesInv, SlotsInv, PoolInv, NEW place, Draws(place)
  PROVE  PoolInv'
<1>1. ASSUME NEW r \in PoolId
      PROVE  entry'[r] = "live" <=> \E i \in Index : Occupies(i, r)'
  <2>1. entry'[r] = "live" <=> /\ r \notin Releasing /\ r \notin Expired
                               /\ Placed(place, r) \/ entry[r] = "live"
    BY EntryDrawn
  <2>2. ASSUME entry'[r] = "live" PROVE \E i \in Index : Occupies(i, r)'
    <3>1. CASE Placed(place, r)
      <4>1. PICK k \in DOMAIN place : place[k] = r
        BY <3>1 DEF Placed
      <4>2. ready[k].mesh.index \in Index
        BY SlotsDrawn
      <4> QED
        BY <4>1, <4>2, Occupants
    <3>2. CASE entry[r] = "live"
      <4>1. PICK i \in Index : Occupies(i, r)
        BY <3>2 DEF PoolInv
      <4>2. Held(i) \notin released
        BY <2>1, <2>2, <4>1, GoneIs
      <4> QED
        BY <4>1, <4>2, Occupants
    <3> QED
      BY <2>1, <2>2, <3>1, <3>2
  <2>3. ASSUME NEW i \in Index, Occupies(i, r)' PROVE entry'[r] = "live"
    <3>1. CASE Occupies(i, r) /\ Held(i) \notin released
      <4>1. entry[r] = "live"
        BY <3>1 DEF PoolInv
      <4>2. r \notin Releasing
        BY <3>1, GoneIs DEF PoolInv
      <4> QED
        BY <2>1, <4>1, <4>2, RangesBefore
    <3>2. CASE \E k \in DOMAIN place : ready[k].mesh.index = i /\ place[k] = r
      <4>1. Placed(place, r)
        BY <3>2 DEF Placed
      <4> QED
        BY <2>1, <4>1, RangesBefore
    <3> QED
      BY <2>3, <3>1, <3>2, Occupants
  <2> QED
    BY <2>2, <2>3
<1>2. ASSUME NEW i \in Index, NEW j \in Index, NEW r \in PoolId,
             Occupies(i, r)', Occupies(j, r)'
      PROVE  i = j
  <2>1. CASE Placed(place, r)
    <3>1. entry[r] # "live"
      BY <2>1, RangesBefore
    <3>2. ~Occupies(i, r) /\ ~Occupies(j, r)
      BY <3>1 DEF PoolInv
    <3>3. PICK k \in DOMAIN place : ready[k].mesh.index = i /\ place[k] = r
      BY <1>2, <3>2, Occupants
    <3>4. PICK l \in DOMAIN place : ready[l].mesh.index = j /\ place[l] = r
      BY <1>2, <3>2, Occupants
    <3>5. k = l
      BY <3>3, <3>4, PlaceFacts DEF Draws
    <3> QED
      BY <3>3, <3>4, <3>5
  <2>2. CASE ~Placed(place, r)
    <3>1. Occupies(i, r) /\ Occupies(j, r)
      BY <1>2, <2>2, Occupants DEF Placed
    <3> QED
      BY <3>1 DEF PoolInv
  <2> QED
    BY <2>1, <2>2
<1>3. /\ frame \in Slot /\ retired \in [Slot -> SUBSET PoolId]
      /\ retired' = [retired EXCEPT ![frame] = Releasing]
      /\ Expired = retired[frame]
  BY DEF TypeOK, PoolTyped, GpuTyped, Draws, Expired
<1>4. /\ retired'[frame] = Releasing
      /\ \A s \in Slot : s # frame => retired'[s] = retired[s]
  BY <1>3
<1>5. ASSUME NEW r \in PoolId
      PROVE  entry'[r] = "retired" <=> \E s \in Slot : r \in retired'[s]
  <2>1. CASE r \in Releasing
    <3>1. entry'[r] = "retired"
      BY <2>1, EntryDrawn
    <3> QED
      BY <1>3, <1>4, <2>1, <3>1
  <2>2. CASE r \notin Releasing
    <3>3. /\ Placed(place, r) => entry[r] = "free"
          /\ entry'[r] = IF r \in Expired THEN "free"
                         ELSE IF Placed(place, r) THEN "live" ELSE entry[r]
      BY <2>2, EntryDrawn, RangesBefore
    <3>1. entry'[r] = "retired" <=> r \notin Expired /\ entry[r] = "retired"
      BY <3>3
    <3>2. /\ entry[r] = "retired" <=> \E s \in Slot : r \in retired[s]
          /\ \A s, t \in Slot : r \in retired[s] /\ r \in retired[t] => s = t
      BY DEF PoolInv
    <3> QED
      BY <1>3, <1>4, <2>2, <3>1, <3>2
  <2> QED
    BY <2>1, <2>2
<1>6. ASSUME NEW s \in Slot, NEW t \in Slot, NEW r \in PoolId, r \in retired'[s], r \in retired'[t]
      PROVE  s = t
  <2>1. r \in Releasing => \A n \in Slot : r \notin retired[n]
    BY RangesBefore DEF PoolInv
  <2> QED
    BY <1>4, <1>6, <2>1 DEF PoolInv
<1>7. resident' = HereOf(place) /\ copies' = {}
  BY DEF Draws
<1>8. ASSUME NEW r \in resident' PROVE entry'[r] = "live"
  <2>1. r \notin Releasing
    BY <1>7 DEF HereOf
  <2>2. CASE r \in resident
    BY <2>1, <2>2, RangesBefore, EntryDrawn
  <2>3. CASE r \in {StagedOf(place)[p].range : p \in DOMAIN StagedOf(place)}
    <3>1. PICK p \in DOMAIN StagedOf(place) : r = StagedOf(place)[p].range
      BY <2>3
    <3>2. Due(place, StagedOf(place)[p])
      BY DrawnUploads
    <3>3. r \in PoolId /\ (entry[r] = "live" \/ Placed(place, r))
      BY <3>1, <3>2 DEF Due, Upload, WasQueued
    <3> QED
      BY <2>1, <3>3, RangesBefore, EntryDrawn
  <2> QED
    BY <1>7, <2>2, <2>3 DEF HereOf
<1>9. \A j, k \in DOMAIN uploads' : uploads'[j].range = uploads'[k].range => j = k
  BY DrawnUploads DEF Apart
<1>10. ASSUME NEW k \in DOMAIN uploads'
       PROVE  /\ Holds(slots', uploads'[k].mesh)
              /\ slots'[uploads'[k].mesh.index].range = uploads'[k].range
              /\ uploads'[k].range \notin resident'
  <2>1. Due(place, uploads'[k]) /\ uploads'[k].range \notin Releasing
    BY DrawnUploads
  <2>2. uploads'[k].range \notin {StagedOf(place)[p].range : p \in DOMAIN StagedOf(place)}
    BY DrawnUploads
  <2> QED
    BY <1>7, <2>1, <2>2 DEF Due, Holds, HereOf
<1> QED
  BY <1>1, <1>2, <1>5, <1>6, <1>7, <1>8, <1>9, <1>10 DEF PoolInv, Holds

\* A draw's slots, staging and frame are of their types.
LEMMA DrawKeepsTypes ==
  ASSUME TypeOK, QueuesInv, SlotsInv, PoolInv, NEW place, Draws(place)
  PROVE  TypeOK'
<1> DEFINE staged == StagedOf(place)
           SlotType == [generation : 0 .. MaxGeneration, range : PoolId \cup {None}, taken : BOOLEAN]
           Frame == [slot : Slot, copies : SUBSET Copy, copied : BOOLEAN,
                     draws : SUBSET [mesh : Handle, range : PoolId]]
<1>1. AssetsTyped'
  <2>1. meshes' = meshes /\ free' = free /\ ready' = <<>> /\ released' = {}
    BY DEF Draws
  <2> QED
    BY <2>1 DEF TypeOK, AssetsTyped
<1>2. /\ staged \in Seq(Upload) /\ Len(staged) <= Budget
      /\ uploads' \in Seq(Upload)
  BY DrawnUploads
<1>3. /\ DOMAIN staged \subseteq Position
      /\ \A p \in DOMAIN staged : staged[p] \in Upload
  <2> HIDE DEF staged
  <2> QED
    BY <1>2, BudgetAssumption DEF Position
<1>4. \A p \in DOMAIN staged : staged[p].range \in PoolId /\ staged[p].mesh \in Handle
  BY <1>3 DEF Upload
<1>5. HereOf(place) \subseteq PoolId
  BY <1>4 DEF HereOf, TypeOK, PoolTyped
<1>6. slots' \in [Index -> SlotType]
  <2>1. /\ DOMAIN place \subseteq DOMAIN ready
        /\ \A k \in DOMAIN place : place[k] \in PoolId
    BY PlaceFacts DEF Draws
  <2>2. \A i \in Index : AfterReleases[i] \in SlotType
    <3> SUFFICES ASSUME NEW i \in Index PROVE AfterReleases[i] \in SlotType
      OBVIOUS
    <3>1. slots[i] \in SlotType
      BY DEF TypeOK, PoolTyped
    <3> QED
      BY <3>1 DEF AfterReleases
  <2>3. \A k \in DOMAIN place : ready[k].mesh.generation \in 0 .. MaxGeneration
    BY SlotsDrawn DEF Handle
  <2> DEFINE taken(k) == [generation |-> ready[k].mesh.generation, range |-> place[k], taken |-> TRUE]
  <2>4. \A k \in DOMAIN place : taken(k) \in SlotType
    BY <2>1, <2>3
  <2>5. \A i \in Index : AfterAdds(AfterReleases, place)[i] \in SlotType
    <3> SUFFICES ASSUME NEW i \in Index PROVE AfterAdds(AfterReleases, place)[i] \in SlotType
      OBVIOUS
    <3> HIDE DEF SlotType
    <3>1. CASE \E k \in DOMAIN place : ready[k].mesh.index = i
      <4> DEFINE m == CHOOSE n \in DOMAIN place : ready[n].mesh.index = i
      <4>1. m \in DOMAIN place
        BY <3>1
      <4>2. AfterAdds(AfterReleases, place)[i] = taken(m)
        BY <3>1 DEF AfterAdds
      <4> HIDE DEF m
      <4> QED
        BY <2>4, <4>1, <4>2
    <3>2. CASE ~ \E k \in DOMAIN place : ready[k].mesh.index = i
      <4>1. AfterAdds(AfterReleases, place)[i] = AfterReleases[i]
        BY <3>2 DEF AfterAdds
      <4> QED
        BY <2>2, <4>1
    <3> QED
      BY <3>1, <3>2
  <2>6. slots' = AfterAdds(AfterReleases, place) /\ DOMAIN slots' = Index
        /\ slots' = [i \in Index |-> slots'[i]]
    BY DEF Draws, AfterAdds
  <2> HIDE DEF SlotType
  <2> QED
    BY <2>5, <2>6
<1>7. entry' \in [PoolId -> {"free", "live", "retired"}]
  BY DEF Draws, TypeOK, PoolTyped
<1>8. retired' \in [Slot -> SUBSET PoolId]
  <2>1. Releasing \subseteq PoolId
    BY RangesBefore
  <2> QED
    BY <2>1 DEF Draws, TypeOK, PoolTyped
<1>9. PoolTyped'
  BY <1>2, <1>5, <1>6, <1>7, <1>8 DEF PoolTyped, Draws
<1>10. staging' \in [Slot -> [Position -> Handle \cup {None}]]
  <2>1. /\ staging' = [staging EXCEPT ![frame] = Rewritten(staging[frame], staged)]
        /\ frame \in Slot
        /\ staging \in [Slot -> [Position -> Handle \cup {None}]]
    BY DEF Draws, TypeOK, GpuTyped
  <2>2. staging[frame] \in [Position -> Handle \cup {None}]
    BY <2>1
  <2>3. Rewritten(staging[frame], staged) \in [Position -> Handle \cup {None}]
    <3> HIDE DEF staged
    <3> QED
      BY <1>4, <2>2 DEF Rewritten
  <2> QED
    BY <2>1, <2>3
<1>11. frame' \in Slot
  <2>1. frame' = (frame + 1) % FramesInFlight /\ frame \in Int
    BY DEF Draws, TypeOK, GpuTyped, Slot
  <2>2. FramesInFlight \in Nat \ {0}
    BY BudgetAssumption
  <2>3. (frame + 1) % FramesInFlight \in 0 .. FramesInFlight - 1
    BY <2>1, <2>2
  <2> QED
    BY <2>1, <2>3 DEF Slot
<1>12. inFlight' \in Seq(Frame)
  <2> DEFINE f == [slot |-> frame, copies |-> copies \cup CopiesOf(staged),
                   copied |-> copies \cup CopiesOf(staged) = {},
                   draws |-> Drawn(AfterAdds(AfterReleases, place), HereOf(place))]
  <2>1. CopiesOf(staged) \subseteq Copy
    <3> HIDE DEF staged
    <3> QED
      BY <1>3, <1>4 DEF CopiesOf, Copy
  <2>2. Drawn(AfterAdds(AfterReleases, place), HereOf(place)) \subseteq [mesh : Handle, range : PoolId]
    BY <1>5 DEF Drawn, Issued
  <2>3. copies \subseteq Copy /\ frame \in Slot /\ inFlight \in Seq(Frame)
    BY DEF TypeOK, PoolTyped, GpuTyped
  <2>4. f \in Frame
    <3> HIDE DEF staged
    <3> QED
      BY <2>1, <2>2, <2>3
  <2>5. inFlight' = Append(inFlight, f)
    BY DEF Draws
  <2> HIDE DEF f, Frame
  <2> QED
    BY <2>3, <2>4, <2>5, AppendProperties
<1>13. GpuTyped'
  <2>1. content' = content
    BY DEF Draws
  <2> QED
    BY <1>10, <1>11, <1>12, <2>1 DEF GpuTyped, TypeOK
<1> QED
  BY <1>1, <1>9, <1>13 DEF TypeOK

\* The frame a draw records: its copies are of what it staged, and it draws what is
\* held and resident after it.
LEMMA FrameDrawn ==
  ASSUME TypeOK, PoolInv, NEW place, Draws(place)
  PROVE  LET n == Len(inFlight)
             f == inFlight'[n + 1]
         IN  /\ n \in Nat /\ DOMAIN inFlight = 1 .. n /\ DOMAIN inFlight' = 1 .. n + 1
             /\ Len(inFlight') = n + 1
             /\ \A k \in 1 .. n : inFlight'[k] = inFlight[k]
             /\ f.slot = frame /\ f.copies = CopiesOf(StagedOf(place))
             /\ f.copied <=> f.copies = {}
             /\ \A d \in f.draws :
                  /\ d.mesh.index \in Index /\ Holds(slots', d.mesh)
                  /\ d.mesh = [index |-> d.mesh.index, generation |-> d.mesh.generation]
                  /\ d.range = slots'[d.mesh.index].range /\ d.range \in HereOf(place)
<1> DEFINE staged == StagedOf(place)
           f == [slot |-> frame, copies |-> copies \cup CopiesOf(staged),
                 copied |-> copies \cup CopiesOf(staged) = {},
                 draws |-> Drawn(slots', HereOf(place))]
           Frame == [slot : Slot, copies : SUBSET Copy, copied : BOOLEAN,
                     draws : SUBSET [mesh : Handle, range : PoolId]]
           n == Len(inFlight)
<1>1. copies \cup CopiesOf(staged) = CopiesOf(staged)
  BY DEF PoolInv
<1>2. inFlight' = Append(inFlight, f)
  BY DEF Draws
<1>3. inFlight \in Seq(Frame)
  BY DEF TypeOK, GpuTyped
<1>4. /\ f.slot = frame /\ f.copies = CopiesOf(staged)
      /\ f.copied <=> f.copies = {}
      /\ f.draws = Drawn(slots', HereOf(place))
  <2> HIDE DEF staged
  <2> QED
    BY <1>1
<1>5. ASSUME NEW d \in Drawn(slots', HereOf(place))
      PROVE  /\ d.mesh.index \in Index /\ Holds(slots', d.mesh)
             /\ d.mesh = [index |-> d.mesh.index, generation |-> d.mesh.generation]
             /\ d.range = slots'[d.mesh.index].range /\ d.range \in HereOf(place)
  <2>1. PICK h \in Issued : /\ Holds(slots', h) /\ slots'[h.index].range \in HereOf(place)
                            /\ d = [mesh |-> h, range |-> slots'[h.index].range]
    BY <1>5 DEF Drawn
  <2>2. h \in Handle
    BY DEF Issued
  <2> QED
    BY <2>1, <2>2 DEF Handle
<1> HIDE DEF f, Frame
<1>6. /\ n \in Nat /\ DOMAIN inFlight = 1 .. n /\ DOMAIN inFlight' = 1 .. n + 1
      /\ Len(inFlight') = n + 1
      /\ \A k \in 1 .. n : inFlight'[k] = inFlight[k]
      /\ inFlight'[n + 1] = f
  BY <1>2, <1>3
<1> QED
  BY <1>4, <1>5, <1>6

\* What a draw stages nobody in flight has to do with, nor what it leaves queued.
LEMMA DueUnmentioned ==
  ASSUME TypeOK, SlotsInv, PoolInv, MentionsInv, NEW place, Draws(place), NEW u, Due(place, u)
  PROVE  \A k \in DOMAIN inFlight : ~Mentions(inFlight[k], u.range)
<1>1. u.range \in PoolId
  BY DEF Due, Upload
<1>2. Placed(place, u.range) => entry[u.range] = "free"
  BY RangesBefore
<1> QED
  BY <1>1, <1>2 DEF Due, WasQueued, MentionsInv

LEMMA DrawKeepsCopies ==
  ASSUME TypeOK, QueuesInv, SlotsInv, PoolInv, GpuInv, NEW place, Draws(place)
  PROVE  /\ CopiesInv'
         /\ \A c \in CopiesOf(StagedOf(place)) : \A k \in DOMAIN inFlight :
              ~Mentions(inFlight[k], c.to)
<1> DEFINE staged == StagedOf(place)
           n == Len(inFlight)
<1>1. \A p \in DOMAIN staged : Due(place, staged[p])
  BY DrawnUploads
<1>2. \A c \in CopiesOf(staged) : \E p \in DOMAIN staged : c = [from |-> p, to |-> staged[p].range]
  <2> HIDE DEF staged
  <2> QED
    BY DEF CopiesOf
<1>3. /\ n \in Nat /\ DOMAIN inFlight = 1 .. n /\ DOMAIN inFlight' = 1 .. n + 1
      /\ \A k \in 1 .. n : inFlight'[k] = inFlight[k]
      /\ inFlight'[n + 1].copies = CopiesOf(staged)
  BY FrameDrawn
<1> HIDE DEF staged, n
<1>4. \A c \in CopiesOf(staged) : \A k \in DOMAIN inFlight : ~Mentions(inFlight[k], c.to)
  BY <1>1, <1>2, DueUnmentioned DEF GpuInv
<1>5. ASSUME NEW k \in 1 .. n + 1
      PROVE  \A j \in 1 .. n + 1, c \in inFlight'[k].copies :
               j < k => ~Mentions(inFlight'[j], c.to)
  <2>1. CASE k = n + 1
    <3>1. \A j \in 1 .. n + 1 : j < k => j \in 1 .. n
      BY <1>3, <2>1
    <3> QED
      BY <1>3, <1>4, <2>1, <3>1
  <2>2. CASE k # n + 1
    <3>1. k \in 1 .. n /\ \A j \in 1 .. n + 1 : j < k => j \in 1 .. n
      BY <1>3, <2>2
    <3> QED
      BY <1>3, <3>1 DEF GpuInv, CopiesInv
  <2> QED
    BY <2>1, <2>2
<1> QED
  BY <1>3, <1>4, <1>5 DEF CopiesInv, Mentions, staged

\* A range somebody in flight has to do with is kept from the others over a draw:
\* the frame's own slot has nothing in flight, so nothing of theirs expires.
LEMMA DrawKeepsMentions ==
  ASSUME TypeOK, QueuesInv, SlotsInv, PoolInv, GpuInv, NEW place, Draws(place)
  PROVE  MentionsInv'
<1> DEFINE staged == StagedOf(place)
           n == Len(inFlight)
           Spared(k, r) ==
             /\ entry'[r] # "free"
             /\ \A m \in DOMAIN uploads' : uploads'[m].range # r
             /\ \A s \in Slot : r \in retired'[s] =>
                  \E j \in 1 .. n + 1 : j >= k /\ inFlight'[j].slot = s
<1>1. /\ \A p \in DOMAIN staged : Due(place, staged[p])
      /\ \A j \in DOMAIN uploads' : Due(place, uploads'[j])
      /\ \A p \in DOMAIN staged, j \in DOMAIN uploads' : staged[p].range # uploads'[j].range
  BY DrawnUploads
<1>2. /\ n \in Nat /\ DOMAIN inFlight = 1 .. n /\ DOMAIN inFlight' = 1 .. n + 1
      /\ \A k \in 1 .. n : inFlight'[k] = inFlight[k]
      /\ inFlight'[n + 1].slot = frame /\ inFlight'[n + 1].copies = CopiesOf(staged)
      /\ \A d \in inFlight'[n + 1].draws : d.range \in HereOf(place)
  BY FrameDrawn
<1>3. /\ retired'[frame] = Releasing /\ Expired = retired[frame] /\ frame \in Slot
      /\ \A s \in Slot : s # frame => retired'[s] = retired[s]
  BY DEF TypeOK, PoolTyped, GpuTyped, Draws, Expired
<1>4. n + 1 \in 1 .. n + 1 /\ \A k \in 1 .. n : k \in 1 .. n + 1
  BY <1>2
<1>5. ASSUME NEW k \in 1 .. n, NEW r \in PoolId, Mentions(inFlight[k], r) PROVE Spared(k, r)
  <2>1. /\ entry[r] # "free"
        /\ \A m \in DOMAIN uploads : uploads[m].range # r
        /\ \A s \in Slot : r \in retired[s] =>
             \E j \in 1 .. n : j >= k /\ inFlight[j].slot = s
    BY <1>2, <1>5 DEF GpuInv, MentionsInv
  <2>2. r \notin Expired
    BY <1>2, <1>3, <2>1 DEF Draws, SlotFree
  <2>3. entry'[r] # "free"
    BY <2>1, <2>2, EntryDrawn
  <2>4. ~Placed(place, r)
    BY <2>1, RangesBefore
  <2>5. \A m \in DOMAIN uploads' : uploads'[m].range # r
    <3> SUFFICES ASSUME NEW m \in DOMAIN uploads', uploads'[m].range = r PROVE FALSE
      OBVIOUS
    <3>1. Due(place, uploads'[m])
      BY <1>1
    <3>2. WasQueued(r) \/ Placed(place, r)
      BY <3>1 DEF Due
    <3> QED
      BY <2>1, <2>4, <3>2 DEF WasQueued
  <2>6. ASSUME NEW s \in Slot, r \in retired'[s]
        PROVE  \E j \in 1 .. n + 1 : j >= k /\ inFlight'[j].slot = s
    <3>1. CASE s = frame
      BY <1>2, <1>4, <3>1
    <3>2. CASE s # frame
      BY <1>2, <1>3, <1>4, <2>1, <2>6, <3>2
    <3> QED
      BY <3>1, <3>2
  <2> QED
    BY <2>3, <2>5, <2>6
<1>6. ASSUME NEW r \in PoolId, Mentions(inFlight'[n + 1], r) PROVE Spared(n + 1, r)
  <2>1. r \in resident \/ \E p \in DOMAIN staged : r = staged[p].range
    <3>1. CASE \E d \in inFlight'[n + 1].draws : d.range = r
      BY <1>2, <3>1 DEF HereOf
    <3>2. CASE \E c \in inFlight'[n + 1].copies : c.to = r
      BY <1>2, <3>2 DEF CopiesOf
    <3> QED
      BY <1>6, <3>1, <3>2 DEF Mentions
  <2>2. entry[r] = "live" \/ (entry[r] = "free" /\ Placed(place, r))
    <3>1. CASE r \in resident
      BY <3>1, RangesBefore
    <3>2. CASE \E p \in DOMAIN staged : r = staged[p].range
      <4>1. WasQueued(r) \/ Placed(place, r)
        BY <1>1, <3>2 DEF Due
      <4> QED
        BY <4>1, RangesBefore DEF WasQueued
    <3> QED
      BY <2>1, <3>1, <3>2
  <2>3. entry'[r] # "free"
    BY <2>2, EntryDrawn, RangesBefore
  <2>4. \A m \in DOMAIN uploads' : uploads'[m].range # r
    BY <1>1, <2>1 DEF Due
  <2>5. \A s \in Slot : r \notin retired[s]
    BY <2>2 DEF PoolInv
  <2>6. \A s \in Slot : r \in retired'[s] => s = frame
    BY <1>3, <2>5
  <2>7. n + 1 >= n + 1
    BY <1>2
  <2> QED
    BY <1>2, <1>4, <2>3, <2>4, <2>6, <2>7
<1>7. ASSUME NEW k \in 1 .. n + 1, NEW r \in PoolId, Mentions(inFlight'[k], r) PROVE Spared(k, r)
  <2>1. CASE k = n + 1
    BY <1>6, <1>7, <2>1
  <2>2. CASE k \in 1 .. n
    <3>1. Mentions(inFlight[k], r)
      BY <1>2, <1>7, <2>2 DEF Mentions
    <3> QED
      BY <1>5, <2>2, <3>1
  <2>3. k = n + 1 \/ k \in 1 .. n
    BY <1>2
  <2> QED
    BY <2>1, <2>2, <2>3
<1> QED
  BY <1>2, <1>7 DEF MentionsInv, Mentions

\* What a range nobody copies to holds, and what is on its way to it, a draw leaves:
\* it rewrites the staging of a slot nothing in flight copies from.
LEMMA DrawLands ==
  ASSUME TypeOK, QueuesInv, SlotsInv, PoolInv, GpuInv, NEW place, Draws(place),
         NEW r, NEW h, NEW m \in Nat, NEW l \in Nat, m <= l, Lands(r, h, m),
         \A p \in DOMAIN StagedOf(place) : StagedOf(place)[p].range # r
  PROVE  Lands(r, h, l)'
<1> DEFINE staged == StagedOf(place)
           n == Len(inFlight)
           To(k) == {c \in inFlight'[k].copies : c.to = r /\ ~inFlight'[k].copied}
<1>1. /\ n \in Nat /\ DOMAIN inFlight = 1 .. n /\ DOMAIN inFlight' = 1 .. n + 1
      /\ \A k \in 1 .. n : inFlight'[k] = inFlight[k]
      /\ inFlight'[n + 1].copies = CopiesOf(staged)
  BY FrameDrawn
<1>2. \A c \in CopiesOf(staged) : c.to # r
  BY DEF CopiesOf
<1>3. /\ frame \in Slot /\ content' = content
      /\ \A s \in Slot : s # frame => staging'[s] = staging[s]
      /\ \A k \in 1 .. n : inFlight[k].slot # frame
  BY <1>1 DEF TypeOK, GpuTyped, Draws, SlotFree
<1>4. \A k \in 1 .. n : inFlight[k].slot \in Slot
  <2> DEFINE Frame == [slot : Slot, copies : SUBSET Copy, copied : BOOLEAN,
                       draws : SUBSET [mesh : Handle, range : PoolId]]
  <2>1. inFlight \in Seq(Frame) /\ \A f \in Frame : f.slot \in Slot
    BY DEF TypeOK, GpuTyped
  <2> HIDE DEF Frame
  <2>2. \A k \in 1 .. n : inFlight[k] \in Frame
    BY <1>1, <2>1
  <2> QED
    BY <2>1, <2>2
<1> HIDE DEF staged, n
<1>5. To(n + 1) = {} /\ \A k \in 1 .. n : To(k) = CopiesTo(k, r)
  BY <1>1, <1>2 DEF CopiesTo
<1>6. /\ \A k \in 1 .. n : \A c \in CopiesTo(k, r) :
           k <= m /\ staging[inFlight[k].slot][c.from] = h
      /\ content[r] = h \/ \E k \in 1 .. n : CopiesTo(k, r) # {}
  BY <1>1 DEF Lands
<1>7. \A k \in 1 .. n + 1 : k \in 1 .. n \/ k = n + 1
  BY <1>1
<1> HIDE DEF To
<1>8. ASSUME NEW k \in 1 .. n + 1, NEW c \in To(k)
      PROVE  k <= l /\ staging'[inFlight'[k].slot][c.from] = h
  <2>1. k \in 1 .. n /\ c \in CopiesTo(k, r)
    BY <1>5, <1>7, <1>8
  <2>2. k <= m /\ staging[inFlight[k].slot][c.from] = h
    BY <1>6, <2>1
  <2>3. staging'[inFlight'[k].slot] = staging[inFlight[k].slot]
    BY <1>1, <1>3, <1>4, <2>1
  <2> QED
    BY <2>1, <2>2, <2>3
<1>9. content'[r] = h \/ \E k \in 1 .. n + 1 : To(k) # {}
  <2>1. 1 .. n \subseteq 1 .. n + 1
    BY <1>1
  <2> QED
    BY <1>3, <1>5, <1>6, <2>1
<1> QED
  BY <1>1, <1>8, <1>9 DEF Lands, CopiesTo, To

\* After a draw, what is resident for a slot of the renderer is there or on its way
\* with the frames up to this one.
LEMMA ResidentLands ==
  ASSUME TypeOK, QueuesInv, SlotsInv, PoolInv, GpuInv, NEW place, Draws(place),
         NEW i \in Index, slots'[i].taken, slots'[i].range \in HereOf(place)
  PROVE  Lands(slots[i].range, Held(i), Len(inFlight))'
<1> DEFINE staged == StagedOf(place)
<1>0. PICK n, r, h :
        /\ n = Len(inFlight) /\ r = slots'[i].range
        /\ h = [index |-> i, generation |-> slots'[i].generation]
  OBVIOUS
<1>1. /\ n \in Nat /\ DOMAIN inFlight = 1 .. n /\ DOMAIN inFlight' = 1 .. n + 1
      /\ \A k \in 1 .. n : inFlight'[k] = inFlight[k]
      /\ inFlight'[n + 1].slot = frame /\ inFlight'[n + 1].copies = CopiesOf(staged)
      /\ inFlight'[n + 1].copied <=> inFlight'[n + 1].copies = {}
      /\ Len(inFlight') = n + 1
  BY <1>0, FrameDrawn
<1>2. /\ staged \in Seq(Upload) /\ Len(staged) <= Budget /\ Apart(staged)
      /\ \A p \in DOMAIN staged : Due(place, staged[p])
  BY DrawnUploads
<1>3. /\ r \in resident \/ r \in {staged[p].range : p \in DOMAIN staged}
      /\ r \notin Releasing
  BY <1>0 DEF HereOf
<1>4. CASE r \in resident
  <2>1. r \in PoolId /\ entry[r] = "live" /\ ~Placed(place, r)
    BY <1>4, RangesBefore
  <2>2. Occupies(i, r)' /\ ~ \E k \in DOMAIN place : ready[k].mesh.index = i /\ place[k] = r
    BY <1>0, <2>1 DEF Placed, Occupies
  <2>3. Occupies(i, r) /\ Held(i) \notin released
    BY <2>2, Occupants
  <2>4. slots'[i] = slots[i]
    BY <2>3, SlotsDrawn DEF Occupies
  <2>5. Lands(r, h, n)
    BY <1>0, <1>4, <2>3, <2>4 DEF GpuInv, LandsInv, Held, Occupies
  <2>6. \A p \in DOMAIN staged : staged[p].range # r
    BY <1>2, <1>4 DEF Due
  <2>7. n <= n + 1 /\ n + 1 \in Nat
    BY <1>1
  <2> HIDE DEF staged
  <2>8. Lands(r, h, n + 1)'
    BY <1>1, <2>5, <2>6, <2>7, DrawLands DEF staged
  <2> QED
    BY <1>0, <1>1, <2>8 DEF Held
<1>5. CASE r \notin resident
  <2>1. PICK p \in DOMAIN staged : r = staged[p].range
    BY <1>3, <1>5
  <2>2. Due(place, staged[p])
    BY <1>2
  <2>3. staged[p].mesh = h /\ r \in PoolId
    <3>0. PICK g : g = staged[p].mesh
      OBVIOUS
    <3>1. /\ g.index \in Index /\ staged[p] \in Upload
          /\ slots'[g.index] = [generation |-> g.generation, range |-> r, taken |-> TRUE]
      BY <1>3, <2>1, <2>2, <3>0 DEF Due
    <3>2. Occupies(i, r)' /\ Occupies(g.index, r)' /\ r \in PoolId
      BY <1>0, <2>1, <3>1 DEF Occupies, Upload
    <3>3. g.index = i
      BY <3>1, <3>2, DrawKeepsPool DEF PoolInv, Occupies
    <3>4. g \in Handle
      BY <3>0, <3>1 DEF Upload
    <3>5. g.generation = slots'[i].generation
      BY <3>1, <3>3
    <3> QED
      BY <1>0, <3>0, <3>2, <3>3, <3>4, <3>5 DEF Handle
  <2> DEFINE c == [from |-> p, to |-> r]
             To(k) == {d \in inFlight'[k].copies : d.to = r /\ ~inFlight'[k].copied}
  <2>4. c \in CopiesOf(staged) /\ p \in Position
    <3>1. p \in Position
      BY <1>2, BudgetAssumption DEF Position
    <3> HIDE DEF staged
    <3> QED
      BY <2>1, <3>1 DEF CopiesOf
  <2>5. \A d \in CopiesOf(staged) : d.to = r => d = c
    <3> HIDE DEF staged
    <3> QED
      BY <1>2, <2>1 DEF CopiesOf, Apart
  <2>6. staging'[frame][p] = h
    <3>1. staging' = [staging EXCEPT ![frame] = Rewritten(staging[frame], staged)]
      BY DEF Draws
    <3>2. staging'[frame] = Rewritten(staging[frame], staged)
      BY <3>1 DEF TypeOK, GpuTyped
    <3> HIDE DEF staged
    <3> QED
      BY <2>3, <2>4, <3>2 DEF Rewritten
  <2>7. \A k \in 1 .. n : To(k) = {}
    <3>1. \A k \in 1 .. n : ~Mentions(inFlight[k], r)
      BY <1>1, <2>4, DrawKeepsCopies
    <3> QED
      BY <1>1, <3>1 DEF Mentions
  <2>8. To(n + 1) = {c}
    <3> HIDE DEF staged
    <3> QED
      BY <1>1, <2>4, <2>5
  <2>9. \A k \in 1 .. n + 1 : k <= n + 1 /\ (k \in 1 .. n \/ k = n + 1)
    BY <1>1
  <2>10. n + 1 \in 1 .. n + 1
    BY <1>1
  <2> HIDE DEF To, staged
  <2>11. /\ \A k \in 1 .. n + 1 : \A d \in To(k) :
              k <= n + 1 /\ staging'[inFlight'[k].slot][d.from] = h
         /\ \E k \in 1 .. n + 1 : To(k) # {}
    <3>1. ASSUME NEW d \in To(n + 1) PROVE staging'[inFlight'[n + 1].slot][d.from] = h
      BY <1>1, <2>6, <2>8
    <3> QED
      BY <2>7, <2>8, <2>9, <2>10, <3>1
  <2>12. Lands(r, h, n + 1)'
    BY <1>1, <2>11 DEF Lands, CopiesTo, To
  <2> QED
    BY <1>0, <1>1, <2>12 DEF Held
<1> QED
  BY <1>4, <1>5

LEMMA DrawKeepsGpu ==
  ASSUME TypeOK, QueuesInv, SlotsInv, PoolInv, GpuInv, NEW place, Draws(place)
  PROVE  GpuInv'
<1> DEFINE staged == StagedOf(place)
<1>0. PICK n : n = Len(inFlight)
  OBVIOUS
<1>1. /\ n \in Nat /\ DOMAIN inFlight = 1 .. n /\ DOMAIN inFlight' = 1 .. n + 1
      /\ Len(inFlight') = n + 1
      /\ \A k \in 1 .. n : inFlight'[k] = inFlight[k]
      /\ \A d \in inFlight'[n + 1].draws :
           /\ d.mesh.index \in Index /\ Holds(slots', d.mesh)
           /\ d.mesh = [index |-> d.mesh.index, generation |-> d.mesh.generation]
           /\ d.range = slots'[d.mesh.index].range /\ d.range \in HereOf(place)
  BY <1>0, FrameDrawn
<1>2. /\ CopiesInv'
      /\ \A c \in CopiesOf(staged) : \A k \in DOMAIN inFlight : ~Mentions(inFlight[k], c.to)
  BY DrawKeepsCopies
<1>3. ASSUME NEW i \in Index, slots'[i].taken, slots'[i].range \in HereOf(place)
      PROVE  Lands(slots[i].range, Held(i), Len(inFlight))'
  BY <1>3, ResidentLands
<1>4. \A p \in DOMAIN staged : \E c \in CopiesOf(staged) : c.to = staged[p].range
  <2> SUFFICES ASSUME NEW p \in DOMAIN staged
               PROVE  \E c \in CopiesOf(staged) : c.to = staged[p].range
    OBVIOUS
  <2> DEFINE c == [from |-> p, to |-> staged[p].range]
  <2>1. c \in CopiesOf(staged)
    BY DEF CopiesOf
  <2>2. c.to = staged[p].range
    OBVIOUS
  <2> HIDE DEF c, staged
  <2> QED
    BY <2>1, <2>2
<1> HIDE DEF staged
<1>5. ASSUME NEW k \in 1 .. n, NEW d \in inFlight[k].draws
      PROVE  Lands(d.range, d.mesh, k)'
  <2>1. Lands(d.range, d.mesh, k)
    BY <1>1 DEF GpuInv, LandsInv
  <2>2. \A p \in DOMAIN staged : staged[p].range # d.range
    <3> SUFFICES ASSUME NEW p \in DOMAIN staged, staged[p].range = d.range PROVE FALSE
      OBVIOUS
    <3>1. PICK c \in CopiesOf(staged) : c.to = d.range
      BY <1>4
    <3>2. Mentions(inFlight[k], d.range)
      BY DEF Mentions
    <3> QED
      BY <1>1, <1>2, <3>1, <3>2 DEF staged
  <2>3. k \in Nat /\ k <= k
    BY <1>1
  <2> QED
    BY <2>1, <2>2, <2>3, DrawLands DEF staged
<1>6. ASSUME NEW d \in inFlight'[n + 1].draws
      PROVE  Lands(d.range, d.mesh, n + 1)'
  <2>1. PICK i \in Index : /\ slots'[i].taken /\ slots'[i].generation = d.mesh.generation
                           /\ d.mesh = [index |-> i, generation |-> slots'[i].generation]
                           /\ d.range = slots'[i].range /\ d.range \in HereOf(place)
    BY <1>1 DEF Holds
  <2>2. Lands(slots[i].range, Held(i), Len(inFlight))'
    BY <1>3, <2>1
  <2> QED
    BY <1>1, <2>1, <2>2 DEF Held
<1>7. \A k \in 1 .. n + 1 : k \in 1 .. n \/ k = n + 1
  BY <1>1
<1>8. resident' = HereOf(place)
  BY DEF Draws
<1>9. LandsInv'
  <2>1. ASSUME NEW k \in 1 .. n + 1, NEW d \in inFlight'[k].draws
        PROVE  Lands(d.range, d.mesh, k)'
    BY <1>1, <1>5, <1>6, <1>7
  <2> QED
    BY <1>1, <1>3, <1>8, <2>1 DEF LandsInv
<1> QED
  BY <1>2, <1>9, DrawKeepsMentions DEF GpuInv

-----------------------------------------------------------------------------
(* The GPU's steps *)

LEMMA InFlightTyped ==
  ASSUME TypeOK
  PROVE  \A k \in DOMAIN inFlight :
           /\ inFlight[k].slot \in Slot /\ inFlight[k].copies \subseteq Copy
           /\ inFlight[k].copied \in BOOLEAN
           /\ inFlight[k].draws \subseteq [mesh : Handle, range : PoolId]
           /\ inFlight[k] = [slot |-> inFlight[k].slot, copies |-> inFlight[k].copies,
                             copied |-> inFlight[k].copied, draws |-> inFlight[k].draws]
<1> DEFINE Frame == [slot : Slot, copies : SUBSET Copy, copied : BOOLEAN,
                     draws : SUBSET [mesh : Handle, range : PoolId]]
<1>1. inFlight \in Seq(Frame)
  BY DEF TypeOK, GpuTyped
<1>2. \A f \in Frame :
        /\ f.slot \in Slot /\ f.copies \subseteq Copy /\ f.copied \in BOOLEAN
        /\ f.draws \subseteq [mesh : Handle, range : PoolId]
        /\ f = [slot |-> f.slot, copies |-> f.copies, copied |-> f.copied, draws |-> f.draws]
  OBVIOUS
<1> HIDE DEF Frame
<1>3. \A k \in DOMAIN inFlight : inFlight[k] \in Frame
  BY <1>1
<1> QED
  BY <1>2, <1>3

\* A frame's copies land what they bring, and nothing else changes.
LEMMA CopyKeeps ==
  ASSUME TypeOK, GpuInv, NEW k \in DOMAIN inFlight, GpuCopy(k)
  PROVE  GpuTyped' /\ GpuInv'
<1> DEFINE f == inFlight[k]
           Frame == [slot : Slot, copies : SUBSET Copy, copied : BOOLEAN,
                     draws : SUBSET [mesh : Handle, range : PoolId]]
<1>1. /\ f.slot \in Slot /\ f.copies \subseteq Copy /\ ~f.copied
      /\ inFlight' = [inFlight EXCEPT ![k].copied = TRUE] /\ content' = Copied(f)
      /\ UNCHANGED <<assetVars, poolVars, staging, frame>>
  BY InFlightTyped DEF GpuCopy
<1>2. inFlight' \in Seq(Frame) /\ DOMAIN inFlight' = DOMAIN inFlight /\ Len(inFlight') = Len(inFlight)
  <2>1. [f EXCEPT !.copied = TRUE] \in Frame
    <3>1. inFlight \in Seq(Frame)
      BY DEF TypeOK, GpuTyped
    <3>2. f \in Frame
      <4> HIDE DEF Frame
      <4> QED
        BY <3>1
    <3> HIDE DEF f
    <3> QED
      BY <3>2
  <2>2. inFlight \in Seq(Frame) /\ inFlight' = [inFlight EXCEPT ![k] = [f EXCEPT !.copied = TRUE]]
    BY <1>1 DEF TypeOK, GpuTyped
  <2> HIDE DEF Frame, f
  <2> QED
    BY <2>1, <2>2
<1>3. \A j \in DOMAIN inFlight :
        /\ inFlight'[j].slot = inFlight[j].slot /\ inFlight'[j].copies = inFlight[j].copies
        /\ inFlight'[j].draws = inFlight[j].draws
        /\ inFlight'[j].copied = (inFlight[j].copied \/ j = k)
  <2> SUFFICES ASSUME NEW j \in DOMAIN inFlight
               PROVE  /\ inFlight'[j].slot = inFlight[j].slot
                      /\ inFlight'[j].copies = inFlight[j].copies
                      /\ inFlight'[j].draws = inFlight[j].draws
                      /\ inFlight'[j].copied = (inFlight[j].copied \/ j = k)
    OBVIOUS
  <2>1. inFlight[j].copied \in BOOLEAN
        /\ inFlight[j] = [slot |-> inFlight[j].slot, copies |-> inFlight[j].copies,
                          copied |-> inFlight[j].copied, draws |-> inFlight[j].draws]
    BY InFlightTyped
  <2>2. inFlight'[j] = IF j = k THEN [inFlight[j] EXCEPT !.copied = TRUE] ELSE inFlight[j]
    BY <1>1
  <2> DEFINE g == inFlight[j]
  <2>3. inFlight'[j] = [slot |-> g.slot, copies |-> g.copies,
                        copied |-> (g.copied \/ j = k), draws |-> g.draws]
    <3> HIDE DEF g
    <3>1. CASE j = k
      BY <2>1, <2>2, <3>1 DEF g
    <3>2. CASE j # k
      BY <2>1, <2>2, <3>2 DEF g
    <3> QED
      BY <3>1, <3>2
  <2> QED
    BY <2>3
<1>4. \A c \in f.copies : staging[f.slot][c.from] \in Handle \cup {None} /\ c.to \in PoolId
  BY <1>1 DEF Copy, TypeOK, GpuTyped
<1>5. content' \in [PoolId -> Handle \cup {None}]
  <2> SUFFICES ASSUME NEW r \in PoolId PROVE Copied(f)[r] \in Handle \cup {None}
    BY <1>1 DEF Copied
  <2>1. CASE \E c \in f.copies : c.to = r
    <3> DEFINE c == CHOOSE d \in f.copies : d.to = r
    <3>1. c \in f.copies
      BY <2>1
    <3>2. Copied(f)[r] = staging[f.slot][c.from]
      BY <2>1 DEF Copied
    <3> HIDE DEF c
    <3> QED
      BY <1>4, <3>1, <3>2
  <2>2. CASE ~ \E c \in f.copies : c.to = r
    <3>1. content[r] \in Handle \cup {None}
      BY DEF TypeOK, GpuTyped
    <3> QED
      BY <2>2, <3>1 DEF Copied
  <2> QED
    BY <2>1, <2>2
<1>6. GpuTyped'
  BY <1>1, <1>2, <1>5 DEF TypeOK, GpuTyped
<1>7. MentionsInv' /\ CopiesInv'
  BY <1>1, <1>2, <1>3 DEF GpuInv, MentionsInv, CopiesInv, Mentions, poolVars
<1> DEFINE To(j, r) == {c \in inFlight'[j].copies : c.to = r /\ ~inFlight'[j].copied}
<1>8. ASSUME NEW r \in PoolId, NEW h, NEW n, Lands(r, h, n) PROVE Lands(r, h, n)'
  <2>1. /\ To(k, r) = {}
        /\ \A j \in DOMAIN inFlight : j # k => To(j, r) = CopiesTo(j, r)
    BY <1>3 DEF CopiesTo
  <2>2. CopiesTo(k, r) = {c \in f.copies : c.to = r}
    BY <1>1 DEF CopiesTo
  <2>3. \A c \in CopiesTo(k, r) : staging[f.slot][c.from] = h
    BY <1>8 DEF Lands
  <2>4. ASSUME CopiesTo(k, r) # {} PROVE content'[r] = h
    <3> DEFINE c == CHOOSE d \in f.copies : d.to = r
    <3>1. c \in f.copies /\ c.to = r
      BY <2>2, <2>4
    <3>2. content'[r] = staging[f.slot][c.from]
      BY <1>1, <3>1 DEF Copied
    <3> HIDE DEF c
    <3> QED
      BY <2>2, <2>3, <3>1, <3>2
  <2>5. ASSUME CopiesTo(k, r) = {} PROVE content'[r] = content[r]
    BY <1>1, <2>2, <2>5 DEF Copied
  <2> HIDE DEF To
  <2>6. \A j \in DOMAIN inFlight : \A c \in To(j, r) :
          j <= n /\ staging[inFlight[j].slot][c.from] = h
    BY <1>8, <2>1 DEF Lands
  <2>7. content'[r] = h \/ \E j \in DOMAIN inFlight : To(j, r) # {}
    BY <1>8, <2>1, <2>4, <2>5 DEF Lands
  <2> QED
    BY <1>1, <1>2, <1>3, <2>6, <2>7 DEF Lands, CopiesTo, To
<1>9. LandsInv'
  <2>1. ASSUME NEW j \in DOMAIN inFlight, NEW d \in inFlight[j].draws
        PROVE  Lands(d.range, d.mesh, j)'
    BY <1>8, InFlightTyped DEF GpuInv, LandsInv
  <2>2. ASSUME NEW i \in Index, slots[i].taken, slots[i].range \in resident
        PROVE  Lands(slots[i].range, Held(i), Len(inFlight))'
    <3>1. PICK n, r, h : n = Len(inFlight) /\ r = slots[i].range /\ h = Held(i)
      OBVIOUS
    <3>2. r \in PoolId /\ Lands(r, h, n)
      BY <2>2, <3>1 DEF TypeOK, PoolTyped, GpuInv, LandsInv
    <3>3. Lands(r, h, n)'
      BY <1>8, <3>2
    <3> QED
      BY <1>1, <1>2, <3>1, <3>3 DEF Held, poolVars
  <2> QED
    BY <1>1, <1>2, <1>3, <2>1, <2>2 DEF LandsInv, poolVars
<1> QED
  BY <1>6, <1>7, <1>9 DEF GpuInv

\* The oldest frame is done, its copies run.
LEMMA FinishKeeps ==
  ASSUME TypeOK, GpuInv, GpuFinish
  PROVE  GpuTyped' /\ GpuInv'
<1> DEFINE Frame == [slot : Slot, copies : SUBSET Copy, copied : BOOLEAN,
                     draws : SUBSET [mesh : Handle, range : PoolId]]
<1>0. PICK n : n = Len(inFlight)
  OBVIOUS
<1>1. /\ inFlight \in Seq(Frame) /\ inFlight # <<>>
      /\ inFlight' = Tail(inFlight) /\ Head(inFlight).copied
      /\ UNCHANGED <<assetVars, poolVars, staging, frame, content>>
  BY DEF TypeOK, GpuTyped, GpuFinish
<1> HIDE DEF Frame
<1>2. /\ n \in Nat \ {0} /\ DOMAIN inFlight = 1 .. n /\ DOMAIN inFlight' = 1 .. n - 1
      /\ Len(inFlight') = n - 1 /\ inFlight' \in Seq(Frame)
      /\ \A j \in 1 .. n - 1 : inFlight'[j] = inFlight[j + 1]
      /\ inFlight[1].copied
  BY <1>0, <1>1, HeadTailProperties, EmptySeq
<1>3. GpuTyped'
  BY <1>1, <1>2 DEF TypeOK, GpuTyped, Frame
<1>4. /\ \A j \in 1 .. n - 1 : j + 1 \in 1 .. n
      /\ \A j \in 1 .. n : j = 1 \/ j - 1 \in 1 .. n - 1
      /\ \A j \in 1 .. n - 1 : inFlight'[j] = inFlight[j + 1]
  BY <1>2
<1>5. ASSUME NEW j \in 1 .. n - 1, NEW r \in PoolId, Mentions(inFlight[j + 1], r)
      PROVE  /\ entry[r] # "free"
             /\ \A m \in DOMAIN uploads : uploads[m].range # r
             /\ \A s \in Slot : r \in retired[s] =>
                  \E k \in 1 .. n - 1 : k >= j /\ inFlight'[k].slot = s
  <2>1. /\ entry[r] # "free"
        /\ \A m \in DOMAIN uploads : uploads[m].range # r
        /\ \A s \in Slot : r \in retired[s] =>
             \E k \in 1 .. n : k >= j + 1 /\ inFlight[k].slot = s
    BY <1>2, <1>4, <1>5 DEF GpuInv, MentionsInv
  <2>2. ASSUME NEW k \in 1 .. n, k >= j + 1
        PROVE  k - 1 \in 1 .. n - 1 /\ k - 1 >= j /\ inFlight'[k - 1] = inFlight[k]
    <3>1. k - 1 \in 1 .. n - 1 /\ k - 1 >= j /\ (k - 1) + 1 = k
      BY <1>2, <2>2
    <3> QED
      BY <1>4, <3>1
  <2> QED
    BY <2>1, <2>2
<1>6. MentionsInv'
  <2>1. ASSUME NEW j \in 1 .. n - 1, NEW r \in PoolId, Mentions(inFlight'[j], r)
        PROVE  /\ entry[r] # "free"
               /\ \A m \in DOMAIN uploads : uploads[m].range # r
               /\ \A s \in Slot : r \in retired[s] =>
                    \E k \in 1 .. n - 1 : k >= j /\ inFlight'[k].slot = s
    <3>1. Mentions(inFlight[j + 1], r)
      BY <1>4, <2>1
    <3> QED
      BY <1>5, <3>1
  <2>2. entry' = entry /\ uploads' = uploads /\ retired' = retired
    BY <1>1 DEF poolVars
  <2>3. \A j \in 1 .. n - 1 : \A r \in PoolId : Mentions(inFlight'[j], r) =>
          /\ entry'[r] # "free"
          /\ \A m \in DOMAIN uploads' : uploads'[m].range # r
          /\ \A s \in Slot : r \in retired'[s] =>
               \E k \in 1 .. n - 1 : k >= j /\ inFlight'[k].slot = s
    BY <2>1, <2>2
  <2> QED
    BY <1>2, <2>3 DEF MentionsInv, Mentions
<1>7. CopiesInv'
  <2>1. \A j, k \in 1 .. n - 1 : j < k => \A c \in inFlight[k + 1].copies : ~Mentions(inFlight[j + 1], c.to)
    <3>1. \A j, k \in 1 .. n - 1 : j < k => j + 1 < k + 1
      BY <1>2
    <3> QED
      BY <1>2, <1>4, <3>1 DEF GpuInv, CopiesInv
  <2> QED
    BY <1>2, <2>1 DEF CopiesInv, Mentions
<1> DEFINE To(j, r) == {c \in inFlight'[j].copies : c.to = r /\ ~inFlight'[j].copied}
<1>8. ASSUME NEW r, NEW h, NEW m \in Nat, Lands(r, h, m + 1) PROVE Lands(r, h, m)'
  <2>1. CopiesTo(1, r) = {} /\ \A j \in 1 .. n - 1 : To(j, r) = CopiesTo(j + 1, r)
    BY <1>2 DEF CopiesTo
  <2> HIDE DEF To
  <2>2. \A j \in 1 .. n - 1 : \A c \in To(j, r) :
          j <= m /\ staging[inFlight'[j].slot][c.from] = h
    <3> SUFFICES ASSUME NEW j \in 1 .. n - 1, NEW c \in To(j, r)
                 PROVE  j <= m /\ staging[inFlight'[j].slot][c.from] = h
      OBVIOUS
    <3>1. j + 1 \in 1 .. n /\ c \in CopiesTo(j + 1, r) /\ inFlight'[j] = inFlight[j + 1]
      BY <1>4, <2>1
    <3>2. j + 1 <= m + 1 /\ staging[inFlight[j + 1].slot][c.from] = h
      BY <1>2, <1>8, <3>1 DEF Lands
    <3> QED
      BY <3>1, <3>2
  <2>3. ASSUME NEW j \in 1 .. n, CopiesTo(j, r) # {} PROVE \E k \in 1 .. n - 1 : To(k, r) # {}
    <3>1. j - 1 \in 1 .. n - 1 /\ (j - 1) + 1 = j
      BY <1>4, <2>1, <2>3
    <3> QED
      BY <2>1, <2>3, <3>1
  <2>4. content[r] = h \/ \E k \in 1 .. n - 1 : To(k, r) # {}
    BY <1>2, <1>8, <2>3 DEF Lands
  <2> QED
    BY <1>1, <1>2, <2>2, <2>4 DEF Lands, CopiesTo, To
<1>9. LandsInv'
  <2>1. ASSUME NEW j \in 1 .. n - 1, NEW d \in inFlight'[j].draws
        PROVE  Lands(d.range, d.mesh, j)'
    <3>1. j \in Nat /\ Lands(d.range, d.mesh, j + 1)
      BY <1>2, <1>4 DEF GpuInv, LandsInv
    <3> QED
      BY <1>8, <3>1
  <2>2. ASSUME NEW i \in Index, slots[i].taken, slots[i].range \in resident
        PROVE  Lands(slots[i].range, Held(i), Len(inFlight))'
    <3>1. PICK r, h : r = slots[i].range /\ h = Held(i)
      OBVIOUS
    <3>2. n - 1 \in Nat /\ (n - 1) + 1 = n
      BY <1>2
    <3>3. Lands(r, h, (n - 1) + 1)
      BY <1>0, <2>2, <3>1, <3>2 DEF GpuInv, LandsInv
    <3>4. Lands(r, h, n - 1)'
      BY <1>8, <3>2, <3>3
    <3>5. slots' = slots
      BY <1>1 DEF poolVars
    <3> QED
      BY <1>2, <3>1, <3>4, <3>5 DEF Held
  <2> QED
    BY <1>1, <1>2, <2>1, <2>2 DEF LandsInv, poolVars
<1> QED
  BY <1>3, <1>6, <1>7, <1>9 DEF GpuInv

-----------------------------------------------------------------------------
(* The theorems *)

Inv == TypeOK /\ QueuesInv /\ SlotsInv /\ PoolInv /\ GpuInv

LEMMA InitInv == Init => Inv
<1> SUFFICES ASSUME Init PROVE Inv
  OBVIOUS
<1>1. /\ meshes = <<>> /\ free = <<>> /\ ready = <<>> /\ released = {}
      /\ slots = [i \in Index |-> [generation |-> 0, range |-> None, taken |-> FALSE]]
      /\ entry = [r \in PoolId |-> "free"]
      /\ resident = {} /\ uploads = <<>> /\ copies = {}
      /\ retired = [s \in Slot |-> {}]
      /\ staging = [s \in Slot |-> [p \in Position |-> None]]
      /\ content = [r \in PoolId |-> None]
      /\ frame = 0 /\ inFlight = <<>>
  BY DEF Init
<1>2. AssetsTyped
  BY <1>1, IndexAssumption, FS_CardinalityType DEF AssetsTyped, IsInjective
<1>3. PoolTyped
  <2>1. 0 \in 0 .. MaxGeneration
    BY IndexAssumption
  <2> QED
    BY <1>1, <2>1 DEF PoolTyped
<1>4. GpuTyped
  <2>1. 0 \in Slot
    BY BudgetAssumption DEF Slot
  <2> QED
    BY <1>1, <2>1 DEF GpuTyped
<1>5. QueuesInv
  BY <1>1 DEF QueuesInv
<1>6. SlotsInv
  BY <1>1 DEF SlotsInv, SlotsFollowAssets
<1>7. PoolInv
  BY <1>1 DEF PoolInv, Occupies
<1>8. GpuInv
  BY <1>1 DEF GpuInv, MentionsInv, CopiesInv, LandsInv
<1> QED
  BY <1>2, <1>3, <1>4, <1>5, <1>6, <1>7, <1>8 DEF Inv, TypeOK

\* What the manager does by itself is nothing to the pool or the GPU.
LEMMA PoolUntouched ==
  ASSUME PoolTyped, GpuTyped, PoolInv, GpuInv,
         UNCHANGED <<poolVars, staging, frame, gpuVars>>
  PROVE  PoolTyped' /\ GpuTyped' /\ PoolInv' /\ GpuInv'
<1>1. /\ slots' = slots /\ entry' = entry /\ resident' = resident /\ uploads' = uploads
      /\ copies' = copies /\ retired' = retired /\ staging' = staging /\ frame' = frame
      /\ content' = content /\ inFlight' = inFlight
  BY DEF poolVars, gpuVars
<1>2. PoolTyped' /\ GpuTyped'
  BY <1>1 DEF PoolTyped, GpuTyped
<1>3. PoolInv'
  BY <1>1 DEF PoolInv, Occupies, Holds
<1>4. MentionsInv' /\ CopiesInv'
  BY <1>1 DEF GpuInv, MentionsInv, CopiesInv, Mentions
<1>5. LandsInv'
  BY <1>1 DEF GpuInv, LandsInv, Lands, CopiesTo, Held
<1> QED
  BY <1>2, <1>3, <1>4, <1>5 DEF GpuInv

LEMMA StepInv == Inv /\ [Next]_vars => Inv'
<1> SUFFICES ASSUME Inv, [Next]_vars PROVE Inv'
  OBVIOUS
<1>0. TypeOK /\ QueuesInv /\ SlotsInv /\ PoolInv /\ GpuInv
  BY DEF Inv
<1>1. ASSUME NEW size \in Sizes, AddMesh(size) PROVE Inv'
  <2>1. AssetsTyped' /\ QueuesInv' /\ SlotsInv'
    BY <1>0, <1>1, AddFacts, AddKeeps DEF TypeOK
  <2>2. PoolTyped' /\ GpuTyped' /\ PoolInv' /\ GpuInv'
    BY <1>0, <1>1, PoolUntouched DEF AddMesh, TypeOK
  <2> QED
    BY <2>1, <2>2 DEF Inv, TypeOK
<1>2. ASSUME NEW h \in Issued, ReleaseMesh(h) PROVE Inv'
  <2>1. AssetsTyped' /\ QueuesInv' /\ SlotsInv'
    BY <1>0, <1>2, ReleaseFacts, ReleaseKeeps DEF TypeOK
  <2>2. PoolTyped' /\ GpuTyped' /\ PoolInv' /\ GpuInv'
    BY <1>0, <1>2, PoolUntouched DEF ReleaseMesh, TypeOK
  <2> QED
    BY <2>1, <2>2 DEF Inv, TypeOK
<1>3. ASSUME Draw PROVE Inv'
  <2>1. PICK place \in Placements : Draws(place)
    BY <1>3, DrawIs
  <2> QED
    BY <1>0, <2>1, DrawKeepsTypes, DrawKeepsSlots, DrawKeepsPool, DrawKeepsGpu DEF Inv
<1>4. ASSUME NEW k \in DOMAIN inFlight, GpuCopy(k) PROVE Inv'
  <2>1. GpuTyped' /\ GpuInv'
    BY <1>0, <1>4, CopyKeeps
  <2>2. UNCHANGED <<assetVars, poolVars, staging, frame>>
    BY <1>4 DEF GpuCopy
  <2>3. AssetsTyped' /\ PoolTyped' /\ QueuesInv' /\ SlotsInv' /\ PoolInv'
    BY <1>0, <2>2 DEF AssetsTyped, PoolTyped, TypeOK, QueuesInv, SlotsInv, SlotsFollowAssets,
       PoolInv, Occupies, Holds, Resolves, assetVars, poolVars
  <2> QED
    BY <2>1, <2>3 DEF Inv, TypeOK
<1>5. ASSUME GpuFinish PROVE Inv'
  <2>1. GpuTyped' /\ GpuInv'
    BY <1>0, <1>5, FinishKeeps
  <2>2. UNCHANGED <<assetVars, poolVars, staging, frame>>
    BY <1>5 DEF GpuFinish
  <2>3. AssetsTyped' /\ PoolTyped' /\ QueuesInv' /\ SlotsInv' /\ PoolInv'
    BY <1>0, <2>2 DEF AssetsTyped, PoolTyped, TypeOK, QueuesInv, SlotsInv, SlotsFollowAssets,
       PoolInv, Occupies, Holds, Resolves, assetVars, poolVars
  <2> QED
    BY <2>1, <2>3 DEF Inv, TypeOK
<1>6. ASSUME UNCHANGED vars PROVE Inv'
  <2>1. UNCHANGED <<poolVars, staging, frame, gpuVars>> /\ UNCHANGED assetVars
    BY <1>6 DEF vars
  <2>2. AssetsTyped' /\ QueuesInv' /\ SlotsInv'
    BY <1>0, <2>1 DEF AssetsTyped, TypeOK, QueuesInv, SlotsInv, SlotsFollowAssets,
       Holds, Resolves, assetVars, poolVars
  <2> QED
    BY <1>0, <2>1, <2>2, PoolUntouched DEF Inv, TypeOK
<1> QED
  BY <1>1, <1>2, <1>3, <1>4, <1>5, <1>6 DEF Next, AcquireOutOfDate

LEMMA Invariance == Spec => []Inv
BY InitInv, StepInv, PTL DEF Spec

LEMMA AtMostOne ==
  ASSUME NEW S, \A x, y \in S : x = y
  PROVE  Cardinality(S) = IF S = {} THEN 0 ELSE 1
<1>1. CASE S = {}
  BY <1>1, FS_EmptySet
<1>2. ASSUME NEW x \in S PROVE Cardinality(S) = 1
  <2>1. S = {x}
    OBVIOUS
  <2> QED
    BY <2>1, FS_Singleton
<1> QED
  BY <1>1, <1>2

\* The manager's slots, the renderer's and the pool's ranges agree: whatever is
\* added, released and drawn, and in whatever order, no range is lost or shared.
THEOREM BooksAgree == Spec => []HeldOnce
<1>1. Inv => HeldOnce
  <2> SUFFICES ASSUME Inv PROVE HeldOnce
    OBVIOUS
  <2>0. TypeOK /\ SlotsInv /\ PoolInv
    BY DEF Inv
  <2>1. ASSUME NEW r \in PoolId
        PROVE  Cardinality({i \in Index : slots[i].taken /\ slots[i].range = r})
                 = IF entry[r] = "live" THEN 1 ELSE 0
    <3> DEFINE S == {i \in Index : slots[i].taken /\ slots[i].range = r}
    <3>1. /\ \A i, j \in S : i = j
          /\ S = {} <=> entry[r] # "live"
      BY <2>0 DEF PoolInv, Occupies
    <3> HIDE DEF S
    <3>2. Cardinality(S) = IF entry[r] = "live" THEN 1 ELSE 0
      BY <3>1, AtMostOne
    <3> QED
      BY <3>2 DEF S
  <2>2. ASSUME NEW r \in PoolId
        PROVE  Cardinality({s \in Slot : r \in retired[s]})
                 = IF entry[r] = "retired" THEN 1 ELSE 0
    <3> DEFINE S == {s \in Slot : r \in retired[s]}
    <3>1. /\ \A s, t \in S : s = t
          /\ S = {} <=> entry[r] # "retired"
      BY <2>0 DEF PoolInv
    <3> HIDE DEF S
    <3>2. Cardinality(S) = IF entry[r] = "retired" THEN 1 ELSE 0
      BY <3>1, AtMostOne
    <3> QED
      BY <3>2 DEF S
  <2>3. ASSUME NEW r \in PoolId
        PROVE  Cardinality({k \in DOMAIN uploads : uploads[k].range = r})
                 <= IF entry[r] = "live" /\ r \notin resident THEN 1 ELSE 0
    <3> DEFINE S == {k \in DOMAIN uploads : uploads[k].range = r}
    <3>1. \A j, k \in S : j = k
      BY <2>0 DEF PoolInv
    <3>2. S # {} => entry[r] = "live" /\ r \notin resident
      <4> SUFFICES ASSUME NEW k \in S PROVE entry[r] = "live" /\ r \notin resident
        OBVIOUS
      <4>1. uploads[k].mesh.index \in Index
        <5>1. uploads \in Seq(Upload) /\ \A u \in Upload : u.mesh.index \in Index
          BY <2>0 DEF TypeOK, PoolTyped, Upload, Handle
        <5> QED
          BY <5>1, ElementOfSeq
      <4>2. Occupies(uploads[k].mesh.index, r) /\ r \notin resident
        BY <2>0 DEF PoolInv, Holds, Occupies
      <4> QED
        BY <2>0, <4>1, <4>2 DEF PoolInv
    <3> HIDE DEF S
    <3>3. Cardinality(S) <= IF entry[r] = "live" /\ r \notin resident THEN 1 ELSE 0
      BY <3>1, <3>2, AtMostOne
    <3> QED
      BY <3>3 DEF S
  <2>4. \A r \in resident : entry[r] = "live"
    BY <2>0 DEF PoolInv
  <2> QED
    BY <2>0, <2>1, <2>2, <2>3, <2>4 DEF HeldOnce, RangesAccounted, SlotsInv
<1> QED
  BY <1>1, Invariance, PTL

\* However far the GPU is behind, what a frame draws for a handle is its mesh until
\* the frame's fence, and no copy writes under it.
THEOREM DrawsWhatItMeans == Spec => []FramesDrawTheirMeshes
<1>1. Inv => FramesDrawTheirMeshes
  <2> SUFFICES ASSUME Inv PROVE FramesDrawTheirMeshes
    OBVIOUS
  <2>0. GpuInv /\ DOMAIN inFlight \subseteq Nat
        /\ \A k \in DOMAIN inFlight : \A j \in DOMAIN inFlight : j <= k => j \in 1 .. k
    BY DEF Inv, TypeOK, GpuTyped
  <2>1. ASSUME NEW k \in DOMAIN inFlight, Drawing(k), NEW d \in inFlight[k].draws
        PROVE  content[d.range] = d.mesh
    <3>1. Lands(d.range, d.mesh, k)
      BY <2>0 DEF GpuInv, LandsInv
    <3>2. \A j \in DOMAIN inFlight : CopiesTo(j, d.range) = {}
      BY <2>0, <2>1, <3>1 DEF Lands, CopiesTo, Drawing
    <3> QED
      BY <3>1, <3>2 DEF Lands
  <2>2. WritesAreUndrawn
    BY <2>0 DEF GpuInv, CopiesInv, Mentions, WritesAreUndrawn
  <2> QED
    BY <2>1, <2>2 DEF FramesDrawTheirMeshes, DrawsItsMesh
<1> QED
  BY <1>1, Invariance, PTL
=============================================================================
