---------------------------- MODULE MeshStreaming ---------------------------
(***************************************************************************)
(* A mesh's way from the AssetManager to the GPU and back: its slot and    *)
(* generation (assets/asset_manager), the Renderer's slot and the take of  *)
(* the queues (render/renderer), its range of the one vertex and index     *)
(* buffer and its upload (render/geometry_pool), the staging memory of the *)
(* frame (vulkan/staging), and the frames the GPU still has to run.        *)
(*                                                                         *)
(* The main thread is AddMesh, ReleaseMesh and the draws; the GPU runs     *)
(* beside it.  Renderer::draw is one step: it submits at its end, and what *)
(* the GPU finishes in its middle it could have finished before it.  A     *)
(* present that is out of date, and every other wait_idle, is a draw       *)
(* followed by the GPU's own steps.                                        *)
(***************************************************************************)
EXTENDS Integers, Sequences, FiniteSets, SequencesExt, FiniteSetsExt, Functions

CONSTANTS
  Index,            \* a bound on the AssetManager's mesh slots: 1..n
  MaxGeneration,    \* a bound on the generation of a slot
  PoolId,           \* the ids of the pool: a mesh's vertex and index ranges
  None,             \* what memory holds before anything is written to it
  Sizes,            \* the sizes of meshes, in units of staging
  Budget,           \* StagingArena::bytes_per_slot(), in those units
  FramesInFlight    \* kFramesInFlight

ASSUME IndexAssumption ==
  /\ IsFiniteSet(Index) /\ Index = 1 .. Cardinality(Index)
  /\ MaxGeneration \in Nat

ASSUME BudgetAssumption ==
  /\ IsFiniteSet(PoolId)
  /\ Budget \in Nat \ {0} /\ Sizes \subseteq Nat \ {0}
  /\ FramesInFlight \in Nat \ {0}

VARIABLES
  meshes,       \* AssetManager::meshes_: the generation of each slot
  free,         \* free_meshes_, a stack
  ready,        \* ready_meshes_
  released,     \* released_meshes_
  slots,        \* Renderer::meshes_
  entry,        \* GeometryPool::meshes_: free, live, or waiting in retired_
  resident,     \* the ids whose Range is resident
  uploads,      \* GeometryPool::uploads_
  copies,       \* GeometryPool::copies_
  retired,      \* GeometryPool::retired_
  staging,      \* the arena's memory, mesh by mesh from the slot's start
  content,      \* the buffers' memory, range by range: whose data is in it
  frame,        \* Renderer::frame_
  inFlight      \* the frames submitted and not finished, oldest first

assetVars == <<meshes, free, ready, released>>
poolVars == <<slots, entry, resident, uploads, copies, retired>>
gpuVars == <<content, inFlight>>
vars == <<assetVars, poolVars, staging, frame, gpuVars>>

Slot == 0 .. FramesInFlight - 1
Handle == [index : Index, generation : 0 .. MaxGeneration]
Position == 1 .. Budget

-----------------------------------------------------------------------------
(* std::erase_if and the loops that skip: of the first n elements of a       *)
(* sequence, those in a set, in their order.                                 *)

Kept(seq, set) ==
  LET kept[n \in 0 .. Len(seq)] ==
        IF n = 0 THEN <<>>
        ELSE IF seq[n] \in set THEN Append(kept[n - 1], seq[n])
        ELSE kept[n - 1]
  IN  kept

Keep(seq, set) == Kept(seq, set)[Len(seq)]

-----------------------------------------------------------------------------
(* Handles *)

\* resolve(): the slot is at the handle's generation.
Resolves(h) ==
  /\ h.index \in DOMAIN meshes
  /\ meshes[h.index] = h.generation

\* Every handle add_mesh has returned: a release bumps the generation of the
\* slot and the next add bumps it again.
Issued ==
  {h \in Handle : /\ h.index \in DOMAIN meshes
                  /\ h.generation <= meshes[h.index]
                  /\ h.generation % 2 = 0}

\* The slot take_assets or mesh_range finds for a handle.
Holds(ss, h) == ss[h.index].taken /\ ss[h.index].generation = h.generation

Init ==
  /\ meshes = <<>> /\ free = <<>> /\ ready = <<>> /\ released = {}
  /\ slots = [i \in Index |-> [generation |-> 0, range |-> None, taken |-> FALSE]]
  /\ entry = [r \in PoolId |-> "free"]
  /\ resident = {} /\ uploads = <<>> /\ copies = {}
  /\ retired = [s \in Slot |-> {}]
  /\ staging = [s \in Slot |-> [p \in Position |-> None]]
  /\ content = [r \in PoolId |-> None]
  /\ frame = 0 /\ inFlight = <<>>

-----------------------------------------------------------------------------
(* AssetManager *)

\* A released slot first, the last one released, one generation on.
NextHandle ==
  IF free # <<>>
  THEN [index |-> Last(free), generation |-> meshes[Last(free)] + 1]
  ELSE [index |-> Len(meshes) + 1, generation |-> 0]

AddMesh(size) ==
  LET h == NextHandle IN
  /\ h \in Handle
  /\ meshes' = IF free # <<>> THEN [meshes EXCEPT ![h.index] = h.generation]
                             ELSE Append(meshes, h.generation)
  /\ free' = IF free # <<>> THEN Front(free) ELSE free
  /\ ready' = Append(ready, [mesh |-> h, size |-> size])
  /\ UNCHANGED <<released, poolVars, staging, frame, gpuVars>>

Queued(h) == \E k \in DOMAIN ready : ready[k].mesh = h

\* release_mesh() of a handle that resolves; any other is ignored.
ReleaseMesh(h) ==
  /\ Resolves(h)
  /\ h.generation < MaxGeneration
  /\ ready' = Keep(ready, {q \in Range(ready) : q.mesh # h})
  /\ released' = IF Queued(h) THEN released ELSE released \cup {h}
  /\ meshes' = [meshes EXCEPT ![h.index] = h.generation + 1]
  /\ free' = Append(free, h.index)
  /\ UNCHANGED <<poolVars, staging, frame, gpuVars>>

-----------------------------------------------------------------------------
(* Renderer::take_assets: the releases, then the additions. *)

\* released_pool_ids_
Releasing == {slots[h.index].range : h \in {g \in released : Holds(slots, g)}}

MutantReleasesKeepSlots == slots

AfterReleases ==
  [i \in Index |->
    [slots[i] EXCEPT !.taken =
      @ /\ [index |-> i, generation |-> slots[i].generation] \notin released]]

\* What GeometryPool::add can allocate: what this frame releases, and what
\* stage() is about to free, is not yet among it.
Room == {r \in PoolId : entry[r] = "free"}

\* add() of each mesh in the queue, in order, while there is room; a mesh that
\* finds the pool full is logged and never draws.  Which range the virtual
\* blocks give is theirs to choose.
Placements ==
  Injection(1 .. Min({Len(ready), Cardinality(Room)}), Room)

AfterAdds(ss, place) ==
  [i \in Index |->
    IF \E k \in DOMAIN place : ready[k].mesh.index = i
    THEN LET k == CHOOSE n \in DOMAIN place : ready[n].mesh.index = i IN
         [generation |-> ready[k].mesh.generation, range |-> place[k], taken |-> TRUE]
    ELSE ss[i]]

AfterQueueing(place) ==
  uploads \o [k \in DOMAIN place |->
                [range |-> place[k], mesh |-> ready[k].mesh, size |-> ready[k].size]]

-----------------------------------------------------------------------------
(* GeometryPool::stage.  What the slot retired last time round is freed;     *)
(* then uploads are staged in order, while the slot's memory lasts.  A mesh  *)
(* larger than the whole of it is dropped, logged, and never draws.          *)

MutantExpiredUnfreed == {}

Expired == retired[frame]

Fits(u) == u.size <= Budget

\* What the first n uploads take of the slot's memory.
Used(us) ==
  LET used[n \in 0 .. Len(us)] ==
        IF n = 0 THEN 0
        ELSE IF Fits(us[n]) THEN used[n - 1] + us[n].size
        ELSE used[n - 1]
  IN  used

Done(us) == Max({n \in 0 .. Len(us) : Used(us)[n] <= Budget})

Staged(us) == Kept(us, {u \in Range(us) : Fits(u)})[Done(us)]

Unstaged(us) == SubSeq(us, Done(us) + 1, Len(us))

\* The arena is rewound, so what is staged lands over what was there.
Rewritten(memory, staged) ==
  [p \in Position |-> IF p \in DOMAIN staged THEN staged[p].mesh ELSE memory[p]]

\* A copy: from a position of the slot's memory to a range of the buffers.
CopiesOf(staged) ==
  {[from |-> p, to |-> staged[p].range] : p \in DOMAIN staged}

-----------------------------------------------------------------------------
(* Renderer::draw *)

\* vkWaitForFences(in_flight_[frame_])
SlotFree == \A k \in DOMAIN inFlight : inFlight[k].slot # frame

MutantAcquireLate ==
  /\ SlotFree
  /\ \E place \in Placements :
       LET us == AfterQueueing(place)
           staged == Staged(us)
       IN
       /\ ready' = <<>>
       /\ slots' = AfterAdds(slots, place)
       /\ entry' = [r \in PoolId |->
                      IF \E k \in DOMAIN place : place[k] = r THEN "live" ELSE entry[r]]
       /\ uploads' = Unstaged(us)
       /\ resident' = resident \cup {staged[p].range : p \in DOMAIN staged}
       /\ copies' = copies \cup CopiesOf(staged)
       /\ staging' = [staging EXCEPT ![frame] = Rewritten(@, staged)]
       /\ UNCHANGED <<meshes, free, released, retired, frame, gpuVars>>

\* The acquire is out of date: nothing is taken or staged, and the next draw
\* comes to the same slot.
AcquireOutOfDate ==
  /\ SlotFree
  /\ UNCHANGED vars

\* mesh_range() of a handle, and only if it is resident.
Drawn(ss, here) ==
  {[mesh |-> h, range |-> ss[h.index].range] :
     h \in {g \in Issued : Holds(ss, g) /\ ss[g.index].range \in here}}

\* The scene may still hold any handle it was ever given.
Draw ==
  /\ SlotFree
  /\ \E place \in Placements :
       LET ss == AfterAdds(AfterReleases, place)
           us == AfterQueueing(place)
           staged == Staged(us)
           gone == Releasing
           here == (resident \cup {staged[p].range : p \in DOMAIN staged}) \ gone
           recorded == copies \cup CopiesOf(staged)
       IN
       /\ ready' = <<>> /\ released' = {}
       /\ slots' = ss
       /\ entry' = [r \in PoolId |->
                      IF r \in gone THEN "retired"
                      ELSE IF r \in Expired THEN "free"
                      ELSE IF \E k \in DOMAIN place : place[k] = r THEN "live"
                      ELSE entry[r]]
       /\ uploads' = Keep(Unstaged(us), {u \in Range(us) : u.range \notin gone})
       /\ resident' = here
       /\ retired' = [retired EXCEPT ![frame] = gone]
       /\ staging' = [staging EXCEPT ![frame] = Rewritten(@, staged)]
       /\ inFlight' = Append(inFlight,
            [slot |-> frame, copies |-> recorded, copied |-> recorded = {},
             draws |-> Drawn(ss, here)])
       /\ copies' = {}
       /\ frame' = (frame + 1) % FramesInFlight
       /\ UNCHANGED <<meshes, free, content>>

-----------------------------------------------------------------------------
(* The GPU.  A frame's draws wait for its copies and every earlier one's     *)
(* (the barrier of GeometryPool::record); nothing holds its copies back      *)
(* while an earlier frame still draws, or copies.                            *)

Copied(f) ==
  [r \in PoolId |->
    IF \E c \in f.copies : c.to = r
    THEN staging[f.slot][(CHOOSE c \in f.copies : c.to = r).from]
    ELSE content[r]]

GpuCopy(k) ==
  /\ ~inFlight[k].copied
  /\ content' = Copied(inFlight[k])
  /\ inFlight' = [inFlight EXCEPT ![k].copied = TRUE]
  /\ UNCHANGED <<assetVars, poolVars, staging, frame>>

\* The oldest frame is done and its fence signals.
GpuFinish ==
  /\ inFlight # <<>> /\ Head(inFlight).copied
  /\ inFlight' = Tail(inFlight)
  /\ UNCHANGED <<assetVars, poolVars, staging, frame, content>>

Next ==
  \/ \E size \in Sizes : AddMesh(size)
  \/ \E h \in Issued : ReleaseMesh(h)
  \/ AcquireOutOfDate
  \/ Draw
  \/ \E k \in DOMAIN inFlight : GpuCopy(k)
  \/ GpuFinish

Spec == Init /\ [][Next]_vars

\* App::run draws every iteration and rebuilds an outdated swapchain; the GPU
\* does the work it is given.
Fairness ==
  /\ WF_vars(Draw)
  /\ WF_vars(\E k \in DOMAIN inFlight : GpuCopy(k))
  /\ WF_vars(GpuFinish)

FairSpec == Spec /\ Fairness

-----------------------------------------------------------------------------
(* Properties *)

Upload == [range : PoolId, mesh : Handle, size : Sizes]

Copy == [from : Position, to : PoolId]

\* Everything is of its type, and a slot of the AssetManager is on its free
\* list exactly while its generation is odd.
AssetsTyped ==
  /\ meshes \in Seq(0 .. MaxGeneration) /\ Len(meshes) <= Cardinality(Index)
  /\ free \in Seq(DOMAIN meshes) /\ IsInjective(free)
  /\ \A i \in DOMAIN meshes : i \in Range(free) <=> meshes[i] % 2 = 1
  /\ ready \in Seq([mesh : Handle, size : Sizes])
  /\ released \subseteq Handle

PoolTyped ==
  /\ slots \in [Index -> [generation : 0 .. MaxGeneration,
                          range : PoolId \cup {None}, taken : BOOLEAN]]
  /\ entry \in [PoolId -> {"free", "live", "retired"}]
  /\ resident \subseteq PoolId
  /\ uploads \in Seq(Upload)
  /\ copies \subseteq Copy
  /\ retired \in [Slot -> SUBSET PoolId]

GpuTyped ==
  /\ staging \in [Slot -> [Position -> Handle \cup {None}]]
  /\ content \in [PoolId -> Handle \cup {None}]
  /\ frame \in Slot
  /\ inFlight \in Seq([slot : Slot, copies : SUBSET Copy, copied : BOOLEAN,
                       draws : SUBSET [mesh : Handle, range : PoolId]])

TypeOK == AssetsTyped /\ PoolTyped /\ GpuTyped

Drawing(k) == \A j \in 1 .. k : inFlight[j].copied

\* What a frame draws for a handle is the mesh that handle was made for, from
\* the moment its draws may begin until its fence: the range is not handed to
\* another mesh under it, its data has landed, and the memory the data came
\* from was not rewound too early.
DrawsItsMesh ==
  \A k \in DOMAIN inFlight : Drawing(k) =>
    \A d \in inFlight[k].draws : content[d.range] = d.mesh

\* GeometryPool::record's barrier orders copies against later fetches only: no
\* copy still to run writes a range an earlier frame in flight draws.
WritesAreUndrawn ==
  \A j, k \in DOMAIN inFlight : j < k /\ ~inFlight[k].copied =>
    \A c \in inFlight[k].copies : \A d \in inFlight[j].draws : c.to # d.range

\* Both: neither the mesh nor its bytes change under a frame that draws them.
FramesDrawTheirMeshes == DrawsItsMesh /\ WritesAreUndrawn

\* No range of the pool is lost or shared: it is free, or one slot of the
\* renderer holds it, or it waits in one frame slot's retired list.  What is
\* queued for upload or resident is held, and never both.
RangesAccounted ==
  /\ \A r \in PoolId :
       /\ Cardinality({i \in Index : slots[i].taken /\ slots[i].range = r})
            = IF entry[r] = "live" THEN 1 ELSE 0
       /\ Cardinality({s \in Slot : r \in retired[s]})
            = IF entry[r] = "retired" THEN 1 ELSE 0
       /\ Cardinality({k \in DOMAIN uploads : uploads[k].range = r})
            <= IF entry[r] = "live" /\ r \notin resident THEN 1 ELSE 0
  /\ \A r \in resident : entry[r] = "live"

\* The renderer holds a mesh only while the AssetManager does, or until it
\* takes the release: a slot reused before that never resolves to the new mesh.
SlotsFollowAssets ==
  \A i \in Index : slots[i].taken =>
    LET h == [index |-> i, generation |-> slots[i].generation] IN
    (h \in released) <=> ~Resolves(h)

\* The books of the three that share a mesh, the manager's slots, the
\* renderer's and the pool's ranges, agree.
HeldOnce == TypeOK /\ RangesAccounted /\ SlotsFollowAssets

InFlightDraws(h) ==
  \E k \in DOMAIN inFlight : \E d \in inFlight[k].draws : d.mesh = h

Waiting(h) ==
  \E k \in DOMAIN uploads : uploads[k].mesh = h /\ Fits(uploads[k])

\* A mesh the pool took, and a frame's staging can hold, is drawn or released.
AcceptedMeshesDraw ==
  \A h \in Handle : Waiting(h) ~> (InFlightDraws(h) \/ ~Resolves(h))

\* A released mesh's range comes back to the pool.
RangesReturn ==
  \A r \in PoolId : entry[r] = "retired" ~> entry[r] = "free"

\* Neither an upload that must wait nor one that can never fit keeps meshes, or
\* the ranges of those that went, from coming through.
MeshesComeAndGo == AcceptedMeshesDraw /\ RangesReturn
=============================================================================
