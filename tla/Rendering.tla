----------------------------- MODULE Rendering ------------------------------
(***************************************************************************)
(* Frame after frame on the GPU: Renderer::draw, its two slots and their   *)
(* fences, what the renderer remembers from frame to frame, the rebuild of *)
(* its targets, the bindless set's handles (vulkan/bindless), and the UI's *)
(* textures that come and go with frames in flight (ui/imgui_vulkan).      *)
(*                                                                         *)
(* No resource's state says anything of another's, so a behaviour follows  *)
(* one, chosen at the start, through every frame's commands: what is drawn *)
(* and TAA vary where they bear on it, textures come where they do.        *)
(***************************************************************************)
EXTENDS FrameCommands, Integers, FiniteSetsExt

CONSTANTS
  Air,          \* the atmospheres there are
  UiTextures,   \* ImGui's list of textures: a sequence of names
  MaxHandles,   \* kMaxSampledImages
  Slots,        \* Renderer::kFramesInFlight
  Scenes        \* what frames there are to draw

AnyScene == [shadows : BOOLEAN, windows : BOOLEAN, lines : BOOLEAN, capture : BOOLEAN,
             air : Air \cup {NoAir}, inside : BOOLEAN]

ASSUME RenderingAssumption ==
  /\ Slots \in Nat \ {0} /\ MaxHandles \in Nat /\ NoAir \notin Air
  /\ UiTextures \in Seq(Range(UiTextures)) \ {<<>>} /\ IsInjective(UiTextures)
  /\ Range(UiTextures) \cap {"nobody", "material"} = {}
  /\ Scenes # {} /\ Scenes \subseteq {s \in AnyScene : s.inside => s.air # NoAir}

\* What is rendered to, or kept, under its own name; a level and the air that a
\* LUT holds have others.
Screen == {"gbuffer", "depth", "hdr", "debug", "history_0", "history_1"}
Buffers == {"clusters", "ambient", "histogram", "capture"}
Singles ==
  Screen \cup Buffers
  \cup {"shadow", "exposure", "transmittance", "multiscatter", "sky_view", "target", Ui}

ASSUME NamesAssumption ==
  /\ Range(Level) \cap (Singles \cup {"memory"}) = {}
  /\ Air \cap (ThisFrame \cup LastFrame) = {}

VARIABLES
  watch,        \* the resource followed
  resource,     \* its state
  taa,          \* taa_
  valid,        \* history_valid_
  write,        \* history_write_
  exposed,      \* exposure_written_
  lut,          \* lut_atmosphere_, which luts_built_ and rebuild_luts_ follow
  bindless,     \* the sampled images: whose a handle is, the free list, the next
  material,     \* the texture that streams in: its handle, 0 before, "left out"
  ui,           \* of each of ImGui's textures: its status, image and handle
  retired,      \* Slot::retired of the UI's backend
  frame,        \* frame_
  sampled       \* of each slot: what its last frame samples, done or not

rememberedVars == <<taa, valid, write, exposed, lut>>
textureVars == <<bindless, material, ui, retired>>
vars == <<watch, resource, rememberedVars, textureVars, frame, sampled>>

Slot == 0 .. Slots - 1

Resources == Singles \cup Range(Level)

Names == Range(UiTextures)
Watched == UiTextures[1]
None == <<"nobody", 0>>

Unused == [status |-> "none", times |-> 0, handle |-> 0]

Init ==
  /\ watch \in Resources
  /\ resource = CASE watch = "histogram" -> [Fresh("buffer") EXCEPT !.holds = "zeroed"]
                  [] watch \in Buffers \ {"histogram"} -> Fresh("buffer")
                  [] OTHER -> Fresh("undefined")
  /\ taa \in BOOLEAN /\ valid = FALSE /\ write = 0 /\ exposed = FALSE /\ lut = NoAir
  /\ bindless = [owner |-> [h \in 1 .. MaxHandles |-> None], free |-> <<>>, next |-> 1]
  /\ material = 0
  /\ ui = [t \in Names |-> Unused]
  /\ retired = [s \in Slot |-> <<>>]
  /\ frame = 0 /\ sampled = [s \in Slot |-> {}]

-----------------------------------------------------------------------------
(* Bindless handles *)

Exhausted(b) == b.free = <<>> /\ b.next > MaxHandles

NextHandle(b) == IF b.free # <<>> THEN Last(b.free) ELSE b.next

\* add_sampled_image: a handle that was given back first, the last one.
AddSampledImage(b, image) ==
  [owner |-> [b.owner EXCEPT ![NextHandle(b)] = image],
   free |-> IF b.free # <<>> THEN Front(b.free) ELSE b.free,
   next |-> IF b.free # <<>> THEN b.next ELSE b.next + 1]

\* release_sampled_image of one after the other, each image destroyed with it.
ReleaseSampledImages(b, handles) ==
  [owner |-> [h \in 1 .. MaxHandles |-> IF h \in Range(handles) THEN None ELSE b.owner[h]],
   free |-> b.free \o handles,
   next |-> b.next]

FreeRetired(b) == ReleaseSampledImages(b, retired[frame])

\* Renderer::stream_textures, of a texture within the budget.
StreamTexture(b) ==
  IF Exhausted(b) THEN [bindless |-> b, material |-> -1]
  ELSE [bindless |-> AddSampledImage(b, <<"material", 0>>), material |-> NextHandle(b)]

-----------------------------------------------------------------------------
(* The UI's textures *)

\* What ImGui wants of a texture, as the last frame left it.
Wants(t) ==
  CASE ui[t].status = "none"   -> {"nothing", "create"}
    [] ui[t].status = "wanted" -> {"create", "destroy"}
    [] OTHER                   -> {"nothing", "update", "destroy"}

Requests ==
  IF watch = Ui THEN {r \in [Names -> {"nothing", "create", "update", "destroy"}] :
                        \A t \in Names : r[t] \in Wants(t)}
  ELSE {[t \in Names |-> "nothing"]}

Image(t, texture) == <<t, texture.times>>

Dropped(textures, t) == [textures EXCEPT ![t].status = "none", ![t].handle = 0]

MutantDestroys(p, t) ==
  [textures |-> Dropped(p.textures, t),
   bindless |-> IF p.textures[t].handle = 0 THEN p.bindless
                ELSE ReleaseSampledImages(p.bindless, <<p.textures[t].handle>>),
   retires |-> p.retires]

\* Retired into this frame's slot, if it was ever made.
Destroys(p, t) ==
  [textures |-> Dropped(p.textures, t),
   bindless |-> p.bindless,
   retires |-> IF p.textures[t].handle = 0 THEN p.retires
               ELSE Append(p.retires, p.textures[t].handle)]

\* Without a handle it is wanted still, and made again at the next frame.
Creates(p, t) ==
  IF Exhausted(p.bindless)
  THEN [textures |-> [p.textures EXCEPT ![t].status = "wanted"],
        bindless |-> p.bindless,
        retires |-> p.retires]
  ELSE LET made == [status |-> "ok", times |-> 1 - p.textures[t].times,
                    handle |-> NextHandle(p.bindless)]
       IN [textures |-> [p.textures EXCEPT ![t] = made],
           bindless |-> AddSampledImage(p.bindless, Image(t, made)),
           retires |-> p.retires]

UpdateTexture(p, t, request) ==
  CASE request = "create"  -> Creates(p, t)
    [] request = "destroy" -> Destroys(p, t)
    [] OTHER               -> p

\* ImGuiVulkan::prepare: what this slot retired last time round is freed, then
\* the textures of the draw data are updated in order.
Prepare(b, requests) ==
  LET after[k \in 0 .. Len(UiTextures)] ==
        IF k = 0 THEN [bindless |-> FreeRetired(b), textures |-> ui, retires |-> <<>>]
        ELSE UpdateTexture(after[k - 1], UiTextures[k], requests[UiTextures[k]])
  IN  after[Len(UiTextures)]

-----------------------------------------------------------------------------
(* The frame *)

\* What was written by the last frame is the last frame's.
Older(r) ==
  [r EXCEPT !.holds = CASE @ = "now" -> "last" [] @ = "last" -> "older" [] OTHER -> @]

\* The resource as the frame's commands find it: of the swapchain's images, the
\* one acquired; the capture's buffer after the wait of the last capture.
Found(created) ==
  CASE watch = "target"          -> Acquired("colour")
    [] watch = "capture"         -> Settled(resource)
    [] watch = Ui /\ created     -> Fresh("undefined")
    [] OTHER                     -> Older(resource)

\* No scene makes a difference to the UI's texture.
Drawn == IF watch = Ui THEN {CHOOSE s \in Scenes : TRUE} ELSE Scenes

MayLand == material = 0 /\ watch \in Range(Level) \cup {Ui}

Samples(textures, handle) ==
  {[handle |-> textures[t].handle, image |-> Image(t, textures[t])] :
     t \in {u \in Names : textures[u].status = "ok"}}
  \cup (IF handle > 0 THEN {[handle |-> handle, image |-> <<"material", 0>>]} ELSE {})

\* upload() alternates the histories.
HistoryWritten == IF taa THEN 1 - write ELSE write

\* Renderer::draw, whatever becomes of its present: this slot's last frame is
\* waited for, and the others may run yet.
Draw(s, lands, requests) ==
  LET streamed == IF lands THEN StreamTexture(bindless)
                  ELSE [bindless |-> bindless, material |-> material]
      p == Prepare(streamed.bindless, requests)
      create == requests[Watched] = "create"
      created == create /\ p.textures[Watched].status = "ok"
      f == [taa |-> taa, shadows |-> s.shadows, windows |-> s.windows, lines |-> s.lines,
            capture |-> s.capture, air |-> s.air, inside |-> s.inside,
            lands |-> lands, landed |-> streamed.material > 0,
            ui |-> IF create /\ ~created THEN "nothing" ELSE requests[Watched],
            shown |-> p.textures[Watched].status = "ok",
            write |-> HistoryWritten, valid |-> valid, lut |-> lut, exposed |-> exposed]
  IN
  /\ resource' = Run(Found(created), watch, Record(f))
  /\ valid' = (valid \/ taa) /\ write' = HistoryWritten
  /\ exposed' = TRUE
  /\ lut' = IF s.air # NoAir THEN s.air ELSE lut
  /\ material' = streamed.material
  /\ bindless' = p.bindless /\ ui' = p.textures
  /\ retired' = [retired EXCEPT ![frame] = p.retires]
  /\ sampled' = [sampled EXCEPT ![frame] = Samples(p.textures, streamed.material)]
  /\ frame' = (frame + 1) % Slots
  /\ UNCHANGED <<watch, taa>>

Draws ==
  \E s \in Drawn, lands \in {FALSE, MayLand}, requests \in Requests : Draw(s, lands, requests)

\* set_taa: turning it on starts from no history.
SetTaa(on) ==
  /\ watch # Ui
  /\ taa' = on /\ valid' = (valid /\ on)
  /\ UNCHANGED <<watch, resource, write, exposed, lut, textureVars, frame, sampled>>

\* reset_taa: a capture's first frame.
ResetTaa ==
  /\ watch # Ui
  /\ valid' = FALSE
  /\ UNCHANGED <<watch, resource, taa, write, exposed, lut, textureVars, frame, sampled>>

MutantOnSwapchainChanged ==
  /\ sampled' = [s \in Slot |-> {}]
  /\ resource' = IF watch \in Screen THEN Fresh("undefined") ELSE Settled(resource)
  /\ UNCHANGED <<watch, rememberedVars, textureVars, frame>>

\* The acquire or the present was out of date, or the window another size: with
\* the device idle, the targets are made again.
OnSwapchainChanged ==
  /\ sampled' = [s \in Slot |-> {}]
  /\ resource' = IF watch \in Screen THEN Fresh("undefined") ELSE Settled(resource)
  /\ valid' = FALSE
  /\ UNCHANGED <<watch, taa, write, exposed, lut, textureVars, frame>>

Next ==
  \/ Draws
  \/ \E on \in BOOLEAN : SetTaa(on)
  \/ ResetTaa
  \/ OnSwapchainChanged

Spec == Init /\ [][Next]_vars

-----------------------------------------------------------------------------
(* Properties *)

\* No access finds its image in another layout than it names, or overtakes one
\* it must wait for, in the same frame or an earlier one.
Synchronised == resource.faults \cap {"layout", "unordered"} = {}

\* What a pass reads is this frame's, or, of the history and the exposure, the
\* last one's; the LUTs are of the air that is drawn, the bins zeroed; never
\* what nothing has been written to.
ReadsFresh == "stale" \notin resource.faults

\* What a frame samples stays behind its handle until its slot is waited for.
SampledUntilDone ==
  \A slot \in Slot : \A s \in sampled[slot] : bindless.owner[s.handle] = s.image

Held ==
  {ui[t].handle : t \in {u \in Names : ui[u].handle # 0}}
  \cup (UNION {Range(retired[s]) : s \in Slot})
  \cup (IF material > 0 THEN {material} ELSE {})

\* Everything is of its type, and every handle that was ever given is held by
\* one texture, or waits with its slot, or is free; no texture waits twice
\* with one slot, which frees what waits before it retires more.
HandlesAccounted ==
  /\ watch \in Resources /\ write \in 0 .. 1 /\ frame \in Slot
  /\ material \in -1 .. MaxHandles
  /\ bindless.free \in SeqOf(1 .. MaxHandles, MaxHandles) /\ IsInjective(bindless.free)
  /\ Held \cup Range(bindless.free) = 1 .. bindless.next - 1
  /\ Cardinality(Held) + Len(bindless.free) = bindless.next - 1
  /\ \A h \in 1 .. MaxHandles : bindless.owner[h] # None <=> h \in Held
  /\ \A s \in Slot : \A t \in Names :
       Cardinality({k \in DOMAIN retired[s] : bindless.owner[retired[s][k]][1] = t}) <= 1

\* The bindless set under all that samples it: no handle is lost, and none has
\* a new image while a frame may still sample the old one.
HandlesHold == HandlesAccounted /\ SampledUntilDone

=============================================================================
