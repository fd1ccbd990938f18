---------------------------- MODULE FrameCommands ---------------------------
(***************************************************************************)
(* render/renderer: the barriers, passes and copies Renderer::record writes *)
(* into a frame's command buffer, in order, with what each reads and       *)
(* writes; among them the uploads of vulkan/texture and the overlay of     *)
(* ui/imgui_vulkan.  Resources that are always handled alike are one: the  *)
(* four G-buffer targets, the two cluster lists, the shadow maps, the      *)
(* debug windows' images.                                                  *)
(*                                                                         *)
(* f is what the frame draws:                                              *)
(*   taa, shadows, windows, lines, capture: whether there are any          *)
(*   air, inside: the air of the body nearest, and whether the camera is   *)
(*     in it; NoAir where there is none                                    *)
(*   landed, lands: the texture is sampled, is uploaded, this frame        *)
(*   ui, shown: what is done to the UI's texture, and whether it is drawn  *)
(* and what the renderer remembers:                                        *)
(*   write, valid: history_write_, history_valid_                          *)
(*   lut: the air the LUTs hold, NoAir before any; exposed: exposure_written_ *)
(***************************************************************************)
EXTENDS GpuSync, SequencesExt

CONSTANTS
  NoAir,
  Level       \* the mip levels of the texture that is uploaded, largest first

ASSUME LevelAssumption == Level \in Seq(Range(Level)) \ {<<>>} /\ IsInjective(Level)

Colour == {"colour"}
Compute == {"compute"}
Fragment == {"fragment"}
Depth == {"depth"}
Copy == {"copy"}
Blit == {"blit"}
Samplers == {"compute", "fragment"}

\* Contents outlive the frame that writes them, if nothing says otherwise.
ThisFrame == {"now"}
LastFrame == {"last"}

History == [i \in 0 .. 1 |-> IF i = 0 THEN "history_0" ELSE "history_1"]

Ui == "ui_texture"

\* compute_to_compute
ComputeToCompute(flush) == Memory(Compute, Compute, flush)

Only(b, commands) == IF b THEN commands ELSE <<>>

-----------------------------------------------------------------------------
(* Uploads *)

\* One level's part of Texture::record_upload's loop: the level above is blitted
\* into it and handed over.
FillLevel(l) ==
  LET filled == IF l = 2 THEN Copy ELSE Blit
  IN
  <<Barrier({Transition(Level[l - 1], "dst", "src", filled, Blit, TRUE)}),
    Pass({Read("blit", Level[l - 1], "src", {"data"}), Write("blit", Level[l], "dst", "data")}),
    Barrier({Transition(Level[l - 1], "src", "read", Blit, Fragment, FALSE)})>>

\* Texture::record_upload
TextureUpload ==
  LET last == IF Len(Level) = 1 THEN Copy ELSE Blit
  IN
  <<Barrier({Transition(l, "undefined", "dst", {}, Copy \cup Blit, FALSE) : l \in Range(Level)}),
    Pass({Write("copy", Head(Level), "dst", "data")})>>
  \o FlattenSeq([l \in 1 .. Len(Level) - 1 |-> FillLevel(l + 1)])
  \o <<Barrier({Transition(Last(Level), "dst", "read", last, Fragment, TRUE)})>>

\* ImGuiVulkan::update_texture: a new texture whole, an old one in part.
UiUpload(f) ==
  Only(f.ui \in {"create", "update"},
    LET new == f.ui = "create"
    IN
    <<Barrier({Transition(Ui, IF new THEN "undefined" ELSE "read", "dst",
                          IF new THEN {} ELSE Fragment, Copy, FALSE)}),
      Pass({Write("copy", Ui, "dst", "data")}),
      Barrier({Transition(Ui, "dst", "read", Copy, Fragment, TRUE)})>>)

-----------------------------------------------------------------------------
(* Shadows and G-buffer *)

MutantEntry(f) ==
  <<Barrier(
      {Transition("gbuffer", "undefined", "colour", Compute, Colour, FALSE),
       Transition("hdr", "undefined", "colour", Fragment, Colour, FALSE),
       Transition("depth", "undefined", "depth", Compute, Depth, FALSE)}
      \cup (IF f.shadows THEN {Transition("shadow", "undefined", "depth", Compute, Depth, FALSE)}
            ELSE {}))>>

\* The targets are single-copy: the sources are the previous frame's readers.
Entry(f) ==
  <<Barrier(
      {Transition("gbuffer", "undefined", "colour", Compute, Colour, FALSE),
       Transition("hdr", "undefined", "colour", Fragment, Colour, FALSE),
       Transition("depth", "undefined", "depth", Compute \cup Depth, Depth, FALSE)}
      \cup (IF f.shadows THEN {Transition("shadow", "undefined", "depth", Compute, Depth, FALSE)}
            ELSE {}))>>

Shadows(f) == Only(f.shadows, <<Pass({Write("depth", "shadow", "depth", "now")})>>)

\* Objects sample the textures that have landed.
GBuffer(f) ==
  <<Pass({Write("colour", "gbuffer", "colour", "now"), Write("colour", "hdr", "colour", "now"),
          Write("depth", "depth", "depth", "now")}
         \cup {Read("fragment", l, "read", {"data"}) :
                 l \in IF f.landed THEN Range(Level) ELSE {}})>>

\* The clusters were read by the last frame's lighting.
Readable(f) ==
  <<Barrier(
      {Transition("gbuffer", "colour", "read", Colour, Compute, TRUE),
       Transition("hdr", "colour", "general", Colour, Compute, TRUE),
       Transition("depth", "depth", "read", Depth, Compute \cup Depth, TRUE),
       ComputeToCompute(FALSE)}
      \cup (IF f.shadows THEN {Transition("shadow", "depth", "read", Depth, Compute, TRUE)}
            ELSE {}))>>

-----------------------------------------------------------------------------
(* Air *)

\* The LUTs hold the air alone, and are rebuilt when it is another.
RebuildLuts(f) ==
  LET from == IF f.lut # NoAir THEN "read" ELSE "undefined"
      ready(lut) == Barrier({Transition(lut, "general", "read", Compute, Compute, TRUE)})
  IN
  Only(f.lut # f.air,
    <<Barrier({Transition(lut, from, "general", Compute, Compute, FALSE) :
                 lut \in {"transmittance", "multiscatter"}}),
      Pass({Write("compute", "transmittance", "general", f.air)}), ready("transmittance"),
      Pass({Read("compute", "transmittance", "read", {f.air}),
            Write("compute", "multiscatter", "general", f.air)}), ready("multiscatter")>>)

LutReads(f) ==
  {Read("compute", lut, "read", {f.air}) : lut \in {"transmittance", "multiscatter"}}

SkyAmbient(f) ==
  <<Barrier({ComputeToCompute(FALSE)}),
    Pass({Write("compute", "ambient", "buffer", "now")} \cup LutReads(f))>>

SkyView(f) ==
  Only(f.inside,
    <<Barrier({Transition("sky_view", "undefined", "general", Compute, Compute, FALSE)}),
      Pass({Write("compute", "sky_view", "general", "now")} \cup LutReads(f)),
      Barrier({Transition("sky_view", "general", "read", Compute, Compute, TRUE)})>>)

Sky(f) == Only(f.air # NoAir, RebuildLuts(f) \o SkyAmbient(f) \o SkyView(f))

-----------------------------------------------------------------------------
(* Lighting *)

Clusters ==
  <<Pass({Write("compute", "clusters", "buffer", "now")}),
    Barrier({ComputeToCompute(TRUE)})>>

GBufferReads == {Read("compute", g, "read", ThisFrame) : g \in {"gbuffer", "depth"}}

ShadowReads(f) == IF f.shadows THEN {Read("compute", "shadow", "read", ThisFrame)} ELSE {}

Lighting(f) ==
  <<Pass(GBufferReads \cup ShadowReads(f)
         \cup {Read("compute", "clusters", "buffer", ThisFrame)}
         \cup Update("compute", "hdr", "general", ThisFrame, "now")
         \cup (IF f.air # NoAir
               THEN LutReads(f) \cup {Read("compute", "ambient", "buffer", ThisFrame)} ELSE {}))>>

\* In place, over what lighting made.
Atmosphere(f) ==
  Only(f.air # NoAir,
    <<Barrier({ComputeToCompute(TRUE)}),
      Pass(Update("compute", "hdr", "general", ThisFrame, "now") \cup LutReads(f)
           \cup {Read("compute", "depth", "read", ThisFrame)}
           \cup (IF f.inside THEN {Read("compute", "sky_view", "read", ThisFrame)} ELSE {}))>>)

\* The history that is read is the last frame's, in the layout that frame left
\* it; with none, it is put in that layout and not sampled.
Taa(f) ==
  LET target == History[f.write]
      other == History[1 - f.write]
  IN
  Only(f.taa,
    <<Barrier(
        {Transition(target, "undefined", "general", Samplers, Compute, FALSE),
         ComputeToCompute(TRUE)}
        \cup (IF f.valid THEN {}
              ELSE {Transition(other, "undefined", "read", Samplers, Compute, FALSE)})),
      Pass({Read("compute", "hdr", "general", ThisFrame)} \cup GBufferReads
           \cup {Write("compute", target, "general", "now")}
           \cup (IF f.valid THEN {Read("compute", other, "read", LastFrame)} ELSE {})
           \cup (IF f.exposed THEN {Read("compute", "exposure", "read", LastFrame)} ELSE {}))>>)

\* What the passes after TAA take for the lit image.
Lit(f) == IF f.taa THEN History[f.write] ELSE "hdr"

\* Into bins the last frame's adapt pass zeroed.
Exposure(f) ==
  <<Barrier({ComputeToCompute(TRUE),
             Transition("exposure", IF f.exposed THEN "read" ELSE "undefined", "general",
                        Samplers, Compute, FALSE)}),
    Pass({Read("compute", Lit(f), "general", ThisFrame)}
         \cup Update("compute", "histogram", "buffer", {"zeroed"}, "binned")),
    Barrier({ComputeToCompute(TRUE)}),
    Pass(Update("compute", "histogram", "buffer", {"binned"}, "zeroed")
         \cup {Write("compute", "exposure", "general", "now")}
         \cup (IF f.exposed THEN {Read("compute", "exposure", "general", LastFrame)} ELSE {}))>>

\* Visualisations, of the open windows.
DebugViews(f) ==
  Only(f.windows,
    <<Barrier({Transition("debug", "undefined", "general", Fragment, Compute, FALSE)}),
      Pass(GBufferReads \cup ShadowReads(f)
           \cup {Read("compute", "clusters", "buffer", ThisFrame),
                 Write("compute", "debug", "general", "now")})>>)

-----------------------------------------------------------------------------
(* The swapchain's image *)

\* The acquire semaphore is waited for at colour output.
Handoff(f) ==
  <<Barrier(
      {Transition("hdr", "general", "read", Compute, Fragment, TRUE),
       Transition("target", "undefined", "colour", Colour, Colour, FALSE),
       Transition("exposure", "general", "read", Compute, Samplers, TRUE)}
      \cup (IF f.taa THEN {Transition(History[f.write], "general", "read", Compute, Samplers, TRUE)}
            ELSE {})
      \cup (IF f.windows THEN {Transition("debug", "general", "read", Compute, Fragment, TRUE)}
            ELSE {}))>>

Tonemap(f) ==
  <<Pass({Read("fragment", Lit(f), "read", ThisFrame),
          Read("fragment", "exposure", "read", ThisFrame),
          Write("colour", "target", "colour", "now")})>>

Reload == Barrier({Transition("target", "colour", "colour", Colour, Colour, TRUE)})
Over == Update("colour", "target", "colour", ThisFrame, "now")

\* Wires and lines, tested against the G-buffer's depth.
DebugDraw(f) ==
  Only(f.lines, <<Reload, Pass(Over \cup {Read("depth", "depth", "read", ThisFrame)})>>)

\* Overlay::prepare and record.
Overlay(f) ==
  UiUpload(f)
  \o <<Reload,
       Pass(Over
            \cup (IF f.windows THEN {Read("fragment", "debug", "read", ThisFrame)} ELSE {})
            \cup (IF f.shown THEN {Read("fragment", Ui, "read", {"data"})} ELSE {}))>>

\* The host reads the copy once the device is idle.
Captured(f) ==
  Only(f.capture,
    <<Barrier({Transition("target", "colour", "src", Colour, Copy, TRUE)}),
      Pass({Read("copy", "target", "src", ThisFrame), Write("copy", "capture", "buffer", "now")}),
      Barrier({Memory(Copy, {"host"}, TRUE)}),
      Pass({Read("host", "capture", "buffer", ThisFrame)})>>)

Present(f) ==
  IF f.capture
  THEN <<Barrier({Transition("target", "src", "present", Copy, {}, FALSE)})>>
  ELSE <<Barrier({Transition("target", "colour", "present", Colour, {}, TRUE)})>>

\* Renderer::record
Record(f) ==
  Only(f.lands, TextureUpload) \o Entry(f) \o Shadows(f) \o GBuffer(f) \o Readable(f) \o Sky(f)
  \o Clusters \o Lighting(f) \o Atmosphere(f) \o Taa(f) \o Exposure(f) \o DebugViews(f)
  \o Handoff(f) \o Tonemap(f) \o DebugDraw(f) \o Overlay(f) \o Captured(f) \o Present(f)

=============================================================================
