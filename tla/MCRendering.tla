----------------------------- MODULE MCRendering ----------------------------
(* Two atmospheres, a texture of three levels, two UI textures and handles   *)
(* for three: a texture destroyed and made again runs out of them.  Each two *)
(* of a frame's features are on, and off, together in some scene.            *)
EXTENDS Rendering

CONSTANTS dry, hazy

MCAir == {dry, hazy}
MCLevel == <<"level 0", "level 1", "level 2">>
MCUiTextures == <<"first", "second">>

Scene(shadows, windows, lines, capture, air, inside) ==
  [shadows |-> shadows, windows |-> windows, lines |-> lines, capture |-> capture,
   air |-> air, inside |-> inside]

MCScenes ==
  {Scene(FALSE, FALSE, FALSE, FALSE, NoAir, FALSE),
   Scene(TRUE, TRUE, TRUE, TRUE, NoAir, FALSE),
   Scene(TRUE, TRUE, FALSE, FALSE, dry, FALSE),
   Scene(TRUE, FALSE, TRUE, FALSE, dry, TRUE),
   Scene(FALSE, TRUE, FALSE, TRUE, dry, TRUE),
   Scene(FALSE, FALSE, TRUE, TRUE, hazy, FALSE),
   Scene(TRUE, FALSE, FALSE, TRUE, hazy, TRUE),
   Scene(FALSE, TRUE, TRUE, FALSE, hazy, TRUE)}
=============================================================================
