----------------------------- MODULE OverlayMC -----------------------------
(* Overlay for TLC: a landscape output, the same one turned, another mode, *)
(* and the empty size a compositor may send while it sets up.              *)
EXTENDS Overlay

LandscapeOrTurned == {<<3, 2>>, <<2, 3>>, <<2, 2>>, <<0, 0>>}
============================================================================
