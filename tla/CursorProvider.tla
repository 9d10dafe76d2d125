--------------------------- MODULE CursorProvider ---------------------------
(***************************************************************************)
(* Where App gets the position of the cursor from: the choice of a         *)
(* provider at the start, and the virtual cursor the evdev provider keeps  *)
(* out of relative motion.  One axis; what the devices report between two  *)
(* polls counts by its sum.                                                *)
(***************************************************************************)
EXTENDS Integers

CursorSource == {"auto", "hyprland", "evdev", "wlroots", "null"}
Provider     == {"hyprland", "evdev", "null"}

\* detect_socket_path: without a signature no path is looked at.
HyprlandReady(signature, socket) == signature /\ socket

\* evdev: does a device that reports relative motion open.
MakeCursorProvider(source, signature, socket, device) ==
    IF source \in {"auto", "hyprland"} /\ HyprlandReady(signature, socket)
    THEN "hyprland"
    ELSE IF source \in {"auto", "evdev"} /\ device THEN "evdev" ELSE "null"

\* std::clamp to the bounds of the compositor.
Clamp(x, lo, hi) == IF x < lo THEN lo ELSE IF x > hi THEN hi ELSE x

\* Faulty: the virtual cursor is left where the constructor put it.
SetPositionForgotten(x, lo, hi) == Clamp(0, lo, hi)

SetPosition(x, lo, hi) == Clamp(x, lo, hi)

\* Faulty: only a step to the far side is cut off.
EvdevPollFarOnly(c, moved, lo, hi) == IF c + moved > hi THEN hi ELSE c + moved

\* EvdevCursorProvider::poll: read the devices empty, then clamp, once.
EvdevPoll(c, moved, lo, hi) == Clamp(c + moved, lo, hi)
============================================================================
