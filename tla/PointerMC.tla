----------------------------- MODULE PointerMC -----------------------------
(* Pointer for TLC: two outputs side by side, the cat anywhere on them.    *)
EXTENDS Pointer

SideBySide == [o \in Outputs |-> IF o = "left" THEN 0 ELSE 6]
Widths     == [o \in Outputs |-> 6]
BothScreens == 0..11
============================================================================
