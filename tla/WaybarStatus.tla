---------------------------- MODULE WaybarStatus ----------------------------
(***************************************************************************)
(* What the bar is told of the timer: waybar_payload, up to the wording.   *)
(* Icons, persona and JSON are left out; "session" is the label of the     *)
(* default branch.                                                         *)
(***************************************************************************)
EXTENDS PomodoroTimer

Label(phase) == IF phase \in Active THEN phase ELSE "session"

\* Faulty: labelled by the phase it is in, not by the one that is paused.
WaybarPayloadOfPhase(t) ==
    IF t.phase = "Stopped" THEN [class |-> "stopped", percentage |-> 0]
    ELSE [class |-> t.phase, left |-> Remaining(t),
          percentage |-> ProgressPercent(t), label |-> Label(t.phase)]

WaybarPayload(t) ==
    IF t.phase = "Stopped" THEN [class |-> "stopped", percentage |-> 0]
    ELSE [class |-> t.phase, left |-> Remaining(t),
          percentage |-> ProgressPercent(t), label |-> Label(ActivePhase(t))]
============================================================================
