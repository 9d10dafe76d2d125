--------------------------- MODULE PomodoroCycle ---------------------------
(***************************************************************************)
(* What the pomodoro timer promises, with no timestamps: a stopwatch that  *)
(* runs while a phase is not paused, a phase that ends only when the       *)
(* stopwatch has reached its duration or the user skips it, and a long     *)
(* break after every Sessions-th focus.                                    *)
(***************************************************************************)
EXTENDS Integers

CONSTANTS
    Sessions,      \* focus sessions per long break
    Length(_)      \* how long each mode lasts, in clock units

VARIABLES
    mode,          \* the phase the user is in, paused or not
    running,       \* whether the stopwatch runs
    worked,        \* the stopwatch
    round,         \* focus sessions since the last long break
    call           \* the last thing that happened: time, a tick or a command

vars == <<mode, running, worked, round, call>>

Init == /\ mode = "Stopped"
        /\ running = FALSE
        /\ worked = 0
        /\ round = 0
        /\ call = "none"

Begin == /\ mode = "Stopped"
         /\ call' \in {"start", "toggle"}
         /\ mode' = "Focus"
         /\ running' = TRUE
         /\ worked' = 0
         /\ UNCHANGED round

Halt == /\ running
        /\ call' \in {"pause", "toggle"}
        /\ running' = FALSE
        /\ UNCHANGED <<mode, worked, round>>

Continue == /\ mode # "Stopped" /\ ~running
            /\ call' \in {"resume", "toggle"}
            /\ running' = TRUE
            /\ UNCHANGED <<mode, worked, round>>

Reset == /\ call' = "stop"
         /\ mode' = "Stopped"
         /\ running' = FALSE
         /\ worked' = 0
         /\ round' = 0

\* The next mode: a fresh stopwatch that runs, whatever it was before.
Advance ==
    /\ mode # "Stopped"
    /\ round' = IF mode = "Focus" THEN (round + 1) % Sessions ELSE round
    /\ mode' = IF mode # "Focus" THEN "Focus"
               ELSE IF round' = 0 THEN "LongBreak" ELSE "Break"
    /\ running' = TRUE
    /\ worked' = 0

Expire == /\ call' = "tick"
          /\ running /\ worked >= Length(mode)
          /\ Advance

SkipAhead == /\ call' = "skip"
             /\ Advance

Pass == /\ call' = "pass"
        /\ running
        /\ worked' > worked
        /\ UNCHANGED <<mode, running, round>>

\* A tick finds nothing due, time passes unnoticed, or a command does not apply.
Ignored ==
    /\ \/ call' = "tick" /\ ~(running /\ worked >= Length(mode))
       \/ call' = "pass" /\ ~running
       \/ call' = "start" /\ mode # "Stopped"
       \/ call' = "pause" /\ ~running
       \/ call' = "resume" /\ (running \/ mode = "Stopped")
       \/ call' = "skip" /\ mode = "Stopped"
    /\ UNCHANGED <<mode, running, worked, round>>

Next == \/ Begin \/ Halt \/ Continue \/ Reset
        \/ Expire \/ SkipAhead \/ Pass \/ Ignored

Spec == Init /\ [][Next]_vars
============================================================================
