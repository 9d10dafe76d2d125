--------------------------- MODULE PomodoroTimer ---------------------------
(***************************************************************************)
(* The class PomodoroTimer as operators on a record: every method is a     *)
(* function from the object before the call to the object after it, so     *)
(* that a handler which calls several methods in a row is their            *)
(* composition.                                                            *)
(*                                                                         *)
(* The object keeps two instants, phase_start_ and pause_start_, and only  *)
(* ever subtracts them from "now".  The record keeps those differences:    *)
(* phaseAge = now - phase_start_ and pauseAge = now - pause_start_.        *)
(* Elapse is the passing of time; an instant that no method reads before   *)
(* it is written again does not age.                                       *)
(***************************************************************************)
EXTENDS Integers

CONSTANTS
    Study,          \* cfg_.study_minutes, in seconds
    ShortBreak,     \* cfg_.break_minutes, in seconds
    LongerBreak,    \* cfg_.long_break_minutes, in seconds
    Sessions,       \* cfg_.sessions_before_long_break
    SkipBack,       \* the 24 hours skip() moves phase_start_ into the past
    Second          \* clock units in a second: the clock is finer than that

ASSUME DurationAssumption ==
    /\ Study \in Nat
    /\ ShortBreak \in Nat
    /\ LongerBreak \in Nat
    /\ SkipBack \in Nat

ASSUME SessionsAssumption == Sessions \in Nat \ {0}

ASSUME SecondAssumption == Second \in Nat \ {0}

Active == {"Focus", "Break", "LongBreak"}
Phase  == Active \cup {"Stopped", "Paused"}

Timer == [phase : Phase, pausedPhase : Active \cup {"Stopped"},
          phaseAge : Int, pauseAge : Int, completed : Nat]

NewTimer == [phase |-> "Stopped", pausedPhase |-> "Stopped",
             phaseAge |-> 0, pauseAge |-> 0, completed |-> 0]

PhaseDuration(p) == CASE p = "Focus"     -> Study
                      [] p = "Break"     -> ShortBreak
                      [] p = "LongBreak" -> LongerBreak
                      [] OTHER           -> 0

\* The phase the user is in, paused or not.
ActivePhase(t) == IF t.phase = "Paused" THEN t.pausedPhase ELSE t.phase

\* The same duration on the finer scale of the clock.
Due(p) == PhaseDuration(p) * Second

----------------------------------------------------------------------------
Enter(t, p) == [t EXCEPT !.phase = p, !.phaseAge = 0]

Start(t) == IF t.phase # "Stopped" THEN t ELSE Enter(t, "Focus")

\* Faulty: a second pause() is taken for a first one.
PauseTwice(t) ==
    IF t.phase = "Stopped" THEN t
    ELSE [t EXCEPT !.pausedPhase = t.phase, !.pauseAge = 0, !.phase = "Paused"]

\* Faulty: pause_start_ keeps the instant of an earlier pause.
PauseKeepsOldStart(t) ==
    IF t.phase \in {"Stopped", "Paused"} THEN t
    ELSE [t EXCEPT !.pausedPhase = t.phase, !.phase = "Paused"]

Pause(t) ==
    IF t.phase \in {"Stopped", "Paused"} THEN t
    ELSE [t EXCEPT !.pausedPhase = t.phase, !.pauseAge = 0, !.phase = "Paused"]

\* Faulty: phase_start_ is not moved forward, the pause counts as work.
ResumeUnshifted(t) ==
    IF t.phase # "Paused" THEN t
    ELSE [t EXCEPT !.phase = t.pausedPhase, !.pausedPhase = "Stopped"]

Resume(t) ==
    IF t.phase # "Paused" THEN t
    ELSE [t EXCEPT !.phaseAge = t.phaseAge - t.pauseAge,
                   !.phase = t.pausedPhase, !.pausedPhase = "Stopped"]

Stop(t) == [t EXCEPT !.phase = "Stopped", !.pausedPhase = "Stopped",
                     !.completed = 0]

\* Faulty: the long break is looked for before the focus is counted.
EndPhaseCountsLate(t) ==
    IF t.phase # "Focus" THEN Enter(t, "Focus")
    ELSE Enter([t EXCEPT !.completed = @ + 1],
               IF t.completed % Sessions = 0 THEN "LongBreak" ELSE "Break")

\* Faulty: the count starts again with every break, and never gets there.
EndPhaseForgets(t) ==
    IF t.phase # "Focus" THEN Enter([t EXCEPT !.completed = 0], "Focus")
    ELSE LET n == t.completed + 1
         IN  Enter([t EXCEPT !.completed = n],
                   IF n % Sessions = 0 THEN "LongBreak" ELSE "Break")

\* The transition at the end of a phase: a focus is counted, and every
\* Sessions-th one earns the long break.
EndPhase(t) ==
    IF t.phase # "Focus" THEN Enter(t, "Focus")
    ELSE LET n == t.completed + 1
         IN  Enter([t EXCEPT !.completed = n],
                   IF n % Sessions = 0 THEN "LongBreak" ELSE "Break")

TimerTick(t) ==
    IF t.phase \in Active /\ t.phaseAge >= Due(t.phase) THEN EndPhase(t) ELSE t

\* Skipping out of a pause restores the phase but leaves paused_phase_ as it is;
\* the phase is made old enough to be over and ticked.
Rewind(t) == [t EXCEPT !.phase = ActivePhase(t), !.phaseAge = SkipBack * Second]

Skip(t) == IF t.phase = "Stopped" THEN t ELSE TimerTick(Rewind(t))

Toggle(t) == CASE t.phase = "Stopped" -> Start(t)
               [] t.phase = "Paused"  -> Resume(t)
               [] OTHER               -> Pause(t)

Elapse(t, d) ==
    [t EXCEPT !.phaseAge = IF t.phase = "Stopped" THEN @ ELSE @ + d,
              !.pauseAge = IF t.phase = "Paused" THEN @ + d ELSE @]

----------------------------------------------------------------------------
(* What the status shows.                                                  *)

\* Time spent in the phase, pauses excluded.
Worked(t) == IF t.phase = "Paused" THEN t.phaseAge - t.pauseAge ELSE t.phaseAge

\* Faulty: a started second counts as spent.
RemainingRoundsUp(t) ==
    IF t.phase = "Stopped" THEN 0
    ELSE LET rem == PhaseDuration(ActivePhase(t))
                    - (Worked(t) + Second - 1) \div Second
         IN  IF rem > 0 THEN rem ELSE 0

\* duration_cast drops the fraction of a second.
Remaining(t) ==
    IF t.phase = "Stopped" THEN 0
    ELSE LET rem == PhaseDuration(ActivePhase(t)) - Worked(t) \div Second
         IN  IF rem > 0 THEN rem ELSE 0

ProgressPercent(t) ==
    LET dur == PhaseDuration(ActivePhase(t))
    IN  IF t.phase = "Stopped" \/ dur = 0 THEN 0
        ELSE (100 * (dur - Remaining(t))) \div dur
============================================================================
