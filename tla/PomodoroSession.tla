-------------------------- MODULE PomodoroSession --------------------------
(***************************************************************************)
(* A PomodoroTimer in use: time passes, on_tick calls tick() whenever the  *)
(* daemon's tick timer fires, and the control commands call the others.    *)
(***************************************************************************)
EXTENDS WaybarStatus

CONSTANTS
    MaxAge,        \* bound: no phase is left unattended for longer
    MaxCompleted   \* bound: focus sessions counted since the last stop

ASSUME BoundAssumption == MaxAge \in Nat /\ MaxCompleted \in Nat

VARIABLES
    timer,         \* App::pomodoro_
    call           \* history: what happened last (no counterpart in the code)

vars == <<timer, call>>

Calls == {"none", "pass", "tick", "start", "pause", "resume", "stop",
          "skip", "toggle"}

Init == timer = NewTimer /\ call = "none"

\* Every action is one call: the method, and its name as the history.
Do(name, t) == /\ t.completed <= MaxCompleted
               /\ timer' = t
               /\ call' = name

Pass == /\ timer.phaseAge < MaxAge
        /\ Do("pass", Elapse(timer, 1))

TickCall   == Do("tick", TimerTick(timer))
StartCall  == Do("start", Start(timer))
PauseCall  == Do("pause", Pause(timer))
ResumeCall == Do("resume", Resume(timer))
StopCall   == Do("stop", Stop(timer))
SkipCall   == Do("skip", Skip(timer))
ToggleCall == Do("toggle", Toggle(timer))

Next == \/ Pass \/ TickCall \/ StartCall \/ PauseCall \/ ResumeCall
        \/ StopCall \/ SkipCall \/ ToggleCall

Spec == Init /\ [][Next]_vars

\* Time does pass, and the periodic timerfd keeps calling on_tick.
FairSpec == Spec /\ WF_vars(Pass) /\ WF_vars(TickCall)

----------------------------------------------------------------------------
(* Safety.                                                                 *)

TypeOK == timer \in Timer /\ call \in Calls

(* A pause always remembers a phase to come back to, and it began after    *)
(* that phase did: resume() never lands in Stopped or Paused and never     *)
(* moves phase_start_ into the future.                                     *)
PauseRemembersItsPhase ==
    /\ timer.phase = "Paused" => /\ timer.pausedPhase \in Active
                                 /\ timer.phaseAge >= timer.pauseAge
    /\ timer.phaseAge >= 0
    /\ timer.pauseAge >= 0

(* The strengthening the proofs use.                                       *)
TimerInv == TypeOK /\ PauseRemembersItsPhase

(* The countdown reads 0:00 exactly when the phase is due: remaining()     *)
(* truncates to seconds, tick() compares exact times, and the two must     *)
(* still agree, paused or not.  The percentage follows the countdown.      *)
StatusIsHonest ==
    timer.phase # "Stopped" =>
        /\ (Remaining(timer) = 0) <=> (Worked(timer) >= Due(ActivePhase(timer)))
        /\ ProgressPercent(timer) \in 0..100
        /\ PhaseDuration(ActivePhase(timer)) > 0 =>
               ((ProgressPercent(timer) = 100) <=> (Remaining(timer) = 0))

(* A pause costs nothing: neither pausing, nor the time spent paused, nor  *)
(* resuming changes what the countdown shows or how many sessions count.   *)
PauseIsFree ==
    [][ timer.phase # "Stopped"
        /\ (call' \in {"pause", "resume", "toggle"} \/ timer.phase = "Paused")
        /\ call' \in {"pause", "resume", "toggle", "pass", "tick", "start"}
        => /\ Remaining(timer') = Remaining(timer)
           /\ timer'.completed = timer.completed ]_vars

(* Whatever commands come in whatever order, a bar that shows a session    *)
(* names the phase that runs or is paused, and a pause changes nothing of  *)
(* it but the class: the same label, the same time, the same percentage.   *)
BarSurvivesPause ==
    [][ timer.phase \in Active /\ timer'.phase = "Paused" =>
          /\ WaybarPayload(timer').label = timer.phase
          /\ WaybarPayload(timer') = [WaybarPayload(timer) EXCEPT !.class = "Paused"] ]_vars

----------------------------------------------------------------------------
(* The timer implements the cycle it promises, as long as the 24 hours of  *)
(* skip() are not shorter than a phase: every operation of the timer is    *)
(* an operation of the stopwatch, or changes nothing the user can tell.    *)

SkipReaches == \A p \in Active : PhaseDuration(p) <= SkipBack

Cycle == INSTANCE PomodoroCycle WITH
             Length  <- Due,
             mode    <- ActivePhase(timer),
             running <- timer.phase \in Active,
             worked  <- IF timer.phase = "Stopped" THEN 0 ELSE Worked(timer),
             round   <- timer.completed % Sessions

ImplementsCycle == Cycle!Spec

----------------------------------------------------------------------------
(* Liveness.                                                               *)

(* Left alone, a running timer reaches a long break: on_tick keeps coming, *)
(* so every phase it is in ends, and the count gets there.  "Left alone"   *)
(* is that nobody pauses, stops or toggles; the bound on the count leaves  *)
(* room for the sessions it may take.                                      *)
LeftAloneReachesLongBreak ==
    (timer.phase \in Active /\ timer.completed + Sessions <= MaxCompleted)
        ~> (timer.phase = "LongBreak" \/ call \in {"pause", "stop", "toggle"})
============================================================================
