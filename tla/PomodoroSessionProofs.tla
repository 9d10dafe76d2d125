----------------------- MODULE PomodoroSessionProofs -----------------------
(***************************************************************************)
(* Proofs about PomodoroSession, for every duration, every number of       *)
(* sessions, every clock resolution and every bound.                       *)
(***************************************************************************)
EXTENDS PomodoroSession, MethodProofs

USE DurationAssumption, SessionsAssumption, SecondAssumption, BoundAssumption

(* The invariant is inductive as it stands: one step per call.             *)
LEMMA TimerInvInductive ==
    ASSUME TimerInv, [Next]_vars
    PROVE  TimerInv'
<1>1. Good(timer) /\ call \in Calls
  BY TimerFields DEF TimerInv, TypeOK, PauseRemembersItsPhase, Good
<1>2. SUFFICES Good(timer') /\ call' \in Calls
  BY TimerFields DEF TimerInv, TypeOK, PauseRemembersItsPhase, Good
<1>3. CASE Pass
  BY <1>1, <1>3, ElapseGood DEF Pass, Do, Calls
<1>4. CASE TickCall
  BY <1>1, <1>4, TimerTickGood DEF TickCall, Do, Calls
<1>5. CASE StartCall
  BY <1>1, <1>5, CommandsGood DEF StartCall, Do, Calls
<1>6. CASE PauseCall
  BY <1>1, <1>6, CommandsGood DEF PauseCall, Do, Calls
<1>7. CASE ResumeCall
  BY <1>1, <1>7, CommandsGood DEF ResumeCall, Do, Calls
<1>8. CASE StopCall
  BY <1>1, <1>8, CommandsGood DEF StopCall, Do, Calls
<1>9. CASE SkipCall
  BY <1>1, <1>9, SkipGood DEF SkipCall, Do, Calls
<1>10. CASE ToggleCall
  BY <1>1, <1>10, CommandsGood DEF ToggleCall, Toggle, Do, Calls
<1>11. CASE UNCHANGED vars
  BY <1>1, <1>11 DEF vars
<1>12. QED
  BY <1>3, <1>4, <1>5, <1>6, <1>7, <1>8, <1>9, <1>10, <1>11 DEF Next

(* The timer is well typed and a pause always remembers a phase to come    *)
(* back to that began before it (pause, resume and skip out of a pause).   *)
THEOREM TimerInvariant == Spec => []TimerInv
<1>1. Init => TimerInv
  BY DEF Init, NewTimer, TimerInv, TypeOK, PauseRemembersItsPhase, Timer,
         Phase, Active, Calls
<1>2. TimerInv /\ [Next]_vars => TimerInv'
  BY TimerInvInductive
<1>3. QED
  BY <1>1, <1>2, PTL DEF Spec

(* Whatever the order of commands, ticks and time, the fields of the timer *)
(* are what the class says they are.                                       *)
THEOREM TimerTypes == Spec => []TypeOK
<1>1. TimerInv => TypeOK
  BY DEF TimerInv
<1>2. QED
  BY <1>1, TimerInvariant, PTL

(* resume() lands in a phase that is running and has already begun.        *)
THEOREM PauseCorrect == Spec => []PauseRemembersItsPhase
<1>1. TimerInv => PauseRemembersItsPhase
  BY DEF TimerInv
<1>2. QED
  BY <1>1, TimerInvariant, PTL

----------------------------------------------------------------------------
(* What the status shows.                                                  *)

(* A whole number of seconds has elapsed exactly when its clock units have. *)
LEMMA WholeSeconds ==
    ASSUME NEW w \in Nat, NEW d \in Nat
    PROVE  w \div Second >= d <=> w >= d * Second
<1> DEFINE q == w \div Second
           r == w % Second
<1>1. q \in Nat /\ r \in 0..(Second - 1) /\ w = q * Second + r
  BY Division
<1> HIDE DEF q, r
<1>2. CASE q >= d
  <2>1. Second * d <= Second * q
    BY <1>1, <1>2, TimesMonotone
  <2>2. QED
    BY <1>1, <1>2, <2>1 DEF q
<1>3. CASE q < d
  <2>1. Second * (q + 1) <= Second * d
    BY <1>1, <1>3, TimesMonotone
  <2>2. Second * (q + 1) = q * Second + Second
    BY <1>1
  <2>3. QED
    BY <1>1, <1>3, <2>1, <2>2 DEF q
<1>4. QED
  BY <1>1, <1>2, <1>3

(* A truncated percentage is 100 only when everything is done.             *)
LEMMA Percentage ==
    ASSUME NEW d \in Nat \ {0}, NEW k \in 0..d
    PROVE  /\ (100 * k) \div d \in 0..100
           /\ (100 * k) \div d = 100 <=> k = d
<1> DEFINE q == (100 * k) \div d
           r == (100 * k) % d
<1>1. q \in Nat /\ r \in 0..(d - 1) /\ 100 * k = q * d + r
  <2>1. 100 * k \in Nat
    OBVIOUS
  <2>2. QED
    BY <2>1, Division
<1> HIDE DEF q, r
<1>2. q <= 100
  <2>1. CASE q >= 101
    <3>1. d * 101 <= d * q
      BY <1>1, <2>1, TimesMonotone
    <3>2. QED
      BY <1>1, <3>1
  <2>2. QED
    BY <1>1, <2>1
<1>3. q = 100 => k = d
  BY <1>1
<1>4. k = d => q = 100
  <2>1. CASE k = d /\ q <= 99
    <3>1. d * q <= d * 99
      BY <1>1, <2>1, TimesMonotone
    <3>2. QED
      BY <1>1, <2>1, <3>1
  <2>2. QED
    BY <1>1, <1>2, <2>1
<1>5. QED
  BY <1>1, <1>2, <1>3, <1>4 DEF q

(* The countdown and tick() agree on when a phase is over.                 *)
LEMMA GoodIsHonest == TimerInv => StatusIsHonest
<1> SUFFICES ASSUME TimerInv, timer.phase # "Stopped"
             PROVE  /\ (Remaining(timer) = 0)
                           <=> (Worked(timer) >= Due(ActivePhase(timer)))
                    /\ ProgressPercent(timer) \in 0..100
                    /\ PhaseDuration(ActivePhase(timer)) > 0 =>
                          ((ProgressPercent(timer) = 100)
                             <=> (Remaining(timer) = 0))
  BY DEF StatusIsHonest
<1>1. Good(timer) /\ IsTimer(timer)
  BY TimerFields DEF TimerInv, TypeOK, PauseRemembersItsPhase, Good
<1> DEFINE w == Worked(timer)
           d == PhaseDuration(ActivePhase(timer))
           left == d - w \div Second
<1>2. w \in Nat
  BY <1>1 DEF Worked, Good, IsTimer
<1>3. d \in Nat
  <2>1. ActivePhase(timer) \in Active
    BY <1>1 DEF ActivePhase, Good, IsTimer, Phase, Active
  <2>2. QED
    BY <2>1 DEF PhaseDuration, Active
<1>4. w \div Second \in Nat
  BY <1>2, Division
<1>5. Remaining(timer) = IF left > 0 THEN left ELSE 0
  BY DEF Remaining
<1>6. ProgressPercent(timer) =
        IF d = 0 THEN 0 ELSE (100 * (d - Remaining(timer))) \div d
  BY DEF ProgressPercent
<1> HIDE DEF w, d
<1>7. Remaining(timer) = 0 <=> w >= d * Second
  BY <1>2, <1>3, <1>4, <1>5, WholeSeconds
<1>8. d - Remaining(timer) \in 0..d /\ Remaining(timer) \in Nat
  BY <1>3, <1>4, <1>5
<1>9. CASE d # 0
  <2>1. /\ (100 * (d - Remaining(timer))) \div d \in 0..100
        /\ (100 * (d - Remaining(timer))) \div d = 100
              <=> d - Remaining(timer) = d
    BY <1>3, <1>8, <1>9, Percentage
  <2>2. d - Remaining(timer) = d <=> Remaining(timer) = 0
    BY <1>3, <1>8
  <2>3. QED
    BY <1>6, <1>7, <1>9, <2>1, <2>2 DEF w, d, Due
<1>10. CASE d = 0
  BY <1>6, <1>7, <1>10 DEF w, d, Due
<1>11. QED
  BY <1>9, <1>10

(* remaining() and progress_percent() never mislead: 0:00 and 100% are     *)
(* shown exactly when the next tick ends the phase.                        *)
THEOREM StatusHonest == Spec => []StatusIsHonest
BY TimerInvariant, GoodIsHonest, PTL

(* Pausing, being paused and resuming leave the countdown and the count of *)
(* sessions where they were.                                               *)
THEOREM PauseFree == Spec => PauseIsFree
<1> DEFINE Free ==
      timer.phase # "Stopped"
      /\ (call' \in {"pause", "resume", "toggle"} \/ timer.phase = "Paused")
      /\ call' \in {"pause", "resume", "toggle", "pass", "tick", "start"}
      => /\ Remaining(timer') = Remaining(timer)
         /\ timer'.completed = timer.completed
<1>1. TimerInv /\ [Next]_vars => [Free]_vars
  <2> SUFFICES ASSUME TimerInv, Next, timer.phase # "Stopped",
                      call' \in {"pause", "resume", "toggle"}
                        \/ timer.phase = "Paused",
                      call' \in {"pause", "resume", "toggle", "pass", "tick",
                                "start"}
               PROVE  /\ Remaining(timer') = Remaining(timer)
                      /\ timer'.completed = timer.completed
    BY DEF vars
  <2>1. Good(timer) /\ IsTimer(timer)
    BY TimerFields DEF TimerInv, TypeOK, PauseRemembersItsPhase, Good
  <2>2. SUFFICES timer' # timer =>
                    /\ timer'.phase # "Stopped"
                    /\ ActivePhase(timer') = ActivePhase(timer)
                    /\ Worked(timer') = Worked(timer)
                    /\ timer'.completed = timer.completed
    BY DEF Remaining
  <2>3. CASE timer' = Pause(timer) /\ timer.phase \in Active
    BY <2>1, <2>3, PauseShape DEF IsTimer, Shape, ActivePhase, Worked,
       Active
  <2>4. CASE timer' = Pause(timer) /\ timer.phase \notin Active
    BY <2>1, <2>4 DEF Pause, IsTimer, Phase
  <2>5. CASE timer' = Resume(timer) /\ timer.phase = "Paused"
    BY <2>1, <2>5, ResumeShape DEF Good, Shape, ActivePhase, Worked, Active
  <2>6. CASE timer' = Resume(timer) /\ timer.phase # "Paused"
    BY <2>6 DEF Resume
  <2>7. CASE timer' = Start(timer)
    BY <2>7 DEF Start
  <2>8. CASE timer' = TimerTick(timer) /\ timer.phase = "Paused"
    BY <2>8 DEF TimerTick, Active
  <2>9. CASE timer' = Elapse(timer, 1) /\ timer.phase = "Paused"
    BY <2>1, <2>9, ElapseShape DEF Good, IsTimer, Shape, ActivePhase, Worked
  <2>10. timer.phase \in Active \/ timer.phase = "Paused"
    BY <2>1 DEF IsTimer, Phase
  <2>11. CASE Pass
    BY <2>9, <2>11 DEF Pass, Do
  <2>12. CASE TickCall
    BY <2>8, <2>12 DEF TickCall, Do
  <2>13. CASE ToggleCall
    BY <2>3, <2>5, <2>10, <2>13 DEF ToggleCall, Do, Toggle, Active
  <2>14. CASE StartCall \/ PauseCall \/ ResumeCall
    BY <2>3, <2>4, <2>5, <2>6, <2>7, <2>14 DEF StartCall, PauseCall, ResumeCall, Do
  <2>15. CASE StopCall \/ SkipCall
    BY <2>15 DEF StopCall, SkipCall, Do
  <2>16. QED
    BY <2>11, <2>12, <2>13, <2>14, <2>15 DEF Next
<1>2. QED
  BY <1>1, TimerInvariant, PTL DEF Spec, PauseIsFree

(* A pause changes nothing of what the bar shows but the class             *)
(* (waybar_payload), whatever commands came before.                        *)
THEOREM BarThroughPause == Spec => BarSurvivesPause
<1> DEFINE Same ==
      timer.phase \in Active /\ timer'.phase = "Paused" =>
        /\ WaybarPayload(timer').label = timer.phase
        /\ WaybarPayload(timer') = [WaybarPayload(timer) EXCEPT !.class = "Paused"]
<1>1. TimerInv /\ [Next]_vars => [Same]_vars
  <2> SUFFICES ASSUME TimerInv, Next, timer.phase \in Active,
                      timer'.phase = "Paused"
               PROVE  Same
    BY DEF vars
  <2>1. Good(timer) /\ IsTimer(timer)
    BY TimerFields DEF TimerInv, TypeOK, PauseRemembersItsPhase, Good
  <2>2. timer' = Pause(timer)
    <3>1. ASSUME NEW d \in Nat PROVE Elapse(timer, d).phase = timer.phase
      BY <2>1, ElapseShape DEF Shape
    <3>2. TimerTick(timer).phase # "Paused" /\ Skip(timer).phase # "Paused"
      <4>1. \A t : IsTimer(t) /\ t.phase \in Active => TimerTick(t).phase # "Paused"
        BY EndPhaseShape DEF TimerTick, Shape, PhaseAfter, Active
      <4>2. IsTimer(Rewind(timer)) /\ Rewind(timer).phase \in Active
        <5>1. SkipBack * Second \in Int
          OBVIOUS
        <5>2. QED
          BY <2>1, <5>1, RewindShape DEF IsTimer, Shape, ActivePhase, Active, Phase
      <4>3. QED
        BY <2>1, <4>1, <4>2 DEF Skip, Active
    <3>3. Stop(timer).phase # "Paused"
      BY <2>1, StopShape DEF Shape
    <3>4. timer.phase # "Stopped" /\ timer.phase # "Paused"
      BY DEF Active
    <3>5. QED
      BY <3>1, <3>2, <3>3, <3>4
         DEF Next, Pass, TickCall, StartCall, PauseCall, ResumeCall, StopCall,
             SkipCall, ToggleCall, Do, Start, Resume, Toggle
  <2>3. /\ timer'.pausedPhase = timer.phase
        /\ timer'.phaseAge = timer.phaseAge /\ timer'.pauseAge = 0
    BY <2>1, <2>2, PauseShape DEF Shape
  <2>4. /\ timer.phase # "Stopped" /\ timer'.phase # "Stopped"
        /\ ActivePhase(timer) = timer.phase /\ ActivePhase(timer') = timer.phase
        /\ Worked(timer') = Worked(timer)
    BY <2>1, <2>3 DEF ActivePhase, Worked, Active, IsTimer
  <2>5. Remaining(timer') = Remaining(timer)
    BY <2>4 DEF Remaining
  <2>6. ProgressPercent(timer') = ProgressPercent(timer)
    BY <2>4, <2>5 DEF ProgressPercent
  <2>7. /\ WaybarPayload(timer) =
              [class |-> timer.phase, left |-> Remaining(timer),
               percentage |-> ProgressPercent(timer), label |-> timer.phase]
        /\ WaybarPayload(timer') =
              [class |-> "Paused", left |-> Remaining(timer),
               percentage |-> ProgressPercent(timer), label |-> timer.phase]
    BY <2>4, <2>5, <2>6 DEF WaybarPayload, Label
  <2>8. QED
    BY <2>7
<1>2. QED
  BY <1>1, TimerInvariant, PTL DEF Spec, BarSurvivesPause

----------------------------------------------------------------------------
(* Refinement.  First the two operations that end a phase.                 *)

(* From a running phase, the end of a phase is the cycle's next mode.      *)
LEMMA EndPhaseAdvances ==
    ASSUME TimerInv, NEW t, IsTimer(t), t.phase \in Active,
           t.phase = ActivePhase(timer), t.completed = timer.completed,
           timer' = EndPhase(t)
    PROVE  Cycle!Advance
<1>1. Shape(timer', PhaseAfter(t), t.pausedPhase, 0, t.pauseAge,
            IF t.phase = "Focus" THEN t.completed + 1 ELSE t.completed)
  BY EndPhaseShape
<1>2. PhaseAfter(t) \in Active
  BY DEF PhaseAfter, Active
<1>3. ActivePhase(timer') = PhaseAfter(t) /\ Worked(timer') = 0
  BY <1>1, <1>2 DEF Shape, ActivePhase, Worked, Active
<1>4. t.completed \in Nat
  BY DEF IsTimer
<1>5. (t.completed + 1) % Sessions = ((t.completed % Sessions) + 1) % Sessions
  BY <1>4, RemainderOfSuccessor
<1>6. ActivePhase(timer) # "Stopped"
  BY DEF Active
<1>7. timer'.completed % Sessions =
        IF t.phase = "Focus" THEN ((t.completed % Sessions) + 1) % Sessions
        ELSE t.completed % Sessions
  BY <1>1, <1>5 DEF Shape
<1>8. ActivePhase(timer') =
        IF t.phase # "Focus" THEN "Focus"
        ELSE IF timer'.completed % Sessions = 0 THEN "LongBreak" ELSE "Break"
  BY <1>3, <1>5, <1>7 DEF PhaseAfter
<1>9. timer'.phase \in Active /\ timer'.phase # "Stopped"
  BY <1>1, <1>2 DEF Shape, Active
<1>10. QED
  BY <1>3, <1>6, <1>7, <1>8, <1>9 DEF Cycle!Advance

(* tick() ends a phase only when the stopwatch has reached its duration.   *)
LEMMA TickSimulated ==
    ASSUME TimerInv, TickCall
    PROVE  Cycle!Next
<1>1. Good(timer) /\ IsTimer(timer)
  BY TimerFields DEF TimerInv, TypeOK, PauseRemembersItsPhase, Good
<1>2. timer' = TimerTick(timer) /\ call' = "tick"
  BY DEF TickCall, Do
<1>3. CASE timer.phase \in Active /\ timer.phaseAge >= Due(timer.phase)
  <2>1. ActivePhase(timer) = timer.phase /\ Worked(timer) = timer.phaseAge
        /\ timer.phase # "Stopped"
    BY <1>3 DEF ActivePhase, Worked, Active
  <2>2. timer' = EndPhase(timer)
    BY <1>2, <1>3 DEF TimerTick
  <2>3. Cycle!Advance
    BY <1>1, <1>3, <2>1, <2>2, EndPhaseAdvances
  <2>4. Cycle!Expire
    BY <1>2, <1>3, <2>1, <2>3 DEF Cycle!Expire
  <2>5. QED
    BY <2>4 DEF Cycle!Next
<1>4. CASE ~(timer.phase \in Active /\ timer.phaseAge >= Due(timer.phase))
  <2>1. timer' = timer
    BY <1>2, <1>4 DEF TimerTick
  <2>2. timer.phase \in Active =>
          ActivePhase(timer) = timer.phase /\ Worked(timer) = timer.phaseAge
          /\ timer.phase # "Stopped"
    BY DEF ActivePhase, Worked, Active
  <2>3. ~( /\ timer.phase \in Active
           /\ (IF timer.phase = "Stopped" THEN 0 ELSE Worked(timer))
                 >= Due(ActivePhase(timer)))
    BY <1>4, <2>2
  <2>4. Cycle!Ignored
    BY <1>2, <2>1, <2>3 DEF Cycle!Ignored
  <2>5. QED
    BY <2>4 DEF Cycle!Next
<1>5. QED
  BY <1>3, <1>4

(* skip() always moves on, provided 24 hours are not shorter than a phase. *)
LEMMA SkipSimulated ==
    ASSUME SkipReaches, TimerInv, SkipCall
    PROVE  Cycle!Next
<1>1. Good(timer) /\ IsTimer(timer)
  BY TimerFields DEF TimerInv, TypeOK, PauseRemembersItsPhase, Good
<1>2. timer' = Skip(timer) /\ call' = "skip"
  BY DEF SkipCall, Do
<1>3. CASE timer.phase = "Stopped"
  <2>1. timer' = timer /\ ActivePhase(timer) = "Stopped"
    BY <1>2, <1>3 DEF Skip, ActivePhase
  <2>2. Cycle!Ignored
    BY <1>2, <2>1 DEF Cycle!Ignored
  <2>3. QED
    BY <2>2 DEF Cycle!Next
<1>4. CASE timer.phase # "Stopped"
  <2> DEFINE u == Rewind(timer)
  <2>1. ActivePhase(timer) \in Active
    BY <1>1, <1>4 DEF ActivePhase, Good, IsTimer, Phase, Active
  <2>2. /\ Shape(u, ActivePhase(timer), timer.pausedPhase, SkipBack * Second,
                 timer.pauseAge, timer.completed)
    BY <1>1, RewindShape
  <2>3. IsTimer(u) /\ u.phase = ActivePhase(timer)
        /\ u.completed = timer.completed /\ u.phaseAge = SkipBack * Second
    BY <1>1, <2>1, <2>2 DEF IsTimer, Shape, Phase, Active
  <2>4. PhaseDuration(u.phase) \in Nat /\ PhaseDuration(u.phase) <= SkipBack
    BY <2>1, <2>3 DEF SkipReaches, PhaseDuration, Active
  <2>5. Second * PhaseDuration(u.phase) <= Second * SkipBack
    BY <2>4, TimesMonotone
  <2>6. Due(u.phase) <= u.phaseAge
    BY <2>3, <2>4, <2>5 DEF Due
  <2>7. timer' = EndPhase(u)
    BY <1>2, <1>4, <2>1, <2>3, <2>4, <2>6 DEF Skip, TimerTick, Due
  <2>8. Cycle!Advance
    BY <2>1, <2>3, <2>7, EndPhaseAdvances
  <2>9. QED
    BY <1>2, <2>8 DEF Cycle!SkipAhead, Cycle!Next
<1>5. QED
  BY <1>3, <1>4

(* start(), also by toggle(), begins a focus or does not apply.            *)
LEMMA StartSimulated ==
    ASSUME TimerInv, timer' = Start(timer),
           \/ call' = "start"
           \/ call' = "toggle" /\ timer.phase = "Stopped"
    PROVE  Cycle!Next
<1>1. Good(timer) /\ IsTimer(timer)
  BY TimerFields DEF TimerInv, TypeOK, PauseRemembersItsPhase, Good
<1>2. CASE timer.phase = "Stopped"
  <2>1. Shape(timer', "Focus", timer.pausedPhase, 0, timer.pauseAge,
              timer.completed)
    BY <1>1, <1>2, EnterShape DEF Start
  <2>2. ActivePhase(timer') = "Focus" /\ Worked(timer') = 0
        /\ timer'.phase \in Active /\ timer'.completed = timer.completed
        /\ ActivePhase(timer) = "Stopped"
    BY <1>2, <2>1 DEF Shape, ActivePhase, Worked, Active
  <2>3. Cycle!Begin
    BY <2>2 DEF Cycle!Begin
  <2>4. QED
    BY <2>3 DEF Cycle!Next
<1>3. CASE timer.phase # "Stopped"
  <2>1. timer' = timer /\ call' = "start" /\ ActivePhase(timer) # "Stopped"
    BY <1>1, <1>3 DEF Start, ActivePhase, Good, Active
  <2>2. Cycle!Ignored
    BY <2>1 DEF Cycle!Ignored
  <2>3. QED
    BY <2>2 DEF Cycle!Next
<1>4. QED
  BY <1>2, <1>3

(* pause(), also by toggle(), halts the stopwatch or does not apply.       *)
LEMMA PauseSimulated ==
    ASSUME TimerInv, timer' = Pause(timer),
           \/ call' = "pause"
           \/ call' = "toggle" /\ timer.phase \in Active
    PROVE  Cycle!Next
<1>1. Good(timer) /\ IsTimer(timer)
  BY TimerFields DEF TimerInv, TypeOK, PauseRemembersItsPhase, Good
<1>2. CASE timer.phase \in Active
  <2>1. Shape(timer', "Paused", timer.phase, timer.phaseAge, 0, timer.completed)
    BY <1>1, <1>2, PauseShape
  <2>2. /\ ActivePhase(timer') = timer.phase /\ ActivePhase(timer) = timer.phase
        /\ Worked(timer) = timer.phaseAge /\ Worked(timer') = timer.phaseAge
        /\ timer.phase # "Stopped" /\ timer'.phase # "Stopped"
        /\ timer'.phase \notin Active /\ timer'.completed = timer.completed
    BY <1>1, <1>2, <2>1 DEF Shape, ActivePhase, Worked, Active, IsTimer
  <2>3. Cycle!Halt
    BY <1>2, <2>2 DEF Cycle!Halt
  <2>4. QED
    BY <2>3 DEF Cycle!Next
<1>3. CASE timer.phase \notin Active
  <2>1. timer' = timer /\ call' = "pause"
    BY <1>1, <1>3 DEF Pause, Good, IsTimer, Phase
  <2>2. Cycle!Ignored
    BY <1>3, <2>1 DEF Cycle!Ignored
  <2>3. QED
    BY <2>2 DEF Cycle!Next
<1>4. QED
  BY <1>2, <1>3

(* resume(), also by toggle(), restarts the stopwatch where it stood.      *)
LEMMA ResumeSimulated ==
    ASSUME TimerInv, timer' = Resume(timer),
           \/ call' = "resume"
           \/ call' = "toggle" /\ timer.phase = "Paused"
    PROVE  Cycle!Next
<1>1. Good(timer) /\ IsTimer(timer)
  BY TimerFields DEF TimerInv, TypeOK, PauseRemembersItsPhase, Good
<1>2. CASE timer.phase = "Paused"
  <2>1. Shape(timer', timer.pausedPhase, "Stopped",
              timer.phaseAge - timer.pauseAge, timer.pauseAge, timer.completed)
    BY <1>1, <1>2, ResumeShape
  <2>2. timer.pausedPhase \in Active
    BY <1>1, <1>2 DEF Good
  <2>3. /\ ActivePhase(timer') = timer.pausedPhase
        /\ ActivePhase(timer) = timer.pausedPhase
        /\ Worked(timer) = timer.phaseAge - timer.pauseAge
        /\ Worked(timer') = timer.phaseAge - timer.pauseAge
        /\ timer'.phase # "Stopped" /\ timer.phase # "Stopped"
        /\ timer.phase \notin Active /\ timer'.phase \in Active
        /\ ActivePhase(timer) # "Stopped" /\ timer'.completed = timer.completed
    BY <1>2, <2>1, <2>2 DEF Shape, ActivePhase, Worked, Active
  <2>4. Cycle!Continue
    BY <2>3 DEF Cycle!Continue
  <2>5. QED
    BY <2>4 DEF Cycle!Next
<1>3. CASE timer.phase # "Paused"
  <2>1. timer' = timer /\ call' = "resume"
        /\ (timer.phase \in Active \/ ActivePhase(timer) = "Stopped")
    BY <1>1, <1>3 DEF Resume, ActivePhase, Good, IsTimer, Phase
  <2>2. Cycle!Ignored
    BY <2>1 DEF Cycle!Ignored
  <2>3. QED
    BY <2>2 DEF Cycle!Next
<1>4. QED
  BY <1>2, <1>3

(* toggle() is one of the three above.                                     *)
LEMMA ToggleSimulated ==
    ASSUME TimerInv, ToggleCall
    PROVE  Cycle!Next
<1>1. call' = "toggle" /\ timer' = Toggle(timer) /\ timer.phase \in Phase
  BY DEF ToggleCall, Do, TimerInv, TypeOK, Timer
<1>2. CASE timer.phase = "Stopped"
  BY <1>1, <1>2, StartSimulated DEF Toggle
<1>3. CASE timer.phase = "Paused"
  BY <1>1, <1>3, ResumeSimulated DEF Toggle
<1>4. CASE timer.phase \in Active
  BY <1>1, <1>4, PauseSimulated DEF Toggle, Active
<1>5. QED
  BY <1>1, <1>2, <1>3, <1>4 DEF Phase

(* stop() resets the cycle, whatever was going on.                         *)
LEMMA StopSimulated ==
    ASSUME TimerInv, StopCall
    PROVE  Cycle!Next
<1>1. Good(timer) /\ IsTimer(timer)
  BY TimerFields DEF TimerInv, TypeOK, PauseRemembersItsPhase, Good
<1>2. Shape(timer', "Stopped", "Stopped", timer.phaseAge, timer.pauseAge, 0)
  BY <1>1, StopShape DEF StopCall, Do
<1>3. 0 % Sessions = 0
  OBVIOUS
<1>4. timer'.phase = "Stopped" /\ ActivePhase(timer') = "Stopped"
      /\ timer'.completed % Sessions = 0 /\ timer'.phase \notin Active
  BY <1>2, <1>3 DEF Shape, ActivePhase, Active
<1>5. Cycle!Reset
  BY <1>4 DEF StopCall, Do, Cycle!Reset
<1>6. QED
  BY <1>5 DEF Cycle!Next

(* Time runs the stopwatch, or goes by unnoticed.                          *)
LEMMA PassSimulated ==
    ASSUME TimerInv, Pass
    PROVE  Cycle!Next
<1>1. Good(timer) /\ IsTimer(timer)
  BY TimerFields DEF TimerInv, TypeOK, PauseRemembersItsPhase, Good
<1>2. call' = "pass" /\ timer' = Elapse(timer, 1)
  BY DEF Pass, Do
<1>3. Shape(timer', timer.phase, timer.pausedPhase,
            IF timer.phase = "Stopped" THEN timer.phaseAge ELSE timer.phaseAge + 1,
            IF timer.phase = "Paused" THEN timer.pauseAge + 1 ELSE timer.pauseAge,
            timer.completed)
  BY <1>1, <1>2, ElapseShape
<1>4. ActivePhase(timer') = ActivePhase(timer) /\ timer'.phase = timer.phase
      /\ timer'.completed = timer.completed
  BY <1>3 DEF Shape, ActivePhase
<1>5. CASE timer.phase \in Active
  <2>1. timer.phase # "Stopped" /\ Worked(timer') > Worked(timer)
    BY <1>1, <1>3, <1>5 DEF Shape, Worked, Active, IsTimer
  <2>2. QED
    BY <1>2, <1>4, <1>5, <2>1 DEF Cycle!Pass, Cycle!Next
<1>6. CASE timer.phase \notin Active
  <2>1. timer.phase = "Stopped" \/ Worked(timer') = Worked(timer)
    BY <1>1, <1>3, <1>6 DEF Shape, Worked, IsTimer, Phase
  <2>2. Cycle!Ignored
    BY <1>2, <1>4, <1>6, <2>1 DEF Cycle!Ignored
  <2>3. QED
    BY <2>2 DEF Cycle!Next
<1>7. QED
  BY <1>5, <1>6

(* The timer implements the cycle: phases end only when the stopwatch says *)
(* so or the user skips, pauses do not count, and every Sessions-th focus  *)
(* is followed by the long break.                                          *)
THEOREM TimerImplementsCycle ==
    ASSUME SkipReaches
    PROVE  Spec => ImplementsCycle
<1>1. Init => Cycle!Init
  <2>1. 0 % Sessions = 0
    OBVIOUS
  <2>2. QED
    BY <2>1 DEF Init, NewTimer, Cycle!Init, ActivePhase, Active
<1>2. TimerInv /\ [Next]_vars => [Cycle!Next]_(Cycle!vars)
  <2> SUFFICES ASSUME TimerInv, [Next]_vars
               PROVE  [Cycle!Next]_(Cycle!vars)
    OBVIOUS
  <2>1. CASE Pass
    BY <2>1, PassSimulated
  <2>2. CASE TickCall
    BY <2>2, TickSimulated
  <2>3. CASE StartCall
    BY <2>3, StartSimulated DEF StartCall, Do
  <2>4. CASE PauseCall
    BY <2>4, PauseSimulated DEF PauseCall, Do
  <2>5. CASE ResumeCall
    BY <2>5, ResumeSimulated DEF ResumeCall, Do
  <2>6. CASE StopCall
    BY <2>6, StopSimulated
  <2>7. CASE SkipCall
    BY <2>7, SkipSimulated
  <2>8. CASE ToggleCall
    BY <2>8, ToggleSimulated
  <2>9. CASE UNCHANGED vars
    BY <2>9 DEF vars, Cycle!vars, ActivePhase, Worked
  <2>10. QED
    BY <2>1, <2>2, <2>3, <2>4, <2>5, <2>6, <2>7, <2>8, <2>9 DEF Next
<1>3. QED
  BY <1>1, <1>2, TimerInvariant, PTL DEF Spec, ImplementsCycle, Cycle!Spec
============================================================================
