----------------------------- MODULE MethodProofs -----------------------------
(***************************************************************************)
(* Lemmas about the methods of the timer and of the pet, for whatever      *)
(* calls them: the record each method of PomodoroTimer returns, and that   *)
(* it stays consistent; what a method of the pet keeps, and how far a step *)
(* goes.                                                                   *)
(***************************************************************************)
EXTENDS PomodoroTimer, Pet, TLAPS

USE DurationAssumption, SessionsAssumption, SecondAssumption, ThresholdAssumption

(* Arithmetic: division with remainder.                                    *)

LEMMA TimesMonotone ==
    ASSUME NEW n \in Nat, NEW a \in Int, NEW b \in Int, a <= b
    PROVE  n * a <= n * b
OBVIOUS

LEMMA Division ==
    ASSUME NEW c \in Nat, NEW n \in Nat \ {0}
    PROVE  /\ c \div n \in Nat
           /\ c % n \in 0..(n - 1)
           /\ c = (c \div n) * n + (c % n)
OBVIOUS

LEMMA RemainderUnique ==
    ASSUME NEW c \in Nat, NEW n \in Nat \ {0}, NEW q \in Nat,
           NEW r \in 0..(n - 1), c = n * q + r
    PROVE  c % n = r
<1> DEFINE p == c \div n
           s == c % n
<1>1. p \in Nat /\ s \in 0..(n - 1) /\ c = p * n + s
  BY Division
<1> HIDE DEF p, s
<1>2. CASE p < q
  <2>1. n * (p + 1) <= n * q
    BY <1>1, <1>2, TimesMonotone
  <2>2. n * (p + 1) = n * p + n
    BY <1>1
  <2>3. QED
    BY <1>1, <2>1, <2>2
<1>3. CASE q < p
  <2>1. n * (q + 1) <= n * p
    BY <1>1, <1>3, TimesMonotone
  <2>2. n * (q + 1) = n * q + n
    BY <1>1
  <2>3. QED
    BY <1>1, <2>1, <2>2
<1>4. CASE q = p
  BY <1>1, <1>4 DEF s
<1>5. QED
  BY <1>1, <1>2, <1>3, <1>4

(* Counting one more, then reducing, is reducing, then counting one more.  *)
LEMMA RemainderOfSuccessor ==
    ASSUME NEW c \in Nat, NEW n \in Nat \ {0}
    PROVE  (c + 1) % n = ((c % n) + 1) % n
<1> DEFINE q == c \div n
           r == c % n
<1>1. q \in Nat /\ r \in 0..(n - 1) /\ c = q * n + r
  BY Division
<1> HIDE DEF q, r
<1>2. CASE r + 1 < n
  <2>1. c + 1 = n * q + (r + 1)
    BY <1>1
  <2>2. (c + 1) % n = r + 1
    BY <1>1, <1>2, <2>1, RemainderUnique
  <2>3. r + 1 = n * 0 + (r + 1)
    BY <1>1
  <2>4. (r + 1) % n = r + 1
    BY <1>1, <1>2, <2>3, RemainderUnique
  <2>5. QED
    BY <2>2, <2>4 DEF r
<1>3. CASE r + 1 = n
  <2>1. c + 1 = n * (q + 1) + 0
    BY <1>1, <1>3
  <2>2. (c + 1) % n = 0
    BY <1>1, <2>1, RemainderUnique
  <2>3. r + 1 = n * 1 + 0
    BY <1>1, <1>3
  <2>4. (r + 1) % n = 0
    BY <1>1, <1>3, <2>3, RemainderUnique
  <2>5. QED
    BY <2>2, <2>4 DEF r
<1>4. QED
  BY <1>1, <1>2, <1>3

----------------------------------------------------------------------------
(* Membership in Timer, field by field: what a method has to establish of  *)
(* its result.                                                             *)
Fields == {"phase", "pausedPhase", "phaseAge", "pauseAge", "completed"}

IsTimer(t) ==
    /\ t = [f \in Fields |-> t[f]]
    /\ t.phase \in Phase
    /\ t.pausedPhase \in Active \cup {"Stopped"}
    /\ t.phaseAge \in Int
    /\ t.pauseAge \in Int
    /\ t.completed \in Nat

(* The field-by-field description of a timer is the record set.            *)
LEMMA TimerFields == \A t : IsTimer(t) <=> t \in Timer
<1>1. ASSUME NEW t \in Timer PROVE IsTimer(t)
  BY <1>1 DEF IsTimer, Timer, Fields
<1>2. ASSUME NEW t, IsTimer(t) PROVE t \in Timer
  BY <1>2 DEF IsTimer, Timer, Fields
<1>3. QED
  BY <1>1, <1>2

(* A timer in a consistent state.                                          *)
Good(t) ==
    /\ IsTimer(t)
    /\ t.phase = "Paused" => t.pausedPhase \in Active /\ t.phaseAge >= t.pauseAge
    /\ t.phaseAge >= 0
    /\ t.pauseAge >= 0

(* A record with the fields of a timer and these values in them.  The      *)
(* lemmas below give the shape of what each method returns.                *)
Shape(w, p, q, a, b, n) ==
    /\ w = [f \in Fields |-> w[f]]
    /\ w.phase = p
    /\ w.pausedPhase = q
    /\ w.phaseAge = a
    /\ w.pauseAge = b
    /\ w.completed = n

(* enter() changes the phase and its start, nothing else.                  *)
LEMMA EnterShape ==
    ASSUME NEW t, IsTimer(t), NEW p
    PROVE  Shape(Enter(t, p), p, t.pausedPhase, 0, t.pauseAge, t.completed)
BY DEF Enter, IsTimer, Fields, Shape

(* The first half of skip(): the phase runs again, and is very old.        *)
LEMMA RewindShape ==
    ASSUME NEW t, IsTimer(t)
    PROVE  Shape(Rewind(t), ActivePhase(t), t.pausedPhase, SkipBack * Second,
                 t.pauseAge, t.completed)
BY DEF Rewind, IsTimer, Fields, Shape

(* Counting a focus changes the count only.                                *)
LEMMA CountShape ==
    ASSUME NEW t, IsTimer(t), NEW n
    PROVE  Shape([t EXCEPT !.completed = n],
                 t.phase, t.pausedPhase, t.phaseAge, t.pauseAge, n)
BY DEF IsTimer, Fields, Shape

(* The end of a phase starts the next one afresh.                          *)
PhaseAfter(t) == IF t.phase # "Focus" THEN "Focus"
                 ELSE IF (t.completed + 1) % Sessions = 0 THEN "LongBreak"
                 ELSE "Break"

LEMMA EndPhaseShape ==
    ASSUME NEW t, IsTimer(t)
    PROVE  Shape(EndPhase(t), PhaseAfter(t), t.pausedPhase, 0, t.pauseAge,
                 IF t.phase = "Focus" THEN t.completed + 1 ELSE t.completed)
<1> DEFINE u == [t EXCEPT !.completed = t.completed + 1]
<1>1. Shape(u, t.phase, t.pausedPhase, t.phaseAge, t.pauseAge, t.completed + 1)
  BY CountShape
<1>2. IsTimer(u)
  BY <1>1 DEF IsTimer, Shape
<1>3. CASE t.phase = "Focus"
  <2>1. EndPhase(t) = Enter(u, PhaseAfter(t))
    BY <1>3 DEF EndPhase, PhaseAfter
  <2>2. Shape(Enter(u, PhaseAfter(t)), PhaseAfter(t), u.pausedPhase, 0,
              u.pauseAge, u.completed)
    BY <1>2, EnterShape
  <2>3. QED
    BY <1>1, <1>3, <2>1, <2>2 DEF Shape
<1>4. CASE t.phase # "Focus"
  BY <1>4, EnterShape DEF EndPhase, PhaseAfter
<1>5. QED
  BY <1>3, <1>4

(* pause() remembers the phase and the instant.                            *)
LEMMA PauseShape ==
    ASSUME NEW t, IsTimer(t), t.phase \in Active
    PROVE  Shape(Pause(t), "Paused", t.phase, t.phaseAge, 0, t.completed)
BY DEF Pause, IsTimer, Fields, Shape, Active

(* resume() takes the pause out of the age of the phase.                   *)
LEMMA ResumeShape ==
    ASSUME NEW t, IsTimer(t), t.phase = "Paused"
    PROVE  Shape(Resume(t), t.pausedPhase, "Stopped", t.phaseAge - t.pauseAge,
                 t.pauseAge, t.completed)
BY DEF Resume, IsTimer, Fields, Shape

(* stop() forgets the phase, the pause and the count.                      *)
LEMMA StopShape ==
    ASSUME NEW t, IsTimer(t)
    PROVE  Shape(Stop(t), "Stopped", "Stopped", t.phaseAge, t.pauseAge, 0)
BY DEF Stop, IsTimer, Fields, Shape

(* Time ages the phase, and the pause in a pause.                          *)
LEMMA ElapseShape ==
    ASSUME NEW t, IsTimer(t), NEW d
    PROVE  Shape(Elapse(t, d), t.phase, t.pausedPhase,
                 IF t.phase = "Stopped" THEN t.phaseAge ELSE t.phaseAge + d,
                 IF t.phase = "Paused" THEN t.pauseAge + d ELSE t.pauseAge,
                 t.completed)
BY DEF Elapse, IsTimer, Fields, Shape

----------------------------------------------------------------------------
(* enter() can be given any phase that is not a pause.                     *)
LEMMA EnterGood ==
    ASSUME NEW t, Good(t), NEW p \in Active
    PROVE  Good(Enter(t, p))
BY EnterShape DEF Good, IsTimer, Shape, Phase, Active

(* tick() either leaves the timer alone or enters the next phase.          *)
LEMMA TimerTickGood ==
    ASSUME NEW t, Good(t)
    PROVE  Good(TimerTick(t))
<1>1. t.phase \in Active => Good(EndPhase(t))
  BY EndPhaseShape DEF Good, IsTimer, Shape, PhaseAfter, Phase, Active
<1>2. QED
  BY <1>1 DEF TimerTick

(* skip() ticks a timer whose phase is running and very old.               *)
LEMMA SkipGood ==
    ASSUME NEW t, Good(t)
    PROVE  Good(Skip(t))
<1>1. SkipBack * Second \in Nat
  OBVIOUS
<1>2. CASE t.phase # "Stopped"
  <2>1. ActivePhase(t) \in Active
    BY <1>2 DEF ActivePhase, Good, IsTimer, Phase, Active
  <2>2. Good(Rewind(t))
    BY <1>1, <2>1, RewindShape DEF Good, IsTimer, Shape, Phase, Active
  <2>3. QED
    BY <1>2, <2>2, TimerTickGood DEF Skip
<1>3. QED
  BY <1>2 DEF Skip

(* The other methods keep the timer consistent.                            *)
LEMMA CommandsGood ==
    ASSUME NEW t, Good(t)
    PROVE  Good(Start(t)) /\ Good(Pause(t)) /\ Good(Resume(t)) /\ Good(Stop(t))
<1>1. Good(Start(t))
  BY EnterGood DEF Start, Active
<1>2. Good(Pause(t))
  <2>1. CASE t.phase \in Active
    BY <2>1, PauseShape DEF Good, IsTimer, Shape, Phase
  <2>2. CASE t.phase \notin Active
    BY <2>2 DEF Pause, Good, IsTimer, Phase
  <2>3. QED
    BY <2>1, <2>2
<1>3. Good(Resume(t))
  <2>1. CASE t.phase = "Paused"
    BY <2>1, ResumeShape DEF Good, IsTimer, Shape, Phase, Active
  <2>2. QED
    BY <2>1 DEF Resume
<1>4. Good(Stop(t))
  BY StopShape DEF Good, IsTimer, Shape, Phase
<1>5. QED
  BY <1>1, <1>2, <1>3, <1>4

(* Time passing keeps the timer consistent.                                *)
LEMMA ElapseGood ==
    ASSUME NEW t, Good(t), NEW d \in Nat
    PROVE  Good(Elapse(t, d))
BY ElapseShape DEF Good, IsTimer, Shape

----------------------------------------------------------------------------
(* The state machine.                                                      *)

LEMMA CapIsPositive == StateAgeCap \in Nat \ {0}
BY DEF StateAgeCap

\* The clocks of a state machine and what time does to them.
StateAges == 0..StateAgeCap
MoveAges  == 0..SleepAfter

Older(n, cap) == IF n < cap THEN n + 1 ELSE n

LEMMA Ages ==
    /\ Fsm = [state : PetState, dir : Direction,
              stateAge : StateAges, moveAge : MoveAges]
    /\ 0 \in StateAges /\ 0 \in MoveAges
    /\ \A n \in StateAges : Older(n, StateAgeCap) \in StateAges
    /\ \A n \in MoveAges : Older(n, SleepAfter) \in MoveAges
BY CapIsPositive DEF Fsm, StateAges, MoveAges, Older

(* A new cat stands still, and has been for long.                          *)
LEMMA NewFsmIsTyped == NewFsm \in Fsm
<1>1. StateAgeCap \in StateAges /\ SleepAfter \in MoveAges
  BY CapIsPositive DEF StateAges, MoveAges
<1>2. QED
  BY <1>1, Ages DEF NewFsm, PetState, Direction

(* set_state changes the state and its clock.                              *)
LEMMA SetStateKeeps ==
    ASSUME NEW m \in Fsm, NEW s \in PetState
    PROVE  SetState(m, s) \in Fsm /\ SetState(m, s).dir = m.dir
BY Ages DEF SetState

(* set_direction turns the cat, whatever else it changes.                  *)
LEMMA SetDirectionTurns ==
    ASSUME NEW m \in Fsm, NEW d \in Direction
    PROVE  SetDirection(m, d) \in Fsm
<1> DEFINE n == IF m.state = "Run" /\ d # "None"
                THEN SetState(m, "DirectionChange") ELSE m
<1>1. n \in Fsm
  BY SetStateKeeps DEF PetState
<1>2. [n EXCEPT !.dir = d, !.moveAge = 0] \in Fsm
  BY <1>1, Ages
<1>3. QED
  BY <1>2 DEF SetDirection

(* tick() only ever moves on to another state.                             *)
LEMMA FsmTickKeeps ==
    ASSUME NEW m \in Fsm
    PROVE  FsmTick(m) \in Fsm /\ FsmTick(m).dir = m.dir
<1>1. /\ SetState(m, "Run") \in Fsm /\ SetState(m, "Run").dir = m.dir
      /\ SetState(m, "Sleep") \in Fsm /\ SetState(m, "Sleep").dir = m.dir
  BY SetStateKeeps DEF PetState
<1>2. FsmTick(m) \in {m, SetState(m, "Run"), SetState(m, "Sleep")}
  BY Zenon DEF FsmTick
<1>3. QED
  BY <1>1, <1>2

LEMMA FsmElapseKeeps ==
    ASSUME NEW m \in Fsm
    PROVE  FsmElapse(m) \in Fsm /\ FsmElapse(m).dir = m.dir
           /\ FsmElapse(m).state = m.state
<1>1. FsmElapse(m) = [m EXCEPT !.stateAge = Older(m.stateAge, StateAgeCap),
                               !.moveAge = Older(m.moveAge, SleepAfter)]
  BY DEF FsmElapse, Older
<1>2. QED
  BY <1>1, Ages

----------------------------------------------------------------------------
(* The pet.                                                                *)

(* A heading is on the compass, and is one unless the cat is there.        *)
LEMMA Headings ==
    ASSUME NEW axis, NEW x \in Int, NEW y \in Int
    PROVE  /\ Toward(axis, x, y) \in Direction
           /\ x # y => Toward(axis, x, y) # "None"
BY DEF Toward, Direction

\* A step neither changes the gait nor carries the cat further than it.
Steps(p, q) ==
    /\ q \in PetRecord
    /\ q.speed = p.speed /\ q.idle = p.idle
    /\ Abs(q.pos - p.pos) <= p.speed

(* Without a target, step() neither moves nor turns the cat.               *)
LEMMA StepInPlace ==
    ASSUME NEW p \in PetRecord, p.speed \in Nat, ~p.hasTarget
    PROVE  /\ Steps(p, PetStep(p))
           /\ PetStep(p).pos = p.pos /\ PetStep(p).fsm.dir = p.fsm.dir
<1>1. p.fsm \in Fsm /\ p.pos \in Int
  BY DEF PetRecord
<1>2. FsmTick(p.fsm) \in Fsm /\ FsmTick(p.fsm).dir = p.fsm.dir
  BY <1>1, FsmTickKeeps
<1>3. PetStep(p) = [p EXCEPT !.fsm = FsmTick(p.fsm)]
  BY DEF PetStep
<1>4. [p EXCEPT !.fsm = FsmTick(p.fsm)] \in PetRecord
  BY <1>2 DEF PetRecord
<1>5. QED
  BY <1>1, <1>2, <1>3, <1>4 DEF Steps, Abs, PetRecord

(* A stride is no longer than the speed.                                   *)
LEMMA ApproachIsAStride ==
    ASSUME NEW p \in PetRecord, p.speed \in Nat
    PROVE  Approach(p) \in Int /\ Abs(Approach(p) - p.pos) <= p.speed
BY DEF PetRecord, Approach, Distance, Abs

(* Whatever the target, step() carries the cat one stride at most.         *)
LEMMA StepIsAStride ==
    ASSUME NEW p \in PetRecord, p.speed \in Nat
    PROVE  Steps(p, PetStep(p))
<1>1. p.fsm \in Fsm /\ p.pos \in Int /\ p.target \in Int /\ p.idle \in Int
  BY DEF PetRecord
<1>2. ASSUME NEW m \in Fsm, NEW x \in Int, Abs(x - p.pos) <= p.speed
      PROVE  Steps(p, [p EXCEPT !.fsm = m, !.pos = x])
  BY <1>2 DEF Steps, PetRecord
<1>3. CASE p.hasTarget /\ Distance(p) <= p.idle
  <2>1. SetDirection(p.fsm, "None") \in Fsm
    BY <1>1, SetDirectionTurns DEF Direction
  <2>2. Settle(p.fsm) \in Fsm
    BY <2>1, SetStateKeeps DEF Settle, PetState
  <2>3. FsmTick(Settle(p.fsm)) \in Fsm
    BY <2>2, FsmTickKeeps
  <2>4. PetStep(p) = [p EXCEPT !.fsm = FsmTick(Settle(p.fsm))]
    BY <1>3 DEF PetStep
  <2>5. Steps(p, [p EXCEPT !.fsm = FsmTick(Settle(p.fsm))])
    BY <1>1, <2>3 DEF Steps, PetRecord, Abs
  <2>6. QED
    BY <2>4, <2>5
<1>4. CASE p.hasTarget /\ ~(Distance(p) <= p.idle)
  <2> DEFINE m == SetDirection(WakeUp(p.fsm), Toward(p.axis, p.pos, p.target))
             x == IF m.state = "Run" THEN Approach(p) ELSE p.pos
  <2>1. WakeUp(p.fsm) \in Fsm
    BY <1>1, SetStateKeeps DEF WakeUp, PetState
  <2>2. m \in Fsm
    BY <1>1, <2>1, SetDirectionTurns, Headings
  <2>3. FsmTick(m) \in Fsm
    BY <2>2, FsmTickKeeps
  <2>4. x \in Int /\ Abs(x - p.pos) <= p.speed
    <3>1. p.pos \in Int /\ Abs(p.pos - p.pos) <= p.speed
      BY <1>1 DEF Abs
    <3>2. QED
      BY <3>1, ApproachIsAStride
  <2>5. PetStep(p) = [p EXCEPT !.fsm = FsmTick(m), !.pos = x]
    BY <1>4 DEF PetStep
  <2> HIDE DEF m, x
  <2>6. QED
    BY <1>2, <2>3, <2>4, <2>5
<1>5. QED
  BY <1>3, <1>4, StepInPlace

(* Who moves has been running, and looking where it goes: a cat that wakes *)
(* up or turns does not move in the same step.                             *)
LEMMA LooksFirst ==
    ASSUME NEW p \in PetRecord, p.speed \in Nat, PetStep(p).pos # p.pos
    PROVE  /\ p.hasTarget /\ p.fsm.state = "Run"
           /\ p.fsm.dir = Toward(p.axis, p.pos, PetStep(p).pos)
<1> DEFINE m == SetDirection(WakeUp(p.fsm), Toward(p.axis, p.pos, p.target))
<1>1. /\ p.fsm \in Fsm /\ p.pos \in Int /\ p.target \in Int
      /\ p.fsm.state \in PetState
  BY DEF PetRecord, Fsm
<1>2. p.hasTarget /\ ~(Distance(p) <= p.idle)
  BY DEF PetStep, PetRecord
<1>3. PetStep(p) = [p EXCEPT !.fsm = FsmTick(m),
                             !.pos = IF m.state = "Run" THEN Approach(p) ELSE p.pos]
  BY <1>2 DEF PetStep
<1>4. WakeUp(p.fsm) \in Fsm
      /\ (WakeUp(p.fsm) # p.fsm => WakeUp(p.fsm).state = "Wake")
  BY <1>1, SetStateKeeps, Ages DEF WakeUp, SetState, PetState
<1>5. m.state = "Run" => p.fsm.state = "Run" /\ p.fsm.dir = Toward(p.axis, p.pos, p.target)
  <2>1. ASSUME NEW f \in Fsm, NEW d \in Direction \ {"None"},
               SetDirection(f, d).state = "Run"
        PROVE  f.state = "Run" /\ f.dir = d
    <3>1. CASE f.dir = d
      BY <2>1, <3>1 DEF SetDirection
    <3>2. CASE f.dir # d /\ f.state = "Run"
      BY <2>1, <3>2, Ages DEF SetDirection, SetState
    <3>3. CASE f.dir # d /\ f.state # "Run"
      BY <2>1, <3>3, Ages DEF SetDirection
    <3>4. QED
      BY <3>1, <3>2, <3>3
  <2>2. ASSUME m.state = "Run"
        PROVE  p.fsm.state = "Run" /\ p.fsm.dir = Toward(p.axis, p.pos, p.target)
    <3>1. p.target # p.pos
      BY <1>1, <1>3, <2>2 DEF PetRecord, Approach, Distance, Abs
    <3>2. Toward(p.axis, p.pos, p.target) \in Direction \ {"None"}
      BY <1>1, <3>1, Headings
    <3>3. WakeUp(p.fsm).state = "Run" /\ WakeUp(p.fsm).dir = Toward(p.axis, p.pos, p.target)
      BY <1>4, <2>1, <2>2, <3>2
    <3>4. QED
      BY <1>4, <3>3
  <2>3. QED
    BY <2>2
<1> HIDE DEF m
<1>6. m.state = "Run" /\ PetStep(p).pos = Approach(p)
  BY <1>3 DEF PetRecord
<1>7. /\ p.target < p.pos <=> Approach(p) < p.pos
      /\ p.target > p.pos <=> Approach(p) > p.pos
  BY <1>1, <1>6 DEF Approach, Distance, Abs
<1>8. Toward(p.axis, p.pos, p.target) = Toward(p.axis, p.pos, Approach(p))
  BY <1>1, <1>7, ApproachIsAStride DEF Toward
<1>9. QED
  BY <1>2, <1>5, <1>6, <1>8
=============================================================================
