------------------------------ MODULE AppProofs ------------------------------
(***************************************************************************)
(* Proofs about what the daemon does on ticks, requests and clicks, and    *)
(* about what it shows: for every speed, distance and duration, whatever   *)
(* the user, the cursor and the random generator do.                       *)
(***************************************************************************)
EXTENDS Screen, MethodProofs

USE EffectAssumption, BubbleAssumption, GaitAssumption, RegionAssumption,
    PlaceAssumption, ConfigAssumption

----------------------------------------------------------------------------
(* The cat on a tick.                                                      *)

Gaits == {<<BaseSpeed, BaseIdle>>, <<FocusSpeed, BaseIdle * 3>>}

IsCat(p) == p \in PetRecord /\ <<p.speed, p.idle>> \in Gaits

\* From p to q the cat may have taken one stride, and keeps its gait.
Strides(p, q) == IsCat(q) /\ Abs(q.pos - p.pos) <= TopSpeed

LEMMA Speeds ==
    /\ FocusSpeed \in Nat /\ TopSpeed \in Nat
    /\ BaseSpeed <= TopSpeed /\ FocusSpeed <= TopSpeed
    /\ RegionSlack + TopSpeed <= RegionHalf
<1>1. BaseSpeed \div 2 \in Nat /\ BaseSpeed \div 2 <= BaseSpeed
  OBVIOUS
<1>2. QED
  BY <1>1 DEF FocusSpeed, TopSpeed

LEMMA GaitOfACat ==
    ASSUME NEW p, IsCat(p)
    PROVE  p.speed \in Nat /\ p.idle \in Nat /\ p.speed <= TopSpeed
BY Speeds DEF IsCat, Gaits

(* step() keeps the gait and is one stride.                                *)
LEMMA CatStep ==
    ASSUME NEW p, IsCat(p)
    PROVE  Strides(p, PetStep(p))
<1>1. Steps(p, PetStep(p))
  BY GaitOfACat, StepIsAStride DEF IsCat
<1>2. p.pos \in Int /\ PetStep(p).pos \in Int
  BY <1>1 DEF Steps, IsCat, PetRecord
<1>3. Abs(PetStep(p).pos - p.pos) <= TopSpeed
  BY <1>1, <1>2, GaitOfACat, Speeds DEF Steps, Abs
<1>4. QED
  BY <1>1, <1>3 DEF Steps, IsCat, Strides

(* What a branch of on_tick sets before it steps is not where the cat is.  *)
LEMMA CatSetters ==
    ASSUME NEW p, IsCat(p)
    PROVE  /\ IsCat(NoTarget(p)) /\ NoTarget(p).pos = p.pos
           /\ ~NoTarget(p).hasTarget
           /\ \A x \in Int : /\ IsCat(Aim(p, x)) /\ Aim(p, x).pos = p.pos
                             /\ Aim(p, x).fsm = p.fsm /\ Aim(p, x).axis = p.axis
           /\ \A s \in PetState : /\ IsCat(InState(p, s)) /\ InState(p, s).pos = p.pos
                                  /\ InState(p, s).hasTarget = p.hasTarget
<1>1. p.fsm \in Fsm /\ p \in PetRecord
  BY DEF IsCat, PetRecord
<1>2. IsCat(NoTarget(p)) /\ NoTarget(p).pos = p.pos /\ ~NoTarget(p).hasTarget
  BY <1>1 DEF NoTarget, IsCat, PetRecord
<1>3. ASSUME NEW x \in Int
      PROVE  /\ IsCat(Aim(p, x)) /\ Aim(p, x).pos = p.pos
             /\ Aim(p, x).fsm = p.fsm /\ Aim(p, x).axis = p.axis
  BY <1>1 DEF Aim, IsCat, PetRecord
<1>4. ASSUME NEW s \in PetState
      PROVE  /\ IsCat(InState(p, s)) /\ InState(p, s).pos = p.pos
             /\ InState(p, s).hasTarget = p.hasTarget
  <2>1. SetState(p.fsm, s) \in Fsm
    BY <1>1, SetStateKeeps
  <2>2. QED
    BY <1>1, <2>1 DEF InState, IsCat, PetRecord
<1>5. QED
  BY <1>2, <1>3, <1>4

(* Time and the modulation of a focus change the gait, not the cat.        *)
LEMMA ModulateCat ==
    ASSUME NEW p, IsCat(p), NEW t
    PROVE  /\ IsCat(Modulate(PetElapse(p), t))
           /\ Modulate(PetElapse(p), t).pos = p.pos
           /\ Modulate(PetElapse(p), t).axis = p.axis
           /\ Modulate(PetElapse(p), t).fsm.dir = p.fsm.dir
           /\ Modulate(PetElapse(p), t).fsm.state = p.fsm.state
<1> DEFINE m == FsmElapse(p.fsm)
           e == PetElapse(p)
           Same(q) == /\ IsCat(q) /\ q.pos = p.pos /\ q.axis = p.axis
                      /\ q.fsm.dir = p.fsm.dir /\ q.fsm.state = p.fsm.state
<1>1. p \in PetRecord /\ p.fsm \in Fsm
  BY DEF IsCat, PetRecord
<1>2. m \in Fsm /\ m.dir = p.fsm.dir /\ m.state = p.fsm.state
  BY <1>1, FsmElapseKeeps
<1>3. e = [p EXCEPT !.fsm = m]
  BY DEF PetElapse
<1> HIDE DEF m, e, Same
<1>4. e \in PetRecord /\ e.pos = p.pos /\ e.axis = p.axis /\ e.fsm = m
  BY <1>1, <1>2, <1>3 DEF PetRecord
<1>5. ASSUME NEW s \in Nat, NEW d \in Nat, <<s, d>> \in Gaits
      PROVE  Same([e EXCEPT !.speed = s, !.idle = d])
  <2> DEFINE q == [e EXCEPT !.speed = s, !.idle = d]
  <2>1. q \in PetRecord
    <3>1. s \in Int /\ d \in Int
      OBVIOUS
    <3>2. QED
      BY <1>4, <3>1 DEF PetRecord
  <2>2. /\ q.speed = s /\ q.idle = d /\ q.pos = e.pos /\ q.axis = e.axis
        /\ q.fsm = e.fsm
    BY <1>4 DEF PetRecord
  <2> HIDE DEF q
  <2>3. Same(q)
    BY <1>2, <1>4, <1>5, <2>1, <2>2 DEF IsCat, Same
  <2>4. QED
    BY <2>3 DEF q
<1>6. Modulate(e, t) \in {[e EXCEPT !.speed = FocusSpeed, !.idle = BaseIdle * 3],
                         [e EXCEPT !.speed = BaseSpeed, !.idle = BaseIdle]}
  BY DEF Modulate
<1>7. Same([e EXCEPT !.speed = FocusSpeed, !.idle = BaseIdle * 3])
  <2>1. BaseIdle * 3 \in Nat /\ <<FocusSpeed, BaseIdle * 3>> \in Gaits
    BY DEF Gaits
  <2>2. QED
    BY <1>5, <2>1, Speeds
<1>8. Same([e EXCEPT !.speed = BaseSpeed, !.idle = BaseIdle])
  <2>1. <<BaseSpeed, BaseIdle>> \in Gaits
    BY DEF Gaits
  <2>2. QED
    BY <1>5, <2>1
<1>9. Same(Modulate(e, t))
  BY <1>6, <1>7, <1>8
<1>10. QED
  BY <1>9 DEF e, Same

----------------------------------------------------------------------------
(* Chasing the ball: never nearer to it than BallStop less a stride.       *)
LEMMA BallIsChased ==
    ASSUME NEW p, IsCat(p), NEW x \in Int
    PROVE  /\ Strides(p, ChaseBall(p, x))
           /\ Abs(x - p.pos) > BallStop - TopSpeed
                => Abs(x - ChaseBall(p, x).pos) > BallStop - TopSpeed
<1>1. p.pos \in Int /\ p \in PetRecord
  BY DEF IsCat, PetRecord
<1>2. CASE Abs(x - p.pos) > BallStop
  <2>1. ChaseBall(p, x) = PetStep(Aim(p, x))
    BY <1>2 DEF ChaseBall
  <2>2. IsCat(Aim(p, x)) /\ Aim(p, x).pos = p.pos
    BY CatSetters
  <2>3. Strides(p, ChaseBall(p, x))
    BY <2>1, <2>2, CatStep DEF Strides
  <2>4. ChaseBall(p, x).pos \in Int
    BY <2>3 DEF Strides, IsCat, PetRecord
  <2>5. Abs(x - ChaseBall(p, x).pos) > BallStop - TopSpeed
    BY <1>1, <1>2, <2>3, <2>4, Speeds DEF Strides, Abs
  <2>6. QED
    BY <2>3, <2>5
<1>3. CASE ~(Abs(x - p.pos) > BallStop)
  <2>1. PICK r : /\ r \in {NoTarget(p), InState(NoTarget(p), "Idle")}
                 /\ ChaseBall(p, x) = PetStep(r)
    BY <1>3 DEF ChaseBall
  <2>2. IsCat(NoTarget(p)) /\ NoTarget(p).pos = p.pos
    BY CatSetters
  <2>3. IsCat(r) /\ r.pos = p.pos
    BY <2>1, <2>2, CatSetters DEF PetState
  <2>4. ~r.hasTarget
    BY <1>1, <2>1 DEF NoTarget, InState, PetRecord
  <2>5. PetStep(r).pos = r.pos /\ Strides(r, PetStep(r))
    BY <2>3, <2>4, StepInPlace, GaitOfACat, CatStep DEF IsCat
  <2>6. QED
    BY <2>1, <2>3, <2>5 DEF Strides
<1>4. QED
  BY <1>2, <1>3

(* Food, purr and scratch: the cat neither moves nor turns.                *)
LEMMA CatHoldsStill ==
    ASSUME NEW p, IsCat(p)
    PROVE  /\ Strides(p, HoldStill(p))
           /\ HoldStill(p).pos = p.pos /\ HoldStill(p).fsm.dir = p.fsm.dir
<1> DEFINE r == InState(NoTarget(p), "Idle")
<1>1. p \in PetRecord /\ p.fsm \in Fsm /\ p.pos \in Int
  BY DEF IsCat, PetRecord
<1>2. IsCat(NoTarget(p)) /\ NoTarget(p).pos = p.pos
  BY CatSetters
<1>3. IsCat(r) /\ r.pos = p.pos
  BY <1>2, CatSetters DEF PetState
<1>4. ~r.hasTarget
  BY <1>1 DEF NoTarget, InState, PetRecord
<1>5. r.fsm = SetState(p.fsm, "Idle")
  BY <1>1 DEF NoTarget, InState, PetRecord
<1>6. r.fsm.dir = p.fsm.dir
  BY <1>1, <1>5, SetStateKeeps DEF PetState
<1> HIDE DEF r
<1>7. /\ PetStep(r).pos = r.pos /\ PetStep(r).fsm.dir = r.fsm.dir
      /\ Strides(r, PetStep(r))
  BY <1>3, <1>4, StepInPlace, GaitOfACat, CatStep DEF IsCat
<1>8. HoldStill(p) = PetStep(r)
  BY DEF HoldStill, r
<1>9. QED
  BY <1>3, <1>6, <1>7, <1>8 DEF Strides

(* Whatever branch on_tick takes, it ends in a step(), and whoever has a   *)
(* target then looks as it did before.                                     *)
Prepares(p, r) == /\ IsCat(r) /\ r.pos = p.pos
                  /\ r.hasTarget => r.fsm = p.fsm /\ r.axis = p.axis

LEMMA TickIsAStep ==
    ASSUME NEW p, IsCat(p), NEW t, NEW a \in ActionRecord,
           NEW known, NEW x \in Int
    PROVE  \E r : Prepares(p, r) /\ PetAfterTick(p, t, a, known, x) = PetStep(r)
<1> DEFINE Ends(q) == \E r : Prepares(p, r) /\ q = PetStep(r)
<1>1. p.pos \in Int /\ a.prop \in Int /\ a.current \in Effect
  BY DEF IsCat, PetRecord, ActionRecord
<1>2. \A y \in Int : Prepares(p, Aim(p, y))
  BY CatSetters DEF Prepares
<1>3. Prepares(p, p) /\ Prepares(p, NoTarget(p))
  BY CatSetters DEF Prepares
<1>4. ASSUME NEW s \in PetState
      PROVE  Prepares(p, InState(NoTarget(p), s)) /\ Prepares(p, NoTarget(InState(p, s)))
  <2>1. /\ IsCat(NoTarget(p)) /\ NoTarget(p).pos = p.pos /\ ~NoTarget(p).hasTarget
        /\ IsCat(InState(p, s)) /\ InState(p, s).pos = p.pos
    BY CatSetters
  <2>2. LET r == InState(NoTarget(p), s)
        IN  IsCat(r) /\ r.pos = p.pos /\ ~r.hasTarget
    <3>1. ASSUME NEW c, IsCat(c)
          PROVE  /\ IsCat(InState(c, s)) /\ InState(c, s).pos = c.pos
                 /\ InState(c, s).hasTarget = c.hasTarget
      BY <3>1, CatSetters
    <3>2. QED
      BY <2>1, <3>1
  <2>3. LET r == NoTarget(InState(p, s))
        IN  IsCat(r) /\ r.pos = p.pos /\ ~r.hasTarget
    BY <2>1, CatSetters
  <2>4. QED
    BY <2>2, <2>3 DEF Prepares
<1>5. Ends(ChaseBall(p, a.prop))
  <2>1. ChaseBall(p, a.prop) \in {PetStep(Aim(p, a.prop)), PetStep(NoTarget(p)),
                                 PetStep(InState(NoTarget(p), "Idle"))}
    BY DEF ChaseBall
  <2>2. "Idle" \in PetState
    BY DEF PetState
  <2>3. QED
    BY <1>1, <1>2, <1>3, <1>4, <2>1, <2>2, Zenon
<1>6. Ends(HoldStill(p))
  BY <1>4 DEF HoldStill, PetState
<1>7. Ends(WalkToBasket(p))
  <2>1. FocusCorner(p) \in Int
    BY <1>1 DEF FocusCorner
  <2>2. WalkToBasket(p) \in {PetStep(Aim(p, FocusCorner(p))),
                             PetStep(NoTarget(InState(p, "Sleep")))}
    BY DEF WalkToBasket
  <2>3. "Sleep" \in PetState
    BY DEF PetState
  <2>4. QED
    BY <1>2, <1>4, <2>1, <2>2, <2>3, Zenon
<1>8. Ends(ChaseUpdate(p, known, x))
  BY <1>2, <1>3 DEF ChaseUpdate
<1>9. Ends(StandBy(p))
  BY <1>3 DEF StandBy
<1> HIDE DEF Ends
<1>10. PetAfterTick(p, t, a, known, x)
        \in {ChaseBall(p, a.prop), HoldStill(p), WalkToBasket(p),
             ChaseUpdate(p, known, x), StandBy(p)}
  BY <1>1, Zenon DEF PetAfterTick, Effect, Pool
<1>11. Ends(PetAfterTick(p, t, a, known, x))
  BY <1>5, <1>6, <1>7, <1>8, <1>9, <1>10
<1>12. QED
  BY <1>11 DEF Ends

(* So it is one stride at most, in the direction in which the cat that     *)
(* takes it was running already.                                           *)
LEMMA CatOnTick ==
    ASSUME NEW p, IsCat(p), NEW t, NEW a \in ActionRecord,
           NEW known, NEW x \in Int, NEW q, q = PetAfterTick(p, t, a, known, x)
    PROVE  /\ Strides(p, q)
           /\ q.pos # p.pos => /\ p.fsm.state = "Run"
                               /\ p.fsm.dir = Toward(p.axis, p.pos, q.pos)
<1>1. PICK r : Prepares(p, r) /\ q = PetStep(r)
  BY TickIsAStep
<1>2. Strides(p, q)
  BY <1>1, CatStep DEF Prepares, Strides
<1>3. ASSUME q.pos # p.pos
      PROVE  /\ p.fsm.state = "Run"
             /\ p.fsm.dir = Toward(p.axis, p.pos, q.pos)
  <2>1. r \in PetRecord /\ r.speed \in Nat /\ r.pos = p.pos
    BY <1>1, GaitOfACat DEF Prepares, IsCat
  <2>2. /\ r.hasTarget /\ r.fsm.state = "Run"
        /\ r.fsm.dir = Toward(r.axis, r.pos, q.pos)
    BY <1>1, <1>3, <2>1, LooksFirst
  <2>3. QED
    BY <1>1, <2>1, <2>2 DEF Prepares
<1>4. QED
  BY <1>2, <1>3

----------------------------------------------------------------------------
(* The inductive invariant: the types, with the timer consistent, and one  *)
(* conjunct per property.                                                  *)

Typed ==
    /\ Good(timer) /\ lastPhase \in Phase
    /\ IsCat(pet) /\ action \in ActionRecord /\ region \in Int
    /\ bubble \in BubbleRecord /\ visible \in BOOLEAN
    /\ quitting \in {"no", "deferred", "requested"}
    /\ enabled \in BOOLEAN /\ (enabled => ShowNotifications)
    /\ notice \in Active \cup {"none"}

\* The region lags by RegionSlack, and by the stride taken since.
RegionNear == region # NoRegion => Abs(pet.pos - region) <= RegionSlack + TopSpeed

\* The prop of a meal is still where the callback put it: beside the cat, on
\* the side that FacingEast says of the heading, which the cat keeps.
Side(m) == IF m.dir \in {"None", "E", "NE", "SE"} THEN 1 ELSE -1
MealKeepsPlace ==
    /\ action.current \in {"Food", "Scratch"} => action.prop = pet.pos
    /\ action.current = "Food" => action.beside = Side(pet.fsm) * BowlOffset
    /\ action.current = "Scratch" => action.beside = Side(pet.fsm) * PostOffset

\* In a focus nothing is said in the style that has a tail, but goodbye.
Quiet == lastPhase = "Focus" =>
            ~Speaking(bubble) \/ bubble.style = "Status" \/ bubble.text = "Goodbye"

AppInv == Typed /\ RegionNear /\ BallNotUnderCat /\ MealKeepsPlace /\ Quiet

----------------------------------------------------------------------------
(* The bubble, the notifier and the effect.                                *)

LEMMA BubbleCap == BubbleTimeCap \in Nat \ {0} /\ SayTime \in 0..BubbleTimeCap
                   /\ GoodbyeTime \in 0..BubbleTimeCap
BY DEF BubbleTimeCap

Lefts == 0..BubbleTimeCap

LEMMA BubbleTyped ==
    /\ \A to \in Active : BubbleFor(to) \in BubbleRecord
    /\ Say("Goodbye", GoodbyeTime, "Speech") \in BubbleRecord
    /\ Say("Hello", SayTime, "Speech") \in BubbleRecord
    /\ \A b \in BubbleRecord : BubbleElapse(b) \in BubbleRecord
<1>1. /\ BubbleRecord = [text : Topic, style : Style, left : Lefts]
      /\ 0 \in Lefts /\ SayTime \in Lefts /\ GoodbyeTime \in Lefts
      /\ \A n \in Lefts : n > 1 => n - 1 \in Lefts
  BY BubbleCap DEF BubbleRecord, Lefts
<1>2. ASSUME NEW b \in BubbleRecord
      PROVE  BubbleElapse(b) \in BubbleRecord
  <2>1. Say("nothing", 0, "Status") \in BubbleRecord
    BY <1>1 DEF Say, Topic, Style
  <2>2. b.left > 1 => [b EXCEPT !.left = b.left - 1] \in BubbleRecord
    BY <1>1
  <2>3. QED
    BY <2>1, <2>2 DEF BubbleElapse
<1>3. QED
  BY <1>1, <1>2 DEF BubbleFor, Say, Topic, Style, Active

\* What a bubble is about stays the same until it has expired.
LEMMA BubbleFades ==
    ASSUME NEW b \in BubbleRecord
    PROVE  /\ Speaking(BubbleElapse(b)) => Speaking(b)
           /\ Speaking(BubbleElapse(b)) =>
                BubbleElapse(b).text = b.text /\ BubbleElapse(b).style = b.style
<1>1. b.left \in Nat
  BY BubbleCap DEF BubbleRecord
<1>2. CASE b.left > 1
  BY <1>1, <1>2 DEF BubbleElapse, Speaking, BubbleRecord
<1>3. CASE ~(b.left > 1)
  BY <1>1, <1>3 DEF BubbleElapse, Speaking, Say
<1>4. QED
  BY <1>2, <1>3

\* update() only ends an effect; its prop stays where it was.
LEMMA ActionFades ==
    ASSUME NEW a \in ActionRecord
    PROVE  LET b == ActionUpdate(ActionElapse(a))
           IN  /\ b \in ActionRecord
               /\ b.current # "None" => /\ b.current = a.current /\ b.prop = a.prop
                                        /\ b.beside = a.beside
<1> DEFINE n == IF a.current # "None" /\ a.age < EffectTime THEN a.age + 1 ELSE a.age
           e == ActionElapse(a)
<1>1. a.age \in 0..EffectTime /\ n \in 0..EffectTime
  BY DEF ActionRecord
<1>2. e = [a EXCEPT !.age = n]
  BY DEF ActionElapse
<1> HIDE DEF n, e
<1>3. e \in ActionRecord /\ e.current = a.current /\ e.prop = a.prop
      /\ e.beside = a.beside
  BY <1>1, <1>2 DEF ActionRecord
<1>4. /\ [e EXCEPT !.current = "None"] \in ActionRecord
      /\ [e EXCEPT !.current = "None"].current = "None"
  BY <1>3 DEF ActionRecord, Effect
<1>5. ActionUpdate(e) \in {e, [e EXCEPT !.current = "None"]}
  BY DEF ActionUpdate
<1>6. QED
  BY <1>3, <1>4, <1>5 DEF e

\* The side of the callback is that of the head, except due north and south.
LEMMA SideAndHead ==
    ASSUME NEW m \in Fsm
    PROVE  Side(m) = IF FacesWest(m.dir) <=> m.dir \in {"N", "S"} THEN 1 ELSE -1
BY DEF Fsm, Direction, Side, FacesWest

----------------------------------------------------------------------------
(* Every step keeps the invariant.                                         *)

LEMMA InitEstablishes == Init => AppInv
<1> SUFFICES ASSUME Init PROVE AppInv
  OBVIOUS
<1>1. Good(NewTimer) /\ NewTimer.phase = "Stopped"
  BY DEF Good, IsTimer, NewTimer, Fields, Phase, Active
<1>2. Good(timer) /\ timer.phase \in {"Stopped", "Focus"}
  <2>1. timer = NewTimer \/ timer = Start(NewTimer)
    BY DEF Init
  <2>2. Start(NewTimer) = Enter(NewTimer, "Focus")
    BY <1>1 DEF Start
  <2>3. Good(Start(NewTimer))
    BY <1>1, <2>2, EnterGood DEF Active
  <2>4. Start(NewTimer).phase = "Focus"
    BY <1>1, <2>2, EnterShape DEF Good, Shape
  <2>5. QED
    BY <1>1, <2>1, <2>3, <2>4
<1>3. NewFsm \in Fsm
  BY NewFsmIsTyped
<1>4. IsCat(pet)
  <2>1. PICK axis \in Axis :
           pet = [axis |-> axis, pos |-> Home, target |-> 0, hasTarget |-> FALSE,
               speed |-> BaseSpeed, idle |-> BaseIdle, fsm |-> NewFsm]
    BY DEF Init, NewPet
  <2>2. QED
    BY <1>3, <2>1 DEF IsCat, Gaits, PetRecord
<1>5. action \in ActionRecord /\ action.current = "None"
  BY DEF Init, NewAction, ActionRecord, Effect
<1>6. bubble \in BubbleRecord
  BY BubbleTyped DEF Init, Active
<1>7. lastPhase = "Focus" => bubble.style = "Status"
  <2>1. ASSUME bubble # BubbleFor("Focus") PROVE lastPhase # "Focus"
    BY <1>1, <2>1 DEF Init
  <2>2. BubbleFor("Focus").style = "Status"
    BY DEF BubbleFor, Say
  <2>3. QED
    BY <2>1, <2>2
<1>8. Typed
  <2>1. lastPhase \in Phase /\ region \in Int /\ visible \in BOOLEAN
    BY <1>2 DEF Init, NoRegion, Phase, Active
  <2>2. /\ quitting \in {"no", "deferred", "requested"}
        /\ enabled \in BOOLEAN /\ (enabled => ShowNotifications)
        /\ notice \in Active \cup {"none"}
    BY DEF Init, Active
  <2>3. QED
    BY <1>2, <1>4, <1>5, <1>6, <2>1, <2>2 DEF Typed
<1>9. RegionNear /\ BallNotUnderCat /\ MealKeepsPlace
  BY <1>5 DEF Init, RegionNear, BallNotUnderCat, MealKeepsPlace
<1>10. QED
  BY <1>7, <1>8, <1>9 DEF AppInv, Quiet

LEMMA PhaseChangedKeeps ==
    ASSUME Typed, NEW to \in Phase, PhaseChanged(to)
    PROVE  /\ bubble' \in BubbleRecord
           /\ enabled' \in BOOLEAN /\ (enabled' => ShowNotifications)
           /\ notice' \in Active \cup {"none"}
           /\ to = "Focus" => bubble'.style = "Status"
<1>1. bubble' \in BubbleRecord
  BY BubbleTyped DEF Typed, PhaseChanged
<1>2. to = "Focus" => bubble'.style = "Status"
  BY DEF PhaseChanged, BubbleFor, Say, Active
<1>3. /\ enabled' \in BOOLEAN /\ (enabled' => ShowNotifications)
      /\ notice' \in Active \cup {"none"}
  BY DEF Typed, PhaseChanged, Notify
<1>4. QED
  BY <1>1, <1>2, <1>3

LEMMA TickKeeps ==
    ASSUME AppInv, NEW d \in 0..1, NEW known \in Answers,
           NEW x \in CursorPlaces, Tick(d, known, x)
    PROVE  AppInv'
<1> USE DEF AppInv
<1>0. d \in Nat /\ x \in Int
  OBVIOUS
<1>1. Good(timer') /\ timer'.phase \in Phase /\ lastPhase' = timer'.phase
  BY <1>0, ElapseGood, TimerTickGood DEF Typed, Tick, Good, IsTimer
<1>2. action' = ActionUpdate(ActionElapse(action))
  BY DEF Tick
<1>3. /\ action' \in ActionRecord
      /\ action'.current # "None" =>
            /\ action'.current = action.current /\ action'.prop = action.prop
            /\ action'.beside = action.beside
  BY <1>2, ActionFades DEF Typed
<1>4. PICK p : /\ p = Modulate(PetElapse(pet), timer')
               /\ pet' = PetAfterTick(p, timer', action', known, x)
  BY DEF Tick
<1>5. IsCat(p) /\ p.pos = pet.pos /\ p.fsm.dir = pet.fsm.dir /\ p.pos \in Int
  BY <1>4, ModulateCat DEF Typed, IsCat, PetRecord
<1>6. Strides(p, pet')
  BY <1>0, <1>3, <1>4, <1>5, CatOnTick
<1>7. IsCat(pet') /\ pet'.pos \in Int /\ Abs(pet'.pos - pet.pos) <= TopSpeed
  BY <1>5, <1>6 DEF Strides, IsCat, PetRecord
<1>8. region' \in Int /\ RegionNear'
  <2>1. region' \in Int /\ Abs(pet.pos - region') <= RegionSlack
    BY <1>5 DEF Typed, Tick, RegionAfter, Abs
  <2>2. QED
    BY <1>5, <1>7, <2>1, Speeds DEF RegionNear, Abs
<1>9. BallNotUnderCat'
  <2>1. SUFFICES ASSUME action'.current = "Ball"
                 PROVE  Abs(action'.prop - pet'.pos) > BallStop - TopSpeed
    BY DEF BallNotUnderCat
  <2>2. /\ action'.prop = action.prop /\ action'.prop \in Int
        /\ Abs(action'.prop - p.pos) > BallStop - TopSpeed
    BY <1>3, <1>5, <2>1 DEF BallNotUnderCat, ActionRecord
  <2>3. pet' = ChaseBall(p, action'.prop)
    BY <1>4, <2>1 DEF PetAfterTick
  <2>4. QED
    BY <1>5, <2>2, <2>3, BallIsChased
<1>10. MealKeepsPlace'
  <2>1. ASSUME action'.current \in {"Food", "Scratch"}
        PROVE  pet'.pos = pet.pos /\ pet'.fsm.dir = pet.fsm.dir
    <3>1. pet' = HoldStill(p)
      BY <1>4, <2>1, Zenon DEF PetAfterTick
    <3>2. QED
      BY <1>5, <3>1, CatHoldsStill
  <2>2. QED
    BY <1>3, <2>1 DEF MealKeepsPlace, Side
<1>11. /\ bubble' \in BubbleRecord
       /\ enabled' \in BOOLEAN /\ (enabled' => ShowNotifications)
       /\ notice' \in Active \cup {"none"} /\ Quiet'
  <2>1. CASE timer'.phase # lastPhase
    <3>1. PhaseChanged(timer'.phase)
      BY <2>1 DEF Tick
    <3>2. QED
      BY <1>1, <3>1, PhaseChangedKeeps DEF Quiet
  <2>2. CASE timer'.phase = lastPhase
    <3>1. bubble' = BubbleElapse(bubble) /\ UNCHANGED <<enabled, notice>>
      BY <2>2 DEF Tick
    <3>2. bubble' \in BubbleRecord
      BY <3>1, BubbleTyped DEF Typed
    <3>3. Quiet'
      BY <1>1, <2>2, <3>1, BubbleFades DEF Typed, Quiet
    <3>4. QED
      BY <3>1, <3>2, <3>3 DEF Typed
  <2>3. QED
    BY <2>1, <2>2
<1>12. UNCHANGED <<visible, quitting>>
  BY DEF Tick
<1>13. Typed'
  BY <1>1, <1>3, <1>7, <1>8, <1>11, <1>12 DEF Typed
<1>14. QED
  BY <1>8, <1>9, <1>10, <1>11, <1>13

LEMMA RequestKeeps ==
    ASSUME AppInv, HandleRequest
    PROVE  AppInv'
<1> USE DEF AppInv
<1>1. ASSUME NEW r \in DOMAIN TimerCommand, PomodoroRequest(r)
      PROVE  AppInv'
  <2>1. TimerCommand[r] \in {Start(timer), Pause(timer), Resume(timer),
                             Stop(timer), Skip(timer), Toggle(timer)}
    BY DEF TimerCommand
  <2>2. Good(timer')
    BY <1>1, <2>1, CommandsGood, SkipGood DEF Typed, PomodoroRequest, Toggle
  <2>3. UNCHANGED <<lastPhase, pet, action, region, bubble, visible, quitting,
                    enabled, notice>>
    BY <1>1 DEF PomodoroRequest
  <2>4. QED
    BY <2>2, <2>3 DEF Typed, RegionNear, BallNotUnderCat, MealKeepsPlace, Quiet
<1>2. CASE PetToggle
  BY <1>2 DEF PetToggle, Typed, RegionNear, BallNotUnderCat, MealKeepsPlace, Quiet
<1>3. CASE PetQuit
  <2>1. bubble' = Say("Goodbye", GoodbyeTime, "Speech")
    BY <1>3 DEF PetQuit
  <2>2. bubble' \in BubbleRecord /\ bubble'.text = "Goodbye"
    BY <2>1, BubbleTyped DEF Say
  <2>3. /\ enabled' \in BOOLEAN /\ (enabled' => ShowNotifications)
        /\ notice' \in Active \cup {"none"}
    BY <1>3 DEF PetQuit, Notify, Typed
  <2>4. quitting' \in {"no", "deferred", "requested"}
    BY <1>3 DEF PetQuit, Typed
  <2>5. UNCHANGED <<timer, lastPhase, pet, action, region, visible>>
    BY <1>3 DEF PetQuit
  <2>6. QED
    BY <2>2, <2>3, <2>4, <2>5
       DEF Typed, RegionNear, BallNotUnderCat, MealKeepsPlace, Quiet
<1>4. QED
  BY <1>1, <1>2, <1>3 DEF HandleRequest

LEMMA ClickKeeps ==
    ASSUME AppInv, RightClick
    PROVE  AppInv'
<1> USE DEF AppInv
<1>1. PICK e, place : /\ e \in Pool
                      /\ place \in PropPlaces(e, pet.pos, FacingEast)
                      /\ action' = Triggered(action, e, place)
  BY DEF RightClick
<1>2. UNCHANGED <<timer, lastPhase, pet, region, bubble, visible, quitting,
                  enabled, notice>>
  BY DEF RightClick
<1>3. pet.pos \in Int
  BY DEF Typed, IsCat, PetRecord
<1> DEFINE x == place[1]
           b == place[2]
<1>4. /\ action'.current = e /\ action'.prop = x /\ action'.beside = b
      /\ action' = [current |-> e, lastPlayed |-> e, age |-> 0,
                    prop |-> x, beside |-> b]
  BY <1>1 DEF Triggered
<1>5. CASE e = "Ball"
  <2>1. PICK n \in BallMin..BallMax : /\ b = 0
                                      /\ x = pet.pos + n \/ x = pet.pos - n
    BY <1>1, <1>5 DEF PropPlaces
  <2>2. x \in Int /\ Abs(x - pet.pos) > BallStop - TopSpeed
    BY <1>3, <2>1, Speeds DEF Abs
  <2> HIDE DEF x, b
  <2>3. action' \in ActionRecord
    BY <1>1, <1>4, <2>1, <2>2 DEF ActionRecord, Effect
  <2>4. QED
    BY <1>2, <1>4, <1>5, <2>2, <2>3
       DEF Typed, RegionNear, BallNotUnderCat, MealKeepsPlace, Quiet
<1>6. CASE e # "Ball"
  <2> DEFINE side == IF FacingEast THEN 1 ELSE -1
  <2>1. side \in {1, -1} /\ side = Side(pet.fsm)
    BY DEF FacingEast, Side
  <2>2. /\ x = pet.pos
        /\ e = "Food" => b = side * BowlOffset
        /\ e = "Scratch" => b = side * PostOffset
        /\ e = "Purr" => b = 0
    BY <1>1, <1>6 DEF PropPlaces, Pool
  <2> HIDE DEF side, x, b
  <2>3. x \in Int /\ b \in Int
    BY <1>1, <1>3, <1>6, <2>1, <2>2 DEF Pool
  <2>4. action' \in ActionRecord
    BY <1>1, <1>4, <2>3 DEF ActionRecord, Effect
  <2>5. MealKeepsPlace'
    BY <1>2, <1>3, <1>4, <2>1, <2>2 DEF MealKeepsPlace
  <2>6. QED
    BY <1>2, <1>4, <1>6, <2>4, <2>5
       DEF Typed, RegionNear, BallNotUnderCat, Quiet
<1>7. QED
  BY <1>5, <1>6

(* The types and every property of AppInv hold whatever happens, in        *)
(* whatever order ticks, requests, clicks and the quit thread come.        *)
THEOREM AppInvariant == Spec => []AppInv
<1>1. AppInv /\ [Next]_vars => AppInv'
  <2> SUFFICES ASSUME AppInv, [Next]_vars PROVE AppInv'
    OBVIOUS
  <2>1. CASE OnTick
    BY <2>1, TickKeeps DEF OnTick
  <2>2. CASE HandleRequest
    BY <2>2, RequestKeeps
  <2>3. CASE RightClick
    BY <2>3, ClickKeeps
  <2>4. CASE QuitThread
    BY <2>4 DEF QuitThread, AppInv, Typed, RegionNear, BallNotUnderCat,
                MealKeepsPlace, Quiet
  <2>5. CASE UNCHANGED vars
    BY <2>5 DEF vars, AppInv, Typed, RegionNear, BallNotUnderCat, MealKeepsPlace,
                Quiet
  <2>6. QED
    BY <2>1, <2>2, <2>3, <2>4, <2>5 DEF Next
<1>2. QED
  BY <1>1, InitEstablishes, PTL DEF Spec

----------------------------------------------------------------------------
(* What follows from it.                                                   *)

(* The daemon's state is well typed.                                       *)
THEOREM AppTypes == Spec => []TypeOK
<1>1. AppInv => TypeOK
  BY TimerFields DEF AppInv, Typed, TypeOK, Good, IsCat, Gaits
<1>2. QED
  BY <1>1, AppInvariant, PTL

(* A click on the cat's middle always lands in the input region and is     *)
(* taken, although the region is pushed before the cat moves and only now  *)
(* and then (App::on_tick).                                                *)
THEOREM CatStaysClickable == Spec => []RegionFollowsCat
<1>1. AppInv => RegionFollowsCat
  <2>1. ASSUME AppInv, region # NoRegion PROVE pet.pos \in Clickable
    <3>1. pet.pos \in Int /\ region \in Int
      BY <2>1 DEF AppInv, Typed, IsCat, PetRecord
    <3>2. Abs(pet.pos - region) <= RegionHalf
      BY <2>1, <3>1, Speeds DEF AppInv, RegionNear, Abs
    <3>3. /\ pet.pos \in (region - RegionHalf)..(region + RegionHalf)
          /\ Abs(pet.pos - pet.pos) <= ClickRadius
      BY <3>1, <3>2 DEF Abs
    <3>4. QED
      BY <2>1, <3>3 DEF Clickable
  <2>2. QED
    BY <2>1 DEF RegionFollowsCat
<1>2. QED
  BY <1>1, AppInvariant, PTL

(* The ball never ends up under the cat's belly (the Ball branch of        *)
(* App::on_tick), at any speed that a phase gives it.                      *)
THEOREM BallStaysClear == Spec => []BallNotUnderCat
<1>1. AppInv => BallNotUnderCat
  BY DEF AppInv
<1>2. QED
  BY <1>1, AppInvariant, PTL

(* The bowl and the post stay beside the cat for as long as the effect     *)
(* lasts: in front of the head that is drawn, except that of a cat that    *)
(* was running due north or due south, which has them behind it (the       *)
(* button callback against faces_west).                                    *)
THEOREM MealStaysBeside == Spec => []PropBesideHead
<1>1. AppInv => PropBesideHead
  <2>1. ASSUME AppInv PROVE PropBesideHead
    <3> DEFINE head  == IF ProceduralCat(pet.fsm).mirrored THEN -1 ELSE 1
               front == IF pet.fsm.dir \in {"N", "S"} THEN -head ELSE head
    <3>1. ProceduralCat(pet.fsm).mirrored = FacesWest(pet.fsm.dir)
      BY DEF ProceduralCat
    <3>2. front = Side(pet.fsm)
      BY <2>1, <3>1, SideAndHead DEF AppInv, Typed, IsCat, PetRecord
    <3> HIDE DEF front
    <3>3. ASSUME Prop(action, pet).shows \in {"Food", "Scratch"}
          PROVE  /\ action.current = Prop(action, pet).shows
                 /\ Prop(action, pet).at = action.prop
                 /\ Prop(action, pet).beside = action.beside
      BY <3>3 DEF Prop, Nothing
    <3>4. /\ Prop(action, pet).shows = "Food" =>
               Prop(action, pet).at = pet.pos /\ Prop(action, pet).beside = front * BowlOffset
          /\ Prop(action, pet).shows = "Scratch" =>
               Prop(action, pet).at = pet.pos /\ Prop(action, pet).beside = front * PostOffset
      BY <2>1, <3>2, <3>3 DEF AppInv, MealKeepsPlace
    <3>5. QED
      BY <3>4 DEF front, PropBesideHead
  <2>2. QED
    BY <2>1
<1>2. QED
  BY <1>1, AppInvariant, PTL

(* In a focus the cat says nothing but goodbye, whatever it was saying     *)
(* before and however the focus began (App::on_pomodoro_phase_changed).    *)
THEOREM FocusStaysQuiet == Spec => []QuietInFocus
<1>1. AppInv => QuietInFocus
  <2>1. ASSUME AppInv, lastPhase = "Focus", visible,
               Balloon(bubble, pet) # Nothing, Balloon(bubble, pet).tail
        PROVE  Balloon(bubble, pet).shows = "Goodbye"
    <3>1. Speaking(bubble)
      BY <2>1 DEF Balloon
    <3>2. Balloon(bubble, pet) = [shows |-> bubble.text,
                                  tail |-> bubble.style = "Speech",
                                  over |-> pet.pos]
      BY <3>1 DEF Balloon
    <3>3. bubble.style = "Speech"
      <4>1. Balloon(bubble, pet).tail = (bubble.style = "Speech")
        BY <3>2
      <4>2. QED
        BY <2>1, <4>1, Zenon
    <3>4. QED
      BY <2>1, <3>1, <3>2, <3>3 DEF AppInv, Quiet
  <2>2. visible => Picture(<<>>)[3] = Balloon(bubble, pet)
    BY DEF Picture
  <2>3. QED
    BY <2>1, <2>2 DEF QuietInFocus
<1>2. QED
  BY <1>1, AppInvariant, PTL

----------------------------------------------------------------------------
(* How the cat is drawn that moves.                                        *)

\* An animation is found under its own name.
LEMMA FoundByName ==
    ASSUME NEW manifest, Load(manifest) # Nothing,
           NEW m, m.state \in PetState, Resolve(Load(manifest), m) # Nothing
    PROVE  \E i \in DOMAIN Names(m) : Resolve(Load(manifest), m).shows = Names(m)[i]
<1> DEFINE names == Names(m)
           anims == Load(manifest).animations
           found == {i \in DOMAIN names : names[i] \in DOMAIN anims}
           first == CHOOSE i \in found : \A j \in found : i <= j
<1>1. Resolve(Load(manifest), m) = IF found = {} THEN Nothing ELSE anims[names[first]]
  BY DEF Resolve
<1>2. anims = [name \in Keys(manifest) \ {"image"} |->
                  Animation(name, Value(manifest, name))]
  BY DEF Load, Sheet
<1> HIDE DEF names, anims
<1>3. \A name \in DOMAIN anims : anims[name].shows = name
  BY <1>2 DEF Animation
<1>4. first \in found
  <2>1. \E i \in found : \A j \in found : i <= j
    <3>1. found # {}
      BY <1>1
    <3>2. DOMAIN names \in {1..1, 1..2}
      BY DEF names, Names, PetState
    <3>3. found \subseteq 1..2
      BY <3>2
    <3>4. QED
      BY <3>1, <3>3
  <2>2. QED
    BY <2>1
<1>5. QED
  BY <1>1, <1>3, <1>4 DEF names

\* The name of the run that a heading has, and the way the cat is drawn.
LEMMA RunOfHeading ==
    ASSUME NEW axis \in Axis, NEW x \in Int, NEW y \in Int, x # y
    PROVE  /\ RunName[Toward(axis, x, y)] = RunThere(axis, x, y)
           /\ FacesWest(Toward(axis, x, y)) <=> RunThere(axis, x, y) = "run_w"
<1>1. CASE axis = "horizontal"
  BY <1>1 DEF RunName, RunThere, Toward, FacesWest
<1>2. CASE axis # "horizontal"
  BY <1>2 DEF RunName, RunThere, Toward, FacesWest
<1>3. QED
  BY <1>1, <1>2

\* What the sheet has for a cat that runs, it shows running that way.
LEMMA SheetShowsTheWay ==
    ASSUME NEW manifest, Load(manifest) # Nothing,
           NEW m, m.state = "Run"
    PROVE  SheetCat(Load(manifest), m).shows \in {"idle", "nothing", RunName[m.dir]}
<1> DEFINE a == Resolve(Load(manifest), m)
<1>1. SheetCat(Load(manifest), m) \in {Nothing, a}
  BY DEF SheetCat
<1>2. Names(m) = <<RunName[m.dir], "idle">>
  BY DEF Names
<1>3. \A i \in DOMAIN Names(m) :
          Names(m)[i] \in {"idle", RunName[m.dir]}
  BY <1>2
<1>4. a # Nothing =>
        a.shows \in {"idle", RunName[m.dir]}
  BY <1>3, FoundByName DEF PetState
<1> HIDE DEF a
<1>5. Nothing.shows = "nothing"
  BY DEF Nothing
<1>6. QED
  BY <1>1, <1>4, <1>5

(* Who sees the cat move sees it run that way, with and without a sheet,   *)
(* whichever sheet it is (App::on_tick, Pet::step, App::draw).             *)
THEOREM SeenRunning == Spec => LooksWhereItGoes
<1> DEFINE Looks ==
      pet'.pos # pet.pos =>
          \A manifest \in Manifests :
              LET seen == Cat(manifest, pet)
                  run  == RunThere(pet.axis, pet.pos, pet'.pos)
              IN  IF Load(manifest) = Nothing
                  THEN seen.legs = "striding" /\ (seen.mirrored <=> run = "run_w")
                  ELSE seen.shows \in {"idle", "nothing", run}
<1>1. AppInv /\ [Next]_vars => [Looks]_vars
  <2> SUFFICES ASSUME AppInv, [Next]_vars, pet'.pos # pet.pos,
                      NEW manifest \in Manifests
               PROVE  LET seen == Cat(manifest, pet)
                          run  == RunThere(pet.axis, pet.pos, pet'.pos)
                      IN  IF Load(manifest) = Nothing
                          THEN /\ seen.legs = "striding"
                               /\ (seen.mirrored <=> run = "run_w")
                          ELSE seen.shows \in {"idle", "nothing", run}
    OBVIOUS
  <2>1. OnTick
    BY DEF Next, HandleRequest, PomodoroRequest, PetToggle, PetQuit, RightClick,
           QuitThread, vars
  <2>2. PICK d \in 0..1, known \in Answers, x \in CursorPlaces : Tick(d, known, x)
    BY <2>1 DEF OnTick
  <2>3. /\ action' = ActionUpdate(ActionElapse(action))
        /\ \E p \in {Modulate(PetElapse(pet), timer')} :
               pet' = PetAfterTick(p, timer', action', known, x)
    BY <2>2 DEF Tick
  <2>4. PICK p : /\ p = Modulate(PetElapse(pet), timer')
                 /\ pet' = PetAfterTick(p, timer', action', known, x)
    BY <2>3
  <2>5. /\ IsCat(p) /\ p.pos = pet.pos /\ p.axis = pet.axis
        /\ p.fsm.dir = pet.fsm.dir /\ p.fsm.state = pet.fsm.state
    BY <2>4, ModulateCat DEF AppInv, Typed
  <2>6. action' \in ActionRecord /\ x \in Int
    BY <2>3, ActionFades DEF AppInv, Typed
  <2>7. /\ pet.fsm.state = "Run"
        /\ pet.fsm.dir = Toward(pet.axis, pet.pos, pet'.pos)
        /\ RunName[pet.fsm.dir] = RunThere(pet.axis, pet.pos, pet'.pos)
        /\ FacesWest(pet.fsm.dir) <=> RunThere(pet.axis, pet.pos, pet'.pos) = "run_w"
    <3>1. /\ pet.fsm.state = "Run" /\ Strides(p, pet')
          /\ pet.fsm.dir = Toward(pet.axis, pet.pos, pet'.pos)
      BY <2>4, <2>5, <2>6, CatOnTick
    <3>2. pet.axis \in Axis /\ pet.pos \in Int /\ pet'.pos \in Int
      BY <2>5, <3>1 DEF Strides, IsCat, PetRecord
    <3>3. QED
      BY <3>1, <3>2, RunOfHeading
  <2>8. CASE Load(manifest) = Nothing
    <3>1. Cat(manifest, pet) = ProceduralCat(pet.fsm)
      BY <2>8 DEF Cat
    <3>2. ProceduralCat(pet.fsm).legs = "striding"
      BY <2>7 DEF ProceduralCat, Legs
    <3>3. ProceduralCat(pet.fsm).mirrored = FacesWest(pet.fsm.dir)
      BY <2>7 DEF ProceduralCat
    <3>4. QED
      BY <2>7, <2>8, <3>1, <3>2, <3>3
  <2>9. CASE Load(manifest) # Nothing
    <3>1. Cat(manifest, pet) = SheetCat(Load(manifest), pet.fsm)
      BY <2>9 DEF Cat
    <3>2. QED
      BY <2>7, <2>9, <3>1, SheetShowsTheWay
  <2>10. QED
    BY <2>8, <2>9
<1>2. Spec => [][Looks]_vars
  BY <1>1, AppInvariant, PTL DEF Spec
<1>3. QED
  BY <1>2 DEF LooksWhereItGoes
============================================================================
