-------------------------------- MODULE App --------------------------------
(***************************************************************************)
(* The daemon: what App does with the pomodoro timer, the pet, the effects *)
(* and the bubble on a tick, on a control request and on a right-click.    *)
(* Handlers run to completion on one thread, in any order; only the quit   *)
(* thread runs beside them.                                                *)
(***************************************************************************)
EXTENDS PomodoroTimer, Pet, ActionState, SpeechBubble

CONSTANTS
    Home,              \* the middle of the primary output
    Corner,            \* focus_corner_position, unless there is none
    HasCorner,         \* whether a corner and an output are configured
    BaseSpeed,         \* cfg_.movement_speed
    BaseIdle,          \* cfg_.idle_distance
    SlowestFocus,      \* the 2 px a focusing cat still makes per tick
    BallStop,          \* the 40 px at which it stops short of the ball
    RegionSlack,       \* the 10 px the input region may lag behind
    RegionHalf,        \* the 55 px the input region reaches each way
    ClickRadius,       \* the 100 px a click is accepted within
    Behavior,          \* cfg_.behavior
    ShowNotifications, \* cfg_.pomodoro_show_notifications
    \* What the environment does: bounds of a run.
    CursorPlaces,      \* where the cursor may be
    Answers,           \* what poll() may do: know the cursor or not
    Requests,          \* the control requests the user sends
    Draws,             \* the effects the random generator draws
    Axes,              \* the ways the line may run that everything is on
    Line,              \* where on it a ball may land
    MaxAge,            \* how old a phase may get
    MaxCompleted       \* how many focus sessions are counted

ASSUME GaitAssumption ==
    /\ BaseSpeed \in Nat \ {0} /\ SlowestFocus \in Nat \ {0}
    /\ BaseIdle \in Nat
    /\ BallStop \in Nat /\ BaseIdle <= BallStop /\ BallStop < BallMin

ASSUME RegionAssumption ==
    /\ RegionSlack \in Nat /\ RegionHalf \in Nat /\ ClickRadius \in Nat
    /\ RegionSlack + BaseSpeed <= RegionHalf
    /\ RegionSlack + SlowestFocus <= RegionHalf

ASSUME PlaceAssumption ==
    /\ Home \in Int /\ Corner \in Int /\ HasCorner \in BOOLEAN
    /\ CursorPlaces \subseteq Int /\ Line \subseteq Int
    /\ Answers \subseteq BOOLEAN /\ Axes \subseteq Axis
    /\ MaxAge \in Nat /\ MaxCompleted \in Nat

ASSUME ConfigAssumption ==
    /\ Behavior \in {"cursor_chase", "idle"}
    /\ ShowNotifications \in BOOLEAN

VARIABLES
    timer,         \* pomodoro_
    lastPhase,     \* last_pomodoro_phase_
    pet,           \* pet_
    action,        \* action_
    region,        \* last_region_gx_, also what the overlay was given
    bubble,        \* bubble_
    visible,       \* pet_visible_
    quitting,      \* the detached quit thread, and then should_quit_
    enabled,       \* notifier_.enabled_
    notice         \* history: the phase of the last notification that names one

vars == <<timer, lastPhase, pet, action, region, bubble, visible, quitting,
          enabled, notice>>

NoRegion == -10000     \* before the first tick, the overlay has no input region

----------------------------------------------------------------------------
(* on_pomodoro_phase_changed.                                              *)

BubbleFor(phase) ==
    Say(phase, SayTime, IF phase = "Focus" THEN "Status" ELSE "Speech")

\* Notifier::notify: a notify-send that cannot be spawned, once, and there are
\* no more notifications.  topic is the phase it names.
Notify(topic) ==
    \/ enabled /\ notice' = topic /\ UNCHANGED enabled
    \/ enabled' = FALSE /\ UNCHANGED notice

\* Faulty: only the first focus of a session is announced.
PhaseChangedFirstFocus(to) ==
    LET spoken == to \in Active /\ (to = "Focus" => lastPhase = "Stopped")
    IN  /\ bubble' = IF spoken THEN BubbleFor(to) ELSE BubbleElapse(bubble)
        /\ IF spoken /\ ShowNotifications THEN Notify(to) ELSE UNCHANGED <<enabled, notice>>

\* A phase that the user is in is announced, on screen and by notify-send.
PhaseChanged(to) ==
    /\ bubble' = IF to \in Active THEN BubbleFor(to) ELSE BubbleElapse(bubble)
    /\ IF to \in Active /\ ShowNotifications THEN Notify(to)
       ELSE UNCHANGED <<enabled, notice>>

----------------------------------------------------------------------------
(* The constructor and the start of run().                                 *)

Init ==
    /\ \E autostart \in BOOLEAN :
         /\ timer = IF autostart THEN Start(NewTimer) ELSE NewTimer
         /\ bubble = IF autostart THEN BubbleFor("Focus")
                     ELSE Say("Hello", SayTime, "Speech")
         /\ enabled \in BOOLEAN /\ (enabled => ShowNotifications)
         /\ notice = IF autostart /\ enabled THEN "Focus" ELSE "none"
    /\ lastPhase = timer.phase
    /\ \E axis \in Axes : pet = NewPet(axis, Home, BaseSpeed, BaseIdle)
    /\ action = NewAction
    /\ region = NoRegion
    /\ visible = TRUE
    /\ quitting = "no"

----------------------------------------------------------------------------
(* on_tick: its branches, each from the pet before to the pet after.       *)

FocusSpeed == IF BaseSpeed \div 2 > SlowestFocus THEN BaseSpeed \div 2
              ELSE SlowestFocus

\* A focus only slows down a cat that is not slower than SlowestFocus anyway.
TopSpeed == IF FocusSpeed > BaseSpeed THEN FocusSpeed ELSE BaseSpeed

\* Faulty: the rest distance grows from its own last value.
ModulateCompounding(p, t) ==
    IF ActivePhase(t) = "Focus"
    THEN [p EXCEPT !.speed = FocusSpeed, !.idle = @ * 3]
    ELSE [p EXCEPT !.speed = BaseSpeed, !.idle = BaseIdle]

\* PomodoroBehavior::apply
Modulate(p, t) ==
    IF ActivePhase(t) = "Focus"
    THEN [p EXCEPT !.speed = FocusSpeed, !.idle = BaseIdle * 3]
    ELSE [p EXCEPT !.speed = BaseSpeed, !.idle = BaseIdle]

NoTarget(p) == [p EXCEPT !.hasTarget = FALSE]

InState(p, s) == [p EXCEPT !.fsm = SetState(@, s)]

\* Faulty: all the way to the ball.
ChaseBallAllTheWay(p, prop) == PetStep(Aim(p, prop))

\* Chase the yarn ball, but stop short of it.
ChaseBall(p, prop) ==
    PetStep(IF Abs(prop - p.pos) > BallStop THEN Aim(p, prop)
            ELSE IF p.fsm.state = "Run" THEN InState(NoTarget(p), "Idle")
            ELSE NoTarget(p))

\* Faulty: the target of the chase is kept.
HoldStillAiming(p) == PetStep(InState(p, "Idle"))

\* Food, Purr, Scratch: stay put.
HoldStill(p) == PetStep(InState(NoTarget(p), "Idle"))

FocusCorner(p) == IF HasCorner THEN Corner ELSE p.pos

\* Walk to the basket, and sleep in it.
WalkToBasket(p) ==
    PetStep(IF Abs(FocusCorner(p) - p.pos) <= p.idle
            THEN NoTarget(InState(p, "Sleep"))
            ELSE Aim(p, FocusCorner(p)))

StandBy(p) == PetStep(NoTarget(p))

\* Faulty: a paused focus does not keep the cat in the basket.
PetAfterTickPauseFrees(p, t, a, known, x) ==
    CASE a.current = "Ball"                      -> ChaseBall(p, a.prop)
      [] a.current \in {"Food", "Purr", "Scratch"} -> HoldStill(p)
      [] a.current = "None" /\ t.phase = "Focus" -> WalkToBasket(p)
      [] a.current = "None" /\ t.phase # "Focus" ->
             IF Behavior = "cursor_chase" THEN ChaseUpdate(p, known, x)
             ELSE StandBy(p)

\* An effect takes precedence over the phase, the phase over the behavior.
PetAfterTick(p, t, a, known, x) ==
    CASE a.current = "Ball"                      -> ChaseBall(p, a.prop)
      [] a.current \in {"Food", "Purr", "Scratch"} -> HoldStill(p)
      [] a.current = "None" /\ ActivePhase(t) = "Focus" -> WalkToBasket(p)
      [] a.current = "None" /\ ActivePhase(t) # "Focus" ->
             IF Behavior = "cursor_chase" THEN ChaseUpdate(p, known, x)
             ELSE StandBy(p)

\* Faulty: only a cat that has gone east is followed.
RegionAfterEastOnly(x) == IF x - region > RegionSlack THEN x ELSE region

\* The input region follows a cat that has moved more than RegionSlack.
RegionAfter(x) ==
    IF Abs(x - region) > RegionSlack THEN x ELSE region

\* d is how far the timer's much coarser clock got since the last tick.
Tick(d, known, x) ==
    /\ timer.phaseAge + d <= MaxAge
    /\ timer' = TimerTick(Elapse(timer, d))
    /\ timer'.completed <= MaxCompleted
    /\ lastPhase' = timer'.phase
    /\ IF timer'.phase # lastPhase THEN PhaseChanged(timer'.phase)
       ELSE bubble' = BubbleElapse(bubble) /\ UNCHANGED <<enabled, notice>>
    /\ action' = ActionUpdate(ActionElapse(action))
    /\ region' = RegionAfter(pet.pos)
    /\ \E p \in {Modulate(PetElapse(pet), timer')} :
          pet' = PetAfterTick(p, timer', action', known, x)
    /\ UNCHANGED <<visible, quitting>>

OnTick == \E d \in 0..1, known \in Answers, x \in CursorPlaces : Tick(d, known, x)

----------------------------------------------------------------------------
(* handle_request.  The requests that only report change nothing.          *)

TimerCommand ==
    [start |-> Start(timer), pause |-> Pause(timer), resume |-> Resume(timer),
     stop |-> Stop(timer), skip |-> Skip(timer), toggle |-> Toggle(timer)]

PomodoroRequest(r) ==
    /\ TimerCommand[r].completed <= MaxCompleted
    /\ timer' = TimerCommand[r]
    /\ UNCHANGED <<lastPhase, pet, action, region, bubble, visible, quitting,
                   enabled, notice>>

PetToggle ==
    /\ visible' = ~visible
    /\ UNCHANGED <<timer, lastPhase, pet, action, region, bubble, quitting,
                   enabled, notice>>

PetQuit ==
    /\ bubble' = Say("Goodbye", GoodbyeTime, "Speech")
    /\ quitting' = IF quitting = "no" THEN "deferred" ELSE quitting
    /\ Notify(notice)
    /\ UNCHANGED <<timer, lastPhase, pet, action, region, visible>>

HandleRequest ==
    \/ \E r \in Requests \cap DOMAIN TimerCommand : PomodoroRequest(r)
    \/ "pet:toggle" \in Requests /\ PetToggle
    \/ "pet:quit" \in Requests /\ PetQuit

\* The detached thread, two seconds later.
QuitThread ==
    /\ quitting = "deferred"
    /\ quitting' = "requested"
    /\ UNCHANGED <<timer, lastPhase, pet, action, region, bubble, visible, enabled, notice>>

----------------------------------------------------------------------------
(* The button callback: the compositor delivers a click that lands in the  *)
(* input region, and the callback takes one that is near the cat.          *)

FacingEast == pet.fsm.dir \in {"None", "E", "NE", "SE"}

\* The clicks that are delivered, and those of them that are taken.
Clickable == IF region = NoRegion THEN {}
             ELSE {gx \in (region - RegionHalf)..(region + RegionHalf) :
                      Abs(gx - pet.pos) <= ClickRadius}

RightClick ==
    /\ Clickable # {}
    /\ \E e \in (Pool \cap Draws) \ {action.lastPlayed} :
          \E place \in PropPlaces(e, pet.pos, FacingEast) :
             /\ e = "Ball" => place[1] \in Line
             /\ action' = Triggered(action, e, place)
    /\ UNCHANGED <<timer, lastPhase, pet, region, bubble, visible, quitting,
                   enabled, notice>>

----------------------------------------------------------------------------
Next == OnTick \/ HandleRequest \/ RightClick \/ QuitThread

Spec == Init /\ [][Next]_vars

\* The timerfd keeps firing, and the sleep of the quit thread ends.
FairSpec == Spec /\ WF_vars(OnTick) /\ WF_vars(QuitThread)

----------------------------------------------------------------------------
(* Safety.                                                                 *)

TypeOK ==
    /\ timer \in Timer
    /\ lastPhase \in Phase
    /\ pet \in PetRecord
    /\ <<pet.speed, pet.idle>> \in {<<BaseSpeed, BaseIdle>>,
                                   <<FocusSpeed, BaseIdle * 3>>}
    /\ action \in ActionRecord
    /\ region \in Int
    /\ bubble \in BubbleRecord
    /\ visible \in BOOLEAN
    /\ quitting \in {"no", "deferred", "requested"}
    /\ enabled => ShowNotifications
    /\ notice \in Active \cup {"none"}

(* The input region is pushed before the cat moves and only now and then,  *)
(* yet the cat never runs out from under it: a click on the cat's middle   *)
(* always reaches the callback, whatever the cat is doing.                 *)
RegionFollowsCat == region # NoRegion => pet.pos \in Clickable

(* "Chase the yarn ball but stop short so the ball doesn't end up under    *)
(* the cat's belly": whatever the phase, at least a stride is left.        *)
BallNotUnderCat ==
    action.current = "Ball" => Abs(action.prop - pet.pos) > BallStop - TopSpeed

----------------------------------------------------------------------------
(* Liveness.                                                               *)

AtRestBy(x, d) == Abs(x - pet.pos) <= d /\ pet.fsm.state = "Sleep"

(* "During focus the pet sleeps in its basket in the configured corner":   *)
(* wherever it was and whatever it was doing, a cat that is left in a      *)
(* focus, running or paused, ends up asleep there and stays.               *)
SleepsInBasket ==
    <>[](ActivePhase(timer) = "Focus" /\ action.current = "None")
        => <>[](AtRestBy(Corner, BaseIdle * 3))

(* "During break it wakes up and chases the cursor again": outside a focus *)
(* a cursor that stays is caught, from the basket too.                     *)
ChasesOutsideFocus ==
    \A c \in CursorPlaces :
        CursorPlaces = {c} =>
            ( <>[](ActivePhase(timer) # "Focus" /\ action.current = "None")
                => <>[](AtRestBy(c, BaseIdle)) )

(* Every effect ends, unless the user keeps clicking new ones on the cat:  *)
(* no command and no phase keeps it alive.                                 *)
EffectEnds ==
    <>[][action'.current \in {action.current, "None"}]_vars => <>[](action.current = "None")

(* A phase that lasts is announced: whatever happened between two ticks,   *)
(* the last notification is about the phase the timer stays in, and only a *)
(* notify-send that once could not be started excuses the program.         *)
LastingPhaseAnnounced ==
    \A p \in Active : <>[](timer.phase = p) => <>[](notice = p \/ ~enabled)

============================================================================
