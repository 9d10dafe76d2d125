-------------------------------- MODULE Pet --------------------------------
(***************************************************************************)
(* The struct Pet and Pet::step.  The cat, its target and everything it    *)
(* runs after are on one line, across the desktop or down it: a position   *)
(* is the coordinate along that line, which grows to the east or to the    *)
(* south, and the Euclidean distance is the absolute value.                *)
(***************************************************************************)
EXTENDS PetStateMachine

Abs(n) == IF n < 0 THEN -n ELSE n

Axis == {"horizontal", "vertical"}

PetRecord == [axis : Axis, pos : Int, target : Int, hasTarget : BOOLEAN,
              speed : Int, idle : Int, fsm : Fsm]

NewPet(axis, x, speed, idle) ==
    [axis |-> axis, pos |-> x, target |-> 0, hasTarget |-> FALSE,
     speed |-> speed, idle |-> idle, fsm |-> NewFsm]

\* angle_to_direction, on the sectors that the line has.
Toward(axis, from, to) ==
    CASE to > from -> IF axis = "horizontal" THEN "E" ELSE "S"
      [] to < from -> IF axis = "horizontal" THEN "W" ELSE "N"
      [] to = from -> "None"

Distance(p) == Abs(p.target - p.pos)

Aim(p, x) == [p EXCEPT !.target = x, !.hasTarget = TRUE]

\* Within rest distance: stop moving, settle into idle.
Settle(m) ==
    LET n == SetDirection(m, "None")
    IN  IF n.state \in {"Run", "DirectionChange"} THEN SetState(n, "Idle") ELSE n

\* Faulty: only a cat that is awake is set off.
WakeUpIdleOnly(m) == IF m.state = "Idle" THEN SetState(m, "Wake") ELSE m

\* Wake from sleep when the target appears far again.
WakeUp(m) == IF m.state \in {"Sleep", "Idle"} THEN SetState(m, "Wake") ELSE m

\* One stride towards the target, never past it.
Approach(p) ==
    LET stride == IF p.speed < Distance(p) THEN p.speed ELSE Distance(p)
    IN  IF p.target > p.pos THEN p.pos + stride ELSE p.pos - stride

\* Faulty: the cat strides before it has turned.
PetStepMovesFirst(p) ==
    IF ~p.hasTarget THEN [p EXCEPT !.fsm = FsmTick(@)]
    ELSE IF Distance(p) <= p.idle THEN [p EXCEPT !.fsm = FsmTick(Settle(@))]
    ELSE LET m == WakeUp(p.fsm)
             n == SetDirection(m, Toward(p.axis, p.pos, p.target))
         IN  [p EXCEPT !.fsm = FsmTick(n),
                       !.pos = IF m.state = "Run" THEN Approach(p) ELSE @]

\* Pet::step
PetStep(p) ==
    IF ~p.hasTarget THEN [p EXCEPT !.fsm = FsmTick(@)]
    ELSE IF Distance(p) <= p.idle THEN [p EXCEPT !.fsm = FsmTick(Settle(@))]
    ELSE LET m == SetDirection(WakeUp(p.fsm), Toward(p.axis, p.pos, p.target))
         IN  [p EXCEPT !.fsm = FsmTick(m),
                       !.pos = IF m.state = "Run" THEN Approach(p) ELSE @]

\* CursorChaseBehavior::update, known being whether poll() found the cursor at
\* x: when it did not, the cat goes on with the target it has.
ChaseUpdate(p, known, x) == PetStep(IF known THEN Aim(p, x) ELSE p)

PetElapse(p) == [p EXCEPT !.fsm = FsmElapse(@)]
============================================================================
