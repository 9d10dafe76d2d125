-------------------------- MODULE PetStateMachine --------------------------
(***************************************************************************)
(* The class PetStateMachine as operators on a record.  The instants       *)
(* state_entered_ and last_movement_ are kept as ages (now minus the       *)
(* instant); an age stops counting at the largest threshold it is compared *)
(* with.  The animation frame counter steers nothing and is left out.      *)
(* Scratch, a value of PetState that nothing sets, is left out as well.    *)
(***************************************************************************)
EXTENDS Integers

CONSTANTS
    WiggleTime,    \* direction_change, 120 ms
    WakeTime,      \* wake_duration, 400 ms
    SleepAfter     \* idle_to_sleep_after, 10 s

ASSUME ThresholdAssumption ==
    /\ WiggleTime \in Nat \ {0}
    /\ WakeTime \in Nat \ {0}
    /\ SleepAfter \in Nat \ {0}

Direction == {"None", "E", "NE", "N", "NW", "W", "SW", "S", "SE"}
PetState  == {"Idle", "Wake", "Run", "Sleep", "DirectionChange"}

StateAgeCap == IF WakeTime > WiggleTime THEN WakeTime ELSE WiggleTime

Fsm == [state : PetState, dir : Direction,
        stateAge : 0..StateAgeCap, moveAge : 0..SleepAfter]

\* last_movement_ starts at the epoch of the clock, long ago.
NewFsm == [state |-> "Idle", dir |-> "None",
           stateAge |-> StateAgeCap, moveAge |-> SleepAfter]

SetState(m, s) ==
    IF s = m.state THEN m ELSE [m EXCEPT !.state = s, !.stateAge = 0]

\* Faulty: standing still does not count as the end of a movement.
SetDirectionKeepsClock(m, d) ==
    IF d = m.dir THEN m
    ELSE LET n == IF m.state = "Run" /\ d # "None"
                  THEN SetState(m, "DirectionChange") ELSE m
         IN  [n EXCEPT !.dir = d, !.moveAge = IF d = "None" THEN @ ELSE 0]

\* A running cat wiggles before it commits to a new heading.
SetDirection(m, d) ==
    IF d = m.dir THEN m
    ELSE LET n == IF m.state = "Run" /\ d # "None"
                  THEN SetState(m, "DirectionChange") ELSE m
         IN  [n EXCEPT !.dir = d, !.moveAge = 0]

FsmTick(m) ==
    CASE m.state = "DirectionChange" /\ m.stateAge >= WiggleTime -> SetState(m, "Run")
      [] m.state = "Wake" /\ m.stateAge >= WakeTime              -> SetState(m, "Run")
      [] m.state = "Idle" /\ m.moveAge >= SleepAfter             -> SetState(m, "Sleep")
      [] OTHER                                                   -> m

\* One clock unit goes by.
FsmElapse(m) ==
    [m EXCEPT !.stateAge = IF @ < StateAgeCap THEN @ + 1 ELSE @,
              !.moveAge = IF @ < SleepAfter THEN @ + 1 ELSE @]
============================================================================
