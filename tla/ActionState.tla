---------------------------- MODULE ActionState ----------------------------
(***************************************************************************)
(* The class ActionState: the effect a right-click starts, where its prop  *)
(* is, and when it expires.  A prop is at a place of the line the cat runs *)
(* on, or beside it: east of that place, or, if negative, west of it.  The *)
(* random generator is a choice of the caller: any effect of the pool but  *)
(* the last one played, and any distance to toss the ball.                 *)
(***************************************************************************)
EXTENDS Integers

CONSTANTS
    EffectTime,    \* kDuration, 4 s
    BallMin,       \* the ball is tossed at least 130 px away
    BallMax,       \* and at most 180 px
    BowlOffset,    \* the bowl is 38 px in front of the cat
    PostOffset     \* the scratching post 75 px

ASSUME EffectAssumption ==
    /\ EffectTime \in Nat \ {0}
    /\ BallMin \in Nat /\ BallMax \in Nat /\ BallMin <= BallMax
    /\ BowlOffset \in Nat /\ PostOffset \in Nat

Pool   == {"Ball", "Food", "Purr", "Scratch"}
Effect == Pool \cup {"None"}

ActionRecord == [current : Effect, lastPlayed : Effect,
                 age : 0..EffectTime, prop : Int, beside : Int]

NewAction == [current |-> "None", lastPlayed |-> "None", age |-> 0,
              prop |-> 0, beside |-> 0]

\* Where a prop can come to be for a cat at x: east or west of it, or the ball
\* where the line meets a ring around it.
PropPlaces(e, x, facingEast) ==
    LET sign == IF facingEast THEN 1 ELSE -1
    IN  CASE e = "Ball"    -> {x + d : d \in BallMin..BallMax} \X {0}
                                \cup {x - d : d \in BallMin..BallMax} \X {0}
          [] e = "Food"    -> {<<x, sign * BowlOffset>>}
          [] e = "Scratch" -> {<<x, sign * PostOffset>>}
          [] OTHER         -> {<<x, 0>>}

\* trigger_next, once the effect and the place of its prop are drawn.
Triggered(a, e, place) ==
    [current |-> e, lastPlayed |-> e, age |-> 0,
     prop |-> place[1], beside |-> place[2]]

\* Faulty: an effect that has run its time is not cleared.
ActionUpdateNever(a) == a

ActionUpdate(a) ==
    IF a.current # "None" /\ a.age >= EffectTime
    THEN [a EXCEPT !.current = "None"] ELSE a

\* One clock unit goes by; the age of an effect that is over is not read.
ActionElapse(a) ==
    [a EXCEPT !.age = IF a.current # "None" /\ @ < EffectTime THEN @ + 1 ELSE @]
============================================================================
