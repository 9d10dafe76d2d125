----------------------------- MODULE ChaseProofs -----------------------------
(***************************************************************************)
(* Proofs about Chase, for every desktop, every gait and all thresholds,   *)
(* whatever the user does and whatever the provider knows.                 *)
(***************************************************************************)
EXTENDS Chase, MethodProofs

USE GaitAssumption, PushAssumption, ThresholdAssumption

----------------------------------------------------------------------------
(* The desktop.                                                            *)

Span == West..East

LEMMA Ends ==
    /\ West \in Desktop /\ East \in Desktop
    /\ West \in Int /\ East \in Int /\ Desktop \subseteq Span /\ Home \in Span
<1>1. \E a \in Desktop : \A b \in Desktop : a <= b
  BY DesktopAssumption
<1>2. \E b \in Desktop : \A a \in Desktop : a <= b
  BY DesktopAssumption
<1>3. West \in Desktop /\ \A b \in Desktop : West <= b
  BY <1>1 DEF West
<1>4. East \in Desktop /\ \A a \in Desktop : a <= East
  BY <1>2 DEF East
<1>5. QED
  BY <1>3, <1>4, DesktopAssumption DEF Span

LEMMA ClampStays ==
    ASSUME NEW x \in Int
    PROVE  Clamp(x, West, East) \in Span /\ (x \in Span => Clamp(x, West, East) = x)
BY Ends DEF Clamp, Span

----------------------------------------------------------------------------
(* The step of the cat.                                                    *)

\* What the clock of a state machine is worth: a cat that faces nowhere has
\* rested for as long as it says, a sleeping one for long enough.
Rests(m, r) ==
    /\ m.dir = "None" => m.moveAge <= r
    /\ m.state \in {"Idle", "Sleep"} => m.dir = "None"
    /\ m.state = "Sleep" => m.moveAge = SleepAfter

LEMMA TickRests ==
    ASSUME NEW m \in Fsm, NEW r, Rests(m, r)
    PROVE  Rests(FsmTick(m), r)
<1>1. FsmTick(m) \in {m, SetState(m, "Run")}
      \/ (m.state = "Idle" /\ m.moveAge >= SleepAfter /\ FsmTick(m) = SetState(m, "Sleep"))
  BY Zenon DEF FsmTick
<1>2. m.moveAge \in 0..SleepAfter
  BY DEF Fsm
<1>3. Rests(SetState(m, "Run"), r)
  BY DEF Rests, SetState, Fsm
<1>4. m.state = "Idle" /\ m.moveAge >= SleepAfter => Rests(SetState(m, "Sleep"), r)
  BY <1>2 DEF Rests, SetState, Fsm
<1>5. QED
  BY <1>1, <1>3, <1>4

LEMMA SettleRests ==
    ASSUME NEW m \in Fsm, NEW r \in Nat, Rests(m, r)
    PROVE  Settle(m) \in Fsm /\ Rests(Settle(m), r)
<1> DEFINE n == SetDirection(m, "None")
<1>1. n \in Fsm
  BY SetDirectionTurns DEF Direction
<1>2. n.dir = "None" /\ n.state = m.state /\ Rests(n, r)
  BY DEF Rests, SetDirection, Fsm
<1>3. SetState(n, "Idle") \in Fsm
  BY <1>1, SetStateKeeps DEF PetState
<1>4. SetState(n, "Idle").dir = "None" /\ SetState(n, "Idle").moveAge = n.moveAge
      /\ SetState(n, "Idle").state = "Idle"
  BY <1>1, <1>2 DEF SetState, Fsm
<1>5. Rests(SetState(n, "Idle"), r)
  BY <1>2, <1>4 DEF Rests
<1> HIDE DEF n
<1>6. Settle(m) \in {n, SetState(n, "Idle")}
  BY DEF Settle, n
<1>7. QED
  BY <1>1, <1>2, <1>3, <1>5, <1>6

\* A cat on its way is awake and faces somewhere.
LEMMA SetOff ==
    ASSUME NEW m \in Fsm, NEW d \in Direction \ {"None"}, NEW r
    PROVE  /\ SetDirection(WakeUp(m), d) \in Fsm
           /\ Rests(SetDirection(WakeUp(m), d), r)
<1> DEFINE w == WakeUp(m)
<1>1. w \in Fsm /\ w.state \notin {"Idle", "Sleep"}
  BY SetStateKeeps DEF WakeUp, PetState, SetState, Fsm
<1> HIDE DEF w
<1>2. SetDirection(w, d) \in Fsm
  BY <1>1, SetDirectionTurns
<1>3. SetDirection(w, d).dir = d /\ SetDirection(w, d).state \notin {"Idle", "Sleep"}
  BY <1>1 DEF SetDirection, SetState, Fsm
<1>4. QED
  BY <1>2, <1>3 DEF w, Rests

\* x is on the way from p to its target.
OnTheWay(x, p) ==
    /\ x \in Int
    /\ x \in p.pos..p.target \/ x \in p.target..p.pos

LEMMA ApproachIsOnTheWay ==
    ASSUME NEW p \in PetRecord, p.speed \in Nat
    PROVE  OnTheWay(Approach(p), p)
BY DEF OnTheWay, PetRecord, Approach, Distance, Abs

\* From p, rested for r, to q: target and gait are left alone; the cat moves only
\* towards a target that is further than its rest distance; its rest is counted.
Walks(p, q, r) ==
    /\ q \in PetRecord
    /\ q.target = p.target /\ q.hasTarget = p.hasTarget
    /\ q.speed = p.speed /\ q.idle = p.idle
    /\ q.pos # p.pos => p.hasTarget /\ Distance(p) > p.idle /\ OnTheWay(q.pos, p)
    /\ Rests(q.fsm, IF q.pos # p.pos THEN 0 ELSE r)

(* Pet::step, in all three of its cases.                                   *)
LEMMA StepWalks ==
    ASSUME NEW p \in PetRecord, p.speed \in Nat, p.idle \in Nat,
           NEW r \in Nat, Rests(p.fsm, r)
    PROVE  Walks(p, PetStep(p), r)
<1>1. p.fsm \in Fsm /\ p.pos \in Int /\ p.target \in Int
  BY DEF PetRecord
<1>2. ASSUME NEW m \in Fsm, NEW x \in Int,
             x # p.pos => p.hasTarget /\ Distance(p) > p.idle /\ OnTheWay(x, p),
             Rests(m, IF x # p.pos THEN 0 ELSE r)
      PROVE  Walks(p, [p EXCEPT !.fsm = m, !.pos = x], r)
  BY <1>2 DEF PetRecord, Walks
<1>3. ASSUME NEW m \in Fsm, Rests(m, r)
      PROVE  Walks(p, [p EXCEPT !.fsm = m], r)
  <2>1. [p EXCEPT !.fsm = m] = [p EXCEPT !.fsm = m, !.pos = p.pos]
    BY DEF PetRecord
  <2>2. QED
    BY <1>1, <1>2, <1>3, <2>1
<1>4. CASE ~p.hasTarget
  <2>1. FsmTick(p.fsm) \in Fsm /\ Rests(FsmTick(p.fsm), r)
    BY <1>1, FsmTickKeeps, TickRests
  <2>2. QED
    BY <1>3, <1>4, <2>1 DEF PetStep
<1>5. CASE p.hasTarget /\ Distance(p) <= p.idle
  <2>1. Settle(p.fsm) \in Fsm /\ Rests(Settle(p.fsm), r)
    BY <1>1, SettleRests
  <2>2. FsmTick(Settle(p.fsm)) \in Fsm /\ Rests(FsmTick(Settle(p.fsm)), r)
    BY <2>1, FsmTickKeeps, TickRests
  <2>3. QED
    BY <1>3, <1>5, <2>2 DEF PetStep
<1>6. CASE p.hasTarget /\ ~(Distance(p) <= p.idle)
  <2> DEFINE d == Toward(p.axis, p.pos, p.target)
             m == SetDirection(WakeUp(p.fsm), d)
             x == IF m.state = "Run" THEN Approach(p) ELSE p.pos
  <2>1. Distance(p) > p.idle /\ d \in Direction \ {"None"}
    BY <1>1, <1>6, Headings DEF Distance, Abs
  <2>2. m \in Fsm /\ Rests(m, 0) /\ Rests(m, r)
    BY <1>1, <2>1, SetOff
  <2>3. FsmTick(m) \in Fsm /\ Rests(FsmTick(m), 0) /\ Rests(FsmTick(m), r)
    BY <2>2, FsmTickKeeps, TickRests
  <2>4. x \in Int /\ OnTheWay(x, p)
    BY <1>1, ApproachIsOnTheWay DEF OnTheWay
  <2>5. PetStep(p) = [p EXCEPT !.fsm = FsmTick(m), !.pos = x]
    BY <1>6 DEF PetStep
  <2> HIDE DEF m, x
  <2>6. QED
    BY <1>2, <1>6, <2>1, <2>3, <2>4, <2>5
<1>7. QED
  BY <1>4, <1>5, <1>6

(* One clock unit more of rest, on both clocks.                            *)
LEMMA ElapseRests ==
    ASSUME NEW p \in PetRecord, NEW r \in 0..SleepAfter, Rests(p.fsm, r)
    PROVE  LET q == PetElapse(p) IN
           /\ q \in PetRecord /\ [q EXCEPT !.fsm = p.fsm] = p
           /\ Rests(q.fsm, IF r < SleepAfter THEN r + 1 ELSE r)
<1>1. p.fsm \in Fsm
  BY DEF PetRecord
<1>2. FsmElapse(p.fsm) \in Fsm
  BY <1>1, FsmElapseKeeps
<1>3. Rests(FsmElapse(p.fsm), IF r < SleepAfter THEN r + 1 ELSE r)
  BY <1>1 DEF Rests, FsmElapse, Fsm
<1>4. QED
  BY <1>2, <1>3 DEF PetElapse, PetRecord

----------------------------------------------------------------------------
(* The invariant.                                                          *)

ChaseTypes ==
    /\ pet \in PetRecord /\ pet.speed = Speed /\ pet.idle = IdleDistance
    /\ pet.pos \in Span /\ (pet.hasTarget => pet.target \in Span)
    /\ provider \in Provider
    /\ cursor \in Span /\ unread \in -MaxPush .. MaxPush
    /\ stirred \in BOOLEAN /\ seen \in BOOLEAN
    /\ rested \in 0..SleepAfter

\* Nobody has told the cat to go anywhere.
Unasked ==
    /\ pet.pos = Home
    /\ provider = "evdev" => cursor = Home /\ unread = 0 /\ (pet.hasTarget => pet.target = Home)
    /\ provider = "null" => ~pet.hasTarget

Undisturbed ==
    provider = "null" \/ (provider = "evdev" /\ ~stirred) => Unasked

ChaseInv == ChaseTypes /\ Rests(pet.fsm, rested) /\ Undisturbed

LEMMA ChaseInit == Init => ChaseInv
<1> SUFFICES ASSUME Init PROVE ChaseInv
  OBVIOUS
<1>1. pet \in PetRecord /\ pet.speed = Speed /\ pet.idle = IdleDistance
      /\ pet.pos = Home /\ ~pet.hasTarget /\ pet.fsm = NewFsm
  <2>1. PICK axis \in Axis : pet = NewPet(axis, Home, Speed, IdleDistance)
    BY DesktopAssumption DEF Init
  <2>2. Home \in Int /\ Speed \in Int /\ IdleDistance \in Int
    BY Ends DEF Span
  <2>3. QED
    BY <2>1, <2>2, NewFsmIsTyped DEF NewPet, PetRecord
<1>2. provider \in Provider
  BY DEF Init, MakeCursorProvider, Provider
<1>3. cursor \in Span /\ (provider = "evdev" => cursor = Home)
  <2>1. Home \in Int /\ Home \in Span /\ Desktop \subseteq Span
    BY Ends DEF Span
  <2>2. SetPosition(Home, West, East) \in Span /\ SetPosition(Home, West, East) = Home
    BY <2>1, ClampStays DEF SetPosition
  <2>3. QED
    BY <2>1, <2>2 DEF Init
<1>4. Rests(pet.fsm, rested)
  BY <1>1 DEF Init, Rests, NewFsm
<1>5. unread = 0 /\ rested = SleepAfter /\ stirred = FALSE /\ seen = FALSE
  BY DEF Init
<1>6. unread \in -MaxPush .. MaxPush /\ rested \in 0..SleepAfter
  BY <1>5
<1>7. QED
  BY <1>1, <1>2, <1>3, <1>4, <1>5, <1>6, Ends
     DEF ChaseInv, ChaseTypes, Undisturbed, Unasked

(* What a tick does to the cat: the cursor that is polled is on the        *)
(* desktop, and so is the cat that walks there.                            *)
LEMMA TickKeeps ==
    ASSUME ChaseInv, NEW known \in BOOLEAN, Tick(known),
           known => provider # "null"
    PROVE  ChaseInv'
<1> DEFINE e == PetElapse(pet)
           p == IF known THEN Aim(e, Polled) ELSE e
           r == IF rested < SleepAfter THEN rested + 1 ELSE rested
<1> USE DEF ChaseInv, ChaseTypes
<1>1. Polled \in Span /\ Polled \in Int
  <2>1. cursor + unread \in Int
    BY Ends DEF Span
  <2>2. QED
    BY <2>1, ClampStays, Ends DEF Polled, EvdevPoll, Span
<1>2. e \in PetRecord /\ [e EXCEPT !.fsm = pet.fsm] = pet /\ Rests(e.fsm, r)
  BY ElapseRests
<1>3. /\ e.pos = pet.pos /\ e.target = pet.target /\ e.hasTarget = pet.hasTarget
      /\ e.speed = Speed /\ e.idle = IdleDistance
  BY DEF PetElapse, PetRecord
<1> HIDE DEF e
<1>4. /\ p \in PetRecord /\ Rests(p.fsm, r) /\ r \in 0..SleepAfter
      /\ p.pos = pet.pos /\ p.speed = Speed /\ p.idle = IdleDistance
      /\ p.target = IF known THEN Polled ELSE pet.target
      /\ ~known => p.hasTarget = pet.hasTarget
  <2>1. CASE known
    <3>1. p = [e EXCEPT !.target = Polled, !.hasTarget = TRUE]
      BY <2>1 DEF Aim
    <3>2. p \in PetRecord /\ p.fsm = e.fsm /\ p.pos = e.pos /\ p.speed = e.speed
          /\ p.idle = e.idle /\ p.target = Polled
      BY <1>1, <1>2, <3>1 DEF PetRecord
    <3>3. QED
      BY <1>2, <1>3, <2>1, <3>2
  <2>2. CASE ~known
    BY <1>2, <1>3, <2>2 DEF PetRecord
  <2>3. QED
    BY <2>1, <2>2
<1>5. pet' = PetStep(p)
  BY DEF Tick, ChaseUpdate, e
<1> HIDE DEF p
<1>6. Walks(p, pet', r)
  BY <1>4, <1>5, StepWalks
<1>7. /\ cursor' = Polled /\ unread' = 0 /\ seen' = known /\ UNCHANGED <<provider, stirred>>
      /\ rested' = IF pet'.pos # pet.pos THEN 0 ELSE r
  BY DEF Tick
<1> HIDE DEF r
<1>8. Rests(pet'.fsm, rested')
  BY <1>4, <1>6, <1>7 DEF Walks
<1>9. pet'.hasTarget => pet'.target \in Span
  BY <1>1, <1>4, <1>6 DEF Walks
<1>10. pet'.pos \in Span
  BY <1>1, <1>4, <1>6, Ends DEF Walks, OnTheWay, Span
<1>11. Undisturbed'
  <2>1. SUFFICES ASSUME Unasked, provider = "null" \/ provider = "evdev" PROVE Unasked'
    BY <1>7 DEF Undisturbed
  <2>2. CASE provider = "null"
    BY <1>4, <1>6, <1>7, <2>1, <2>2 DEF Unasked, Walks
  <2>3. CASE provider = "evdev"
    <3>1. Polled = Home
      <4>1. Home \in Int /\ Home \in Span
        BY Ends DEF Span
      <4>2. Polled = Clamp(cursor + unread, West, East) /\ cursor + unread = Home
        BY <2>1, <2>3, <4>1 DEF Unasked, Polled, EvdevPoll
      <4>3. QED
        BY <4>1, <4>2, ClampStays
    <3>2. p.hasTarget => Distance(p) = 0
      <4>1. Home \in Int /\ p.pos = Home /\ (p.hasTarget => p.target = Home)
        BY <1>4, <2>1, <2>3, <3>1, Ends DEF Unasked, Span
      <4>2. QED
        BY <4>1 DEF Distance, Abs
    <3>3. pet'.pos = Home
      BY <1>4, <1>6, <2>1, <3>2 DEF Unasked, Walks
    <3>4. QED
      BY <1>4, <1>6, <1>7, <2>1, <2>3, <3>1, <3>3 DEF Unasked, Walks
  <2>4. QED
    BY <2>1, <2>2, <2>3
<1>12. Rests(pet.fsm, rested)'
  BY <1>8 DEF Rests
<1>13. rested' \in 0..SleepAfter
  BY <1>4, <1>7
<1>14. ChaseTypes'
  BY <1>1, <1>4, <1>6, <1>7, <1>9, <1>10, <1>13 DEF Walks, Span, West, East
<1>15. QED
  BY <1>11, <1>12, <1>14

(* Between two ticks only what the next poll will find changes: the cat     *)
(* stays as it is, and a device that reports motion has stirred.           *)
LEMMA MotionKeeps ==
    ASSUME ChaseInv, CursorMoves \/ DeviceMoves \/ UNCHANGED vars
    PROVE  ChaseInv'
<1> USE DEF ChaseInv, ChaseTypes, vars
<1>1. UNCHANGED <<pet, provider, rested, seen>>
  BY DEF CursorMoves, DeviceMoves
<1>2. cursor' \in Span /\ unread' \in -MaxPush .. MaxPush /\ stirred' \in BOOLEAN
  BY Ends DEF CursorMoves, DeviceMoves
<1>3. Undisturbed'
  <2>1. provider = "null" => (Unasked => Unasked')
    BY <1>1 DEF Unasked
  <2>2. provider = "evdev" /\ ~stirred' => ~stirred /\ UNCHANGED <<cursor, unread>>
    BY DEF CursorMoves, DeviceMoves
  <2>3. QED
    BY <1>1, <2>1, <2>2 DEF Undisturbed, Unasked
<1>4. QED
  BY <1>1, <1>2, <1>3 DEF Rests, Span, West, East

THEOREM ChaseInvariant == Spec => []ChaseInv
<1>1. ASSUME ChaseInv, TickSeeing \/ TickBlind PROVE ChaseInv'
  BY <1>1, TickKeeps DEF TickSeeing, TickBlind
<1>2. ChaseInv /\ [Next]_vars => ChaseInv'
  BY <1>1, MotionKeeps DEF Next
<1>3. QED
  BY ChaseInit, <1>2, PTL DEF Spec

(* Chasing never takes the cat off the desktop: every stride is on the way *)
(* to a place the provider has reported (Pet::step, EvdevCursorProvider).  *)
THEOREM StaysOnDesktop == Spec => []TypeOK
<1>1. ChaseInv => TypeOK
  <2> SUFFICES ASSUME ChaseInv PROVE TypeOK
    OBVIOUS
  <2>1. OnDesktop
    BY Ends DEF ChaseInv, ChaseTypes, Span, OnDesktop
  <2>2. QED
    BY <2>1 DEF ChaseInv, ChaseTypes, Span, TypeOK
<1>2. QED
  BY <1>1, ChaseInvariant, PTL

(* The clock of the last movement never runs ahead of the rest the cat has *)
(* had, so that a cat that sleeps has lain still for idle_to_sleep_after   *)
(* (PetStateMachine::set_direction, tick).                                 *)
THEOREM SleepIsEarned == Spec => []RestIsCounted
<1>1. ChaseInv => RestIsCounted
  BY DEF ChaseInv, ChaseTypes, Rests, RestIsCounted, SleepsOnlyRested
<1>2. QED
  BY <1>1, ChaseInvariant, PTL

(* Without a provider, and with a virtual cursor that nobody has moved,    *)
(* the cat never leaves its place (NullCursorProvider, set_position).      *)
THEOREM NothingSetsItOff == Spec => []StaysUntilStirred
<1>1. ChaseInv => StaysUntilStirred
  BY DEF ChaseInv, ChaseTypes, Provider, Undisturbed, Unasked, StaysUntilStirred
<1>2. QED
  BY <1>1, ChaseInvariant, PTL
============================================================================
