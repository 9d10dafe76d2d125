------------------------------- MODULE Chase -------------------------------
(***************************************************************************)
(* CursorChaseBehavior: on every tick the provider that was chosen at the  *)
(* start is asked where the cursor is, which it may not know, and the cat  *)
(* takes a step.  The user moves the cursor at any time.                   *)
(***************************************************************************)
EXTENDS Pet, CursorProvider

CONSTANTS
    Axes,          \* the ways the line may run
    Desktop,       \* the positions along it
    Home,          \* where the cat starts
    Speed,         \* cfg.movement_speed
    IdleDistance,  \* cfg.idle_distance
    MaxPush        \* bound: relative motion between two polls

ASSUME DesktopAssumption ==
    /\ Axes \subseteq Axis
    /\ Desktop \subseteq Int /\ Home \in Desktop
    /\ \E a, b \in Desktop : \A c \in Desktop : a <= c /\ c <= b
ASSUME GaitAssumption == Speed \in Nat \ {0} /\ IdleDistance \in Nat
ASSUME PushAssumption == MaxPush \in Nat

VARIABLES
    pet,           \* App::pet_
    provider,      \* App::cursor_
    cursor,        \* the user's cursor; for evdev its cx_, a reckoning of its own
    unread,        \* external: motion the devices hold for the next poll
    stirred,       \* history: a device has ever reported motion
    seen,          \* history: did the last poll() return a position
    rested         \* history: clock units since the cat last moved

vars == <<pet, provider, cursor, unread, stirred, seen, rested>>

\* Both ends of compositor_bounds().
West == CHOOSE a \in Desktop : \A b \in Desktop : a <= b
East == CHOOSE b \in Desktop : \A a \in Desktop : a <= b

\* cfg_.cursor_source and what make_cursor_provider finds on the machine.
Init ==
    /\ \E source \in CursorSource, signature, socket, device \in BOOLEAN :
           provider = MakeCursorProvider(source, signature, socket, device)
    /\ \E axis \in Axes : pet = NewPet(axis, Home, Speed, IdleDistance)
    /\ IF provider = "evdev" THEN cursor = SetPosition(Home, West, East)
       ELSE cursor \in Desktop
    /\ unread = 0
    /\ stirred = FALSE
    /\ seen = FALSE
    /\ rested = SleepAfter

CursorMoves ==
    /\ provider # "evdev"
    /\ cursor' \in Desktop \ {cursor}
    /\ UNCHANGED <<pet, provider, unread, stirred, seen, rested>>

\* Never, when the compositor has grabbed the devices.
DeviceMoves ==
    /\ provider = "evdev"
    /\ unread' \in (-MaxPush .. MaxPush) \ {unread}
    /\ stirred' = TRUE
    /\ UNCHANGED <<pet, provider, cursor, seen, rested>>

\* poll(): the position it returns, if it returns one.
Polled == IF provider = "evdev" THEN EvdevPoll(cursor, unread, West, East) ELSE cursor

\* on_tick: one clock unit after the last one.
Tick(known) ==
    /\ pet' = ChaseUpdate(PetElapse(pet), known, Polled)
    /\ cursor' = Polled
    /\ unread' = 0
    /\ seen' = known
    /\ rested' = IF pet'.pos # pet.pos THEN 0
                 ELSE IF rested < SleepAfter THEN rested + 1 ELSE rested
    /\ UNCHANGED <<provider, stirred>>

TickSeeing == provider # "null" /\ Tick(TRUE)
TickBlind  == provider # "evdev" /\ Tick(FALSE)

Next == CursorMoves \/ DeviceMoves \/ TickSeeing \/ TickBlind

Spec == Init /\ [][Next]_vars

\* The timerfd keeps firing; nothing makes the user or a provider do anything.
FairSpec == Spec /\ WF_vars(TickSeeing \/ TickBlind)

----------------------------------------------------------------------------
(* Safety.                                                                 *)

\* Chasing never takes the cat off the span of the desktop.
OnDesktop == \E a, b \in Desktop : a <= pet.pos /\ pet.pos <= b

TypeOK == /\ pet \in PetRecord
          /\ OnDesktop
          /\ provider \in Provider
          /\ cursor \in West..East
          /\ unread \in -MaxPush .. MaxPush
          /\ stirred \in BOOLEAN
          /\ seen \in BOOLEAN
          /\ rested \in 0..SleepAfter

(* A cat that sleeps has been lying still for idle_to_sleep_after: running *)
(* straight at a cursor for longer than that does not count, because       *)
(* coming to rest turns the direction to None and restarts the clock.      *)
SleepsOnlyRested == pet.fsm.state = "Sleep" => rested = SleepAfter

(* The same with its reason: a cat at rest faces nowhere, and its clock    *)
(* never runs ahead of the rest it has really had.                         *)
RestIsCounted ==
    /\ SleepsOnlyRested
    /\ pet.fsm.dir = "None" => pet.fsm.moveAge <= rested
    /\ pet.fsm.state \in {"Idle", "Sleep"} => pet.fsm.dir = "None"
    /\ pet.fsm.state = "Sleep" => pet.fsm.moveAge = SleepAfter

(* "The cat will render correctly but won't chase the cursor" where the    *)
(* compositor grabs the devices, and "stays put" without a provider: a     *)
(* virtual cursor nobody has moved must not set the cat off.               *)
StaysUntilStirred ==
    pet.pos # Home => provider = "hyprland" \/ (provider = "evdev" /\ stirred)

----------------------------------------------------------------------------
(* Liveness.                                                               *)

Caught(c) == Abs(c - pet.pos) <= IdleDistance /\ pet.fsm.state = "Sleep"

(* A cursor that stays somewhere, and is seen there now and then, is       *)
(* eventually caught, and the cat falls asleep beside it for good.         *)
CatchesStillCursor ==
    \A c \in West..East :
        (<>[](cursor = c) /\ []<>seen) => <>[]Caught(c)
============================================================================
