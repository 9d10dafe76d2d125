---------------------------- MODULE InputRegion ----------------------------
(***************************************************************************)
(* Where the overlay takes clicks: on_tick pushes a rectangle around the   *)
(* cat when the cat has moved far enough, set_cat_region cuts it up among  *)
(* the outputs.  Pointer takes it from there.                              *)
(*                                                                         *)
(* The desktop is a line; the two axes are treated alike by the code.      *)
(***************************************************************************)
EXTENDS Integers

CONSTANTS
    Outputs,       \* the outputs with a surface
    Origin,        \* origin_x of each
    Width,         \* its width
    Half,          \* half the 110 px of the rectangle
    Slack,         \* the 10 px the cat may move before it is pushed again
    Speed,         \* the longest stride of the cat
    Desktop        \* where the cat may be

ASSUME LayoutAssumption ==
    /\ Origin \in [Outputs -> Int] /\ Width \in [Outputs -> Nat \ {0}]
    /\ Half \in Nat /\ Slack \in Nat /\ Speed \in Nat
    /\ Desktop \subseteq Int /\ 0 \in Desktop
    /\ \A o \in Outputs : Origin[o] + Width[o] \div 2 \in Desktop

VARIABLES
    cat,           \* pet_.position
    pushed,        \* last_region_gx_
    ready,         \* the outputs that are configured
    wanted,        \* last_region_x and _size of each output: the points it takes
    reached        \* history: the outputs that were there at the last push

regionVars == <<cat, pushed, ready, wanted, reached>>

NoRegion == -10000

Dist(a, b) == IF a < b THEN b - a ELSE a - b

\* The points of output o.
Screen(o) == Origin[o] .. (Origin[o] + Width[o] - 1)

----------------------------------------------------------------------------
\* Faulty: an output the cat has left keeps its region.
RegionOnKept(o, g) ==
    LET l  == g - Origin[o]
        lo == IF l - Half > 0 THEN l - Half ELSE 0
    IN  IF l + Half >= 0 /\ l - Half < Width[o]
        THEN {Origin[o] + p : p \in lo .. (lo + 2 * Half - 1)}
        ELSE wanted[o]

\* set_cat_region for one output: empty unless the rectangle touches it, and
\* moved inside at the near edge.
RegionOn(o, g) ==
    LET l  == g - Origin[o]
        lo == IF l - Half > 0 THEN l - Half ELSE 0
    IN  IF l + Half >= 0 /\ l - Half < Width[o]
        THEN {Origin[o] + p : p \in lo .. (lo + 2 * Half - 1)}
        ELSE {}

Moved == Dist(cat, pushed) > Slack

\* Faulty: the throttle compares with the last tick, not with the last push.
PushEveryTick ==
    /\ pushed' = cat
    /\ IF Moved
       THEN /\ reached' = ready
            /\ wanted' = [o \in Outputs |-> IF o \in ready THEN RegionOn(o, cat)
                                            ELSE wanted[o]]
       ELSE UNCHANGED <<wanted, reached>>

\* Faulty: an output is given its region whether it is configured or not.
PushUnchecked ==
    IF Moved
    THEN /\ pushed' = cat /\ reached' = ready
         /\ wanted' = [o \in Outputs |-> RegionOn(o, cat)]
    ELSE UNCHANGED <<pushed, wanted, reached>>

\* The throttle of on_tick; outputs that are not configured are passed over.
Push ==
    IF Moved
    THEN /\ pushed' = cat /\ reached' = ready
         /\ wanted' = [o \in Outputs |-> IF o \in ready THEN RegionOn(o, cat)
                                         ELSE wanted[o]]
    ELSE UNCHANGED <<pushed, wanted, reached>>

----------------------------------------------------------------------------
RegionInit ==
    /\ ready \in SUBSET Outputs
    /\ IF ready = {} THEN cat = 0
       ELSE \E o \in ready : cat = Origin[o] + Width[o] \div 2
    /\ pushed = NoRegion
    /\ wanted = [o \in Outputs |-> {}]
    /\ reached = {}

\* on_tick: the region first, then the step of the cat.
Tick ==
    /\ Push
    /\ cat' \in {x \in Desktop : Dist(x, cat) <= Speed}
    /\ UNCHANGED ready

\* layer_configure: late, or during connect().
Configure(o) ==
    /\ o \notin ready
    /\ ready' = ready \cup {o}
    /\ UNCHANGED <<cat, pushed, wanted, reached>>

----------------------------------------------------------------------------
(* Properties.                                                             *)

RegionTypeOK ==
    /\ cat \in Desktop /\ pushed \in Desktop \cup {NoRegion}
    /\ ready \subseteq Outputs /\ reached \subseteq ready
    /\ \A o \in Outputs \ reached : wanted[o] = {}
============================================================================
