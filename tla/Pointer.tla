------------------------------ MODULE Pointer ------------------------------
(***************************************************************************)
(* A click on the cat, from the pointer to App's button callback.  The     *)
(* compositor sends the pointer to the surface whose input region it is    *)
(* in; what it sends waits on the connection until dispatch_pending; the   *)
(* listeners of OverlaySurface keep the focus and a position per output.   *)
(***************************************************************************)
EXTENDS InputRegion, Sequences

CONSTANTS
    Spots,         \* the places the user points to
    Reach,         \* the 100 px a click may be away from the cat
    MaxWire        \* bound: events that wait to be dispatched

ASSUME SpotsAssumption ==
    Spots \subseteq Int /\ \A p \in Spots : \E o \in Outputs : p \in Screen(o)
ASSUME ReachAssumption == Reach \in Nat /\ Speed <= Reach
ASSUME WireAssumption == MaxWire \in Nat

VARIABLES
    inForce,       \* external: the input region of the last commit
    drawn,         \* history: the outputs that have just committed a picture
    at,            \* external: where the pointer is
    over,          \* external: the surface the compositor has sent it to
    plugged,       \* external: the seat has a pointer
    wire,          \* external: events that are not dispatched yet
    client,        \* Impl: pointer, pointer_focus, and pointer_x per output
    calls,         \* history: the button callbacks of the last dispatch
    ticked         \* the loop has had its tick since the last dispatch

compositorVars == <<inForce, drawn, at, over, plugged, wire>>
vars == <<regionVars, compositorVars, client, calls, ticked>>

Nowhere == "nowhere"

ASSUME SurfaceAssumption == Nowhere \notin Outputs

Surface == Outputs \cup {Nowhere}

Client == [holds : BOOLEAN, focus : Surface, local : [Outputs -> Int]]

NewClient == [holds |-> TRUE, focus |-> Nowhere, local |-> [o \in Outputs |-> 0]]

----------------------------------------------------------------------------
(* The listeners, from a client to another.                                *)

\* Faulty: the position is left to the first motion.
PointerEnterLazy(c, e) == [c EXCEPT !.focus = e.out]

PointerEnter(c, e) == [c EXCEPT !.focus = e.out, !.local[e.out] = e.x]

PointerLeave(c, e) ==
    [c EXCEPT !.focus = IF @ = e.out THEN Nowhere ELSE @]

PointerMotion(c, e) ==
    IF c.focus = Nowhere THEN c ELSE [c EXCEPT !.local[c.focus] = e.x]

\* The focus outlives the wl_pointer.
SeatCapabilities(c, e) == [c EXCEPT !.holds = e.pointer]

Handle(c, e) ==
    CASE e.ev = "enter"  -> PointerEnter(c, e)
      [] e.ev = "leave"  -> PointerLeave(c, e)
      [] e.ev = "motion" -> PointerMotion(c, e)
      [] e.ev = "caps"   -> SeatCapabilities(c, e)
      [] e.ev = "button" -> c

\* Faulty: the position on the output is taken for one on the desktop.
GlobalLocal(c) == c.local[c.focus]

Global(c) == Origin[c.focus] + c.local[c.focus]

\* The callback: far from the cat it returns early.
Clickable(g) == Dist(g, cat) <= Reach

\* pointer_button: the calls that handling e makes, one or none.
PointerButton(c, e) ==
    IF e.ev # "button" \/ c.focus = Nowhere THEN {}
    ELSE {[to |-> Global(c), pressed |-> e.at, aimed |-> e.aimed,
           taken |-> Clickable(Global(c))]}

\* The client after each number of the events that wait.
Replay(c, events) ==
    LET after[n \in 0..Len(events)] ==
            IF n = 0 THEN c ELSE Handle(after[n - 1], events[n])
    IN  after

----------------------------------------------------------------------------
Init ==
    /\ RegionInit
    /\ inForce = wanted
    /\ drawn = {}
    /\ at \in Spots
    /\ over = Nowhere
    /\ plugged = TRUE
    /\ wire = <<>>
    /\ client = NewClient
    /\ calls = {}
    /\ ticked = FALSE

\* render_output_with draws the cat where it is, and its commit puts in force
\* the region that the output was told last.
Commit(outputs) ==
    /\ drawn' = outputs
    /\ inForce' = [o \in Outputs |-> IF o \in outputs THEN wanted'[o] ELSE inForce[o]]

\* dispatch_pending: everything that waits, one event after the other.
DispatchPending ==
    /\ LET after == Replay(client, wire)
       IN  /\ client' = after[Len(wire)]
           /\ calls' = UNION {PointerButton(after[n - 1], wire[n]) : n \in DOMAIN wire}
    /\ wire' = <<>>
    /\ ticked' = FALSE
    /\ drawn' = {}
    /\ UNCHANGED <<regionVars, inForce, at, over, plugged>>

\* on_tick and schedule_redraw, which commits what waits for no frame callback.
RunTick ==
    /\ ~ticked /\ ticked' = TRUE
    /\ Tick
    /\ \E waiting \in SUBSET ready : Commit(ready \ waiting)
    /\ calls' = {}
    /\ UNCHANGED <<at, over, plugged, wire, client>>

\* layer_configure and frame_done end in a commit of the one output.
Render(o) ==
    /\ Commit({o})
    /\ calls' = {}
    /\ UNCHANGED <<at, over, plugged, wire, client, ticked>>

LateConfigure(o) == Configure(o) /\ Render(o)

FrameDone(o) ==
    /\ o \in ready
    /\ UNCHANGED regionVars
    /\ Render(o)

----------------------------------------------------------------------------
(* The compositor and the user.                                            *)

Under(p) == IF \E o \in Outputs : p \in Screen(o) \cap inForce[o]
            THEN CHOOSE o \in Outputs : p \in Screen(o) \cap inForce[o]
            ELSE Nowhere

Enter(o, p)  == [ev |-> "enter", out |-> o, x |-> p - Origin[o]]
Leave(o)     == [ev |-> "leave", out |-> o]
Motion(o, p) == [ev |-> "motion", x |-> p - Origin[o]]
Caps(b)      == [ev |-> "caps", pointer |-> b]
Button(p)    == [ev |-> "button", at |-> p, aimed |-> p = cat]

\* What the client is told when the pointer is found at p.
Found(p) ==
    LET o == Under(p)
    IN  IF o = over
        THEN IF o = Nowhere THEN <<>> ELSE <<Motion(o, p)>>
        ELSE (IF over = Nowhere THEN <<>> ELSE <<Leave(over)>>)
             \o (IF o = Nowhere THEN <<>> ELSE <<Enter(o, p)>>)

Send(events) ==
    /\ Len(wire) + Len(events) <= MaxWire
    /\ wire' = wire \o events
    /\ calls' = {}
    /\ drawn' = {}
    /\ UNCHANGED <<regionVars, inForce, client, ticked>>

Point(p) ==
    /\ plugged /\ client.holds /\ p # at
    /\ at' = p /\ over' = Under(p)
    /\ Send(Found(p))
    /\ UNCHANGED plugged

\* The press finds the pointer where it is, on a region that may have changed.
Press ==
    /\ plugged /\ client.holds
    /\ over' = Under(at)
    /\ Send(IF over' = Nowhere THEN Found(at) ELSE Found(at) \o <<Button(at)>>)
    /\ UNCHANGED <<at, plugged>>

\* The mouse goes; the compositor need not send a leave.
Unplug ==
    /\ plugged /\ client.holds
    /\ plugged' = FALSE /\ over' = Nowhere
    /\ \/ Send(<<Caps(FALSE)>>)
       \/ over # Nowhere /\ Send(<<Leave(over), Caps(FALSE)>>)
    /\ UNCHANGED at

\* It comes back once the client has released the pointer, and sends to the
\* new one that the client asks for.
Plug ==
    /\ ~plugged /\ ~client.holds
    /\ plugged' = TRUE
    /\ Send(<<Caps(TRUE)>>)
    /\ UNCHANGED <<at, over>>

Repaint == \E o \in Outputs : LateConfigure(o) \/ FrameDone(o)
User    == Press \/ Unplug \/ Plug \/ \E p \in Spots : Point(p)

Next == DispatchPending \/ RunTick \/ Repaint \/ User

Spec == Init /\ [][Next]_vars

----------------------------------------------------------------------------
(* Properties.                                                             *)

TypeOK ==
    /\ RegionTypeOK
    /\ \A o \in Outputs \ ready : inForce[o] = {}
    /\ drawn \subseteq ready
    /\ at \in Spots /\ over \in Surface /\ plugged \in BOOLEAN
    /\ Len(wire) <= MaxWire
    /\ client \in Client
    /\ \A o \in Outputs : client.local[o] \in 0..(Width[o] - 1)
    /\ ticked \in BOOLEAN

(* The next two compare the region that a commit puts in force with the    *)
(* picture of the cat that the same commit shows.  What is seen and what   *)
(* takes clicks change together, and only then: what they say at every     *)
(* commit, late or not, is so until the next one.                          *)

(* An output takes clicks only if the cat it shows is near, and only near  *)
(* that cat: one that the cat has left gives its region up with its next   *)
(* commit.  At the near edge the rectangle is moved inside and not cut, so *)
(* that it may end 3 * Half away from the cat.                             *)
ClicksNearCat ==
    \A o \in drawn : inForce[o] # {} =>
        /\ \E h \in Screen(o) : Dist(h, cat) <= Half + Slack + Speed
        /\ \A x \in inForce[o] : Dist(x, cat) < 3 * Half + Slack + Speed

(* The part of the cat that is nearer to its middle than what the throttle *)
(* lets it drift takes clicks on every output that shows it and that was   *)
(* configured at the last push, wherever the cat has walked since.  An     *)
(* output that came after that push, or before the first, takes none, cat  *)
(* or no cat, and that lasts until the cat has gone far enough for another.*)
CatTakesClicks ==
    \A o \in drawn :
        IF o \in reached
        THEN \A x \in Screen(o) : Dist(x, cat) < Half - Slack - Speed => x \in inForce[o]
        ELSE inForce[o] = {} /\ (pushed # NoRegion => Dist(cat, pushed) <= Slack + Speed)

(* A click is reported at the place of the desktop where the button was    *)
(* pressed: whichever outputs the pointer has crossed since, however many  *)
(* events have waited, and with a focus left over from before the mouse    *)
(* was unplugged.                                                          *)
ClickWhereItWas == \A call \in calls : call.to = call.pressed

(* A click on the middle of the cat is not dropped as one too far from it, *)
(* although the cat may have moved on before the click is dispatched.      *)
ClickOnCatCounts == \A call \in calls : call.aimed => call.taken
============================================================================
