----------------------------- MODULE PointerProofs -----------------------------
(***************************************************************************)
(* Proofs about the input region of Pointer, and about the way of a click  *)
(* through it, for every layout of outputs, every size of the rectangle,   *)
(* every throttle, every speed and every number of events that wait.       *)
(***************************************************************************)
EXTENDS Pointer, SequenceTheorems, WellFoundedInduction, TLAPS

USE LayoutAssumption

\* An output has either the region of the last push, or none because it was
\* not there; and the cat is still near the place of that push.
RegionInv ==
    /\ cat \in Desktop /\ pushed \in Desktop \cup {NoRegion}
    /\ ready \subseteq Outputs /\ reached \subseteq ready
    /\ \A o \in reached : wanted[o] = RegionOn(o, pushed)
    /\ \A o \in Outputs \ reached : wanted[o] = {}
    /\ reached # {} \/ pushed # NoRegion => Dist(pushed, cat) <= Slack + Speed

LEMMA Distances ==
    ASSUME NEW a \in Int, NEW b \in Int, NEW c \in Int
    PROVE  /\ Dist(a, b) \in Nat /\ Dist(a, b) = Dist(b, a) /\ Dist(a, a) = 0
           /\ Dist(a, c) <= Dist(a, b) + Dist(b, c)
BY DEF Dist

(* The rectangle, cut and moved inside, still has every point of the       *)
(* output that is nearer than Half.                                        *)
LEMMA RegionReaches ==
    ASSUME NEW o \in Outputs, NEW g \in Int, NEW x \in Screen(o),
           Dist(x, g) < Half
    PROVE  x \in RegionOn(o, g)
<1> DEFINE l  == g - Origin[o]
           lo == IF l - Half > 0 THEN l - Half ELSE 0
           p  == x - Origin[o]
<1>1. Origin[o] \in Int /\ Width[o] \in Nat \ {0} /\ x \in Int
  BY DEF Screen
<1>2. l + Half >= 0 /\ l - Half < Width[o] /\ p \in lo .. (lo + 2 * Half - 1)
  BY <1>1 DEF Screen, Dist
<1>3. x = Origin[o] + p
  BY <1>1
<1> HIDE DEF p
<1>4. QED
  BY <1>2, <1>3 DEF RegionOn

(* A region that takes clicks is of a rectangle that touches the output,   *)
(* and no further from its middle than being moved inside makes it.        *)
LEMMA RegionTouches ==
    ASSUME NEW o \in Outputs, NEW g \in Int, RegionOn(o, g) # {}
    PROVE  /\ \E h \in Screen(o) : h \in Int /\ Dist(h, g) <= Half
           /\ \A x \in RegionOn(o, g) : x \in Int /\ Dist(x, g) < 3 * Half
<1> DEFINE l  == g - Origin[o]
           lo == IF l - Half > 0 THEN l - Half ELSE 0
           last == Origin[o] + Width[o] - 1
           h  == IF g < Origin[o] THEN Origin[o] ELSE IF g > last THEN last ELSE g
<1>1. Origin[o] \in Int /\ Width[o] \in Nat \ {0}
  OBVIOUS
<1>2. l + Half >= 0 /\ l - Half < Width[o]
  BY DEF RegionOn
<1>3. h \in Screen(o) /\ h \in Int /\ Dist(h, g) <= Half
  BY <1>1, <1>2 DEF Screen, Dist
<1>4. ASSUME NEW x \in RegionOn(o, g) PROVE x \in Int /\ Dist(x, g) < 3 * Half
  <2>1. PICK p \in lo .. (lo + 2 * Half - 1) : x = Origin[o] + p
    BY <1>2 DEF RegionOn
  <2>2. QED
    BY <1>1, <1>2, <2>1 DEF Dist
<1> HIDE DEF h
<1>5. QED
  BY <1>3, <1>4

LEMMA RegionInvInductive ==
    ASSUME RegionInv, [Next]_vars
    PROVE  RegionInv'
<1> USE DEF RegionInv
<1>1. CASE RunTick
  <2>1. Tick
    BY <1>1 DEF RunTick
  <2>2. /\ cat' \in Desktop /\ Dist(cat', cat) <= Speed /\ ready' = ready
        /\ cat \in Int /\ cat' \in Int
    BY <2>1 DEF Tick
  <2>3. CASE Moved
    <3>1. /\ pushed' = cat /\ reached' = ready
          /\ wanted' = [o \in Outputs |-> IF o \in ready THEN RegionOn(o, cat)
                                          ELSE wanted[o]]
      BY <2>1, <2>3 DEF Tick, Push
    <3>2. Dist(pushed', cat') <= Slack + Speed
      <4>1. Dist(cat, cat') \in Nat /\ Dist(cat, cat') <= Speed
        BY <2>2, Distances
      <4>2. QED
        BY <3>1, <4>1
    <3>3. \A o \in reached' : wanted'[o] = RegionOn(o, pushed')
      BY <3>1
    <3>4. \A o \in Outputs \ reached' : wanted'[o] = {}
      BY <3>1
    <3>5. (\A o \in reached : wanted[o] = RegionOn(o, pushed))'
      BY <3>3 DEF RegionOn
    <3>6. QED
      BY <2>2, <3>1, <3>2, <3>4, <3>5 DEF Dist
  <2>4. CASE ~Moved
    <3>1. UNCHANGED <<pushed, wanted, reached>>
      BY <2>1, <2>4 DEF Tick, Push
    <3>2. pushed \in Int /\ Dist(cat, pushed) <= Slack
      <4>1. pushed \in Int
        BY DEF NoRegion
      <4>2. Dist(cat, pushed) \in Nat
        BY <2>2, <4>1, Distances
      <4>3. QED
        BY <2>4, <4>1, <4>2 DEF Moved
    <3>3. Dist(pushed', cat') <= Slack + Speed
      <4>1. /\ Dist(pushed, cat') <= Dist(pushed, cat) + Dist(cat, cat')
            /\ Dist(pushed, cat) \in Nat /\ Dist(pushed, cat) <= Slack
            /\ Dist(cat, cat') \in Nat /\ Dist(cat, cat') <= Speed
            /\ Dist(pushed, cat') \in Nat
        BY <2>2, <3>2, Distances
      <4>2. QED
        BY <3>1, <4>1
    <3>4. QED
      BY <2>2, <3>1, <3>3 DEF RegionOn, Dist
  <2>5. QED
    BY <2>3, <2>4
<1>2. ASSUME NEW o \in Outputs, LateConfigure(o) PROVE RegionInv'
  BY <1>2 DEF LateConfigure, Configure, RegionOn, Dist
<1>3. CASE UNCHANGED regionVars
  BY <1>3 DEF regionVars, RegionOn, Dist
<1>4. QED
  BY <1>1, <1>2, <1>3 DEF Next, vars, DispatchPending, Repaint, FrameDone, User,
                          Press, Unplug, Plug, Point, Send

(* Regions are of the last push, and the cat has not gone far since.       *)
THEOREM RegionInvariant == Spec => []RegionInv
<1>1. Init => RegionInv
  BY DEF Init, RegionInit, RegionInv, NoRegion
<1>2. QED
  BY <1>1, RegionInvInductive, PTL DEF Spec

----------------------------------------------------------------------------
(* Induction.  The library's theorem takes a predicate, which cannot be    *)
(* instantiated; that < on Nat is well-founded can be cited, and a set     *)
(* does for the predicate.                                                 *)

Less == {ss \in Nat \X Nat : ss[1] < ss[2]}

LEMMA LessIsWellFounded == IsWellFoundedOn(Less, Nat)
BY NatLessThanWellFounded DEF OpToRel, Less

LEMMA SetInduction ==
    ASSUME NEW A \in SUBSET Nat, 0 \in A, \A n \in A : n + 1 \in A
    PROVE  A = Nat
<1>1. SUFFICES ASSUME Nat \ A # {} PROVE FALSE
  OBVIOUS
<1>2. PICK x \in Nat \ A : \A y \in Nat \ A : ~(<<y, x>> \in Less)
  BY <1>1, LessIsWellFounded, WFMin
<1>3. x # 0 /\ x - 1 \in Nat
  BY <1>2
<1>4. <<x - 1, x>> \in Less
  BY <1>2, <1>3 DEF Less
<1>5. x - 1 \in A
  BY <1>2, <1>3, <1>4
<1>6. QED
  BY <1>2, <1>3, <1>5

----------------------------------------------------------------------------
(* What the listeners make of a series of events.                          *)

Event ==
    [ev : {"enter"}, out : Outputs, x : Int] \cup [ev : {"leave"}, out : Outputs]
    \cup [ev : {"motion"}, x : Int] \cup [ev : {"caps"}, pointer : BOOLEAN]
    \cup [ev : {"button"}, at : Int, aimed : BOOLEAN]

IsReplay(f, c, w, k) ==
    f = [n \in 0..k |-> IF n = 0 THEN c ELSE Handle(f[n - 1], w[n])]

LEMMA ReplayExists ==
    ASSUME NEW c, NEW w, NEW k \in Nat
    PROVE  \E f : IsReplay(f, c, w, k)
<1> DEFINE A == {n \in Nat : \E f : IsReplay(f, c, w, n)}
<1>1. 0 \in A
  <2> DEFINE f == [n \in 0..0 |-> c]
  <2>1. IsReplay(f, c, w, 0)
    BY DEF IsReplay
  <2> HIDE DEF f
  <2>2. QED
    BY <2>1
<1>2. ASSUME NEW m \in A PROVE m + 1 \in A
  <2>1. PICK f : IsReplay(f, c, w, m)
    OBVIOUS
  <2> DEFINE g == [n \in 0..(m + 1) |-> IF n = m + 1 THEN Handle(f[m], w[n]) ELSE f[n]]
             h == [n \in 0..(m + 1) |-> IF n = 0 THEN c ELSE Handle(g[n - 1], w[n])]
  <2>2. f = [n \in 0..m |-> IF n = 0 THEN c ELSE Handle(f[n - 1], w[n])]
    BY <2>1 DEF IsReplay
  <2>3. ASSUME NEW n \in 0..(m + 1) PROVE g[n] = h[n]
    <3>1. CASE n = 0
      BY <2>2, <3>1
    <3>2. CASE n = m + 1
      BY <3>2
    <3>3. CASE n \in 1..m
      <4>1. n \in 0..m /\ n # 0 /\ n # m + 1 /\ n - 1 \in 0..(m + 1) /\ n - 1 # m + 1
        BY <3>3
      <4>2. g[n] = f[n] /\ g[n - 1] = f[n - 1]
        BY <4>1
      <4>3. f[n] = Handle(f[n - 1], w[n])
        BY <2>2, <4>1
      <4>4. h[n] = Handle(g[n - 1], w[n])
        BY <4>1
      <4>5. QED
        BY <4>2, <4>3, <4>4
    <3>4. QED
      BY <3>1, <3>2, <3>3
  <2>4. g = h
    BY <2>3
  <2>5. IsReplay(g, c, w, m + 1)
    BY <2>4 DEF IsReplay
  <2> HIDE DEF g
  <2>6. QED
    BY <2>5
<1>3. A = Nat
  <2> HIDE DEF A
  <2>1. A \in SUBSET Nat
    BY DEF A
  <2>2. QED
    BY <1>1, <1>2, <2>1, SetInduction
<1>4. QED
  BY <1>3

(* Replay handles one event after the other.                               *)
LEMMA ReplayDef ==
    ASSUME NEW c, NEW w \in Seq(Event)
    PROVE  /\ Replay(c, w)[0] = c
           /\ \A n \in 1..Len(w) : Replay(c, w)[n] = Handle(Replay(c, w)[n - 1], w[n])
<1>1. Len(w) \in Nat
  BY LenProperties
<1> DEFINE R == CHOOSE f : IsReplay(f, c, w, Len(w))
<1>2. Replay(c, w) = R
  BY DEF Replay, IsReplay
<1>3. IsReplay(R, c, w, Len(w))
  BY <1>1, ReplayExists
<1> HIDE DEF R
<1>4. QED
  BY <1>1, <1>2, <1>3 DEF IsReplay

(* An event that comes later changes nothing of what earlier ones made.    *)
LEMMA ReplayAppend ==
    ASSUME NEW c, NEW w \in Seq(Event), NEW e \in Event
    PROVE  LET v == Append(w, e) IN
           /\ \A n \in 0..Len(w) : Replay(c, v)[n] = Replay(c, w)[n]
           /\ Replay(c, v)[Len(w) + 1] = Handle(Replay(c, w)[Len(w)], e)
<1> DEFINE v == Append(w, e)
           A == {n \in Nat : n <= Len(w) => Replay(c, v)[n] = Replay(c, w)[n]}
<1>1. /\ v \in Seq(Event) /\ Len(v) = Len(w) + 1 /\ Len(w) \in Nat
      /\ \A n \in 1..Len(w) : v[n] = w[n]
      /\ v[Len(w) + 1] = e
  BY AppendProperties, LenProperties
<1> HIDE DEF v
<1>2. 0 \in A
  BY <1>1, ReplayDef
<1>3. ASSUME NEW n \in A PROVE n + 1 \in A
  <2>1. SUFFICES ASSUME n + 1 <= Len(w)
                 PROVE  Replay(c, v)[n + 1] = Replay(c, w)[n + 1]
    OBVIOUS
  <2>2. n + 1 \in 1..Len(w) /\ n + 1 \in 1..Len(v) /\ (n + 1) - 1 = n /\ n <= Len(w)
    BY <1>1, <2>1
  <2>3. Replay(c, v)[n + 1] = Handle(Replay(c, v)[(n + 1) - 1], v[n + 1])
    BY <1>1, <2>2, ReplayDef
  <2>4. Replay(c, w)[n + 1] = Handle(Replay(c, w)[(n + 1) - 1], w[n + 1])
    BY <2>2, ReplayDef
  <2>5. QED
    BY <1>1, <2>2, <2>3, <2>4
<1>4. A = Nat
  <2> HIDE DEF A
  <2>1. A \in SUBSET Nat
    BY DEF A
  <2>2. QED
    BY <1>2, <1>3, <2>1, SetInduction
<1>5. \A n \in 0..Len(w) : Replay(c, v)[n] = Replay(c, w)[n]
  BY <1>1, <1>4
<1>6. Replay(c, v)[Len(w) + 1] = Handle(Replay(c, v)[Len(w)], e)
  <2>1. Len(w) + 1 \in 1..Len(v) /\ (Len(w) + 1) - 1 = Len(w)
    BY <1>1
  <2>2. \A m \in 1..Len(v) : Replay(c, v)[m] = Handle(Replay(c, v)[m - 1], v[m])
    BY <1>1, ReplayDef
  <2>3. Replay(c, v)[Len(w) + 1] = Handle(Replay(c, v)[(Len(w) + 1) - 1], v[Len(w) + 1])
    BY <2>1, <2>2
  <2>4. QED
    BY <1>1, <2>1, <2>3
<1>7. QED
  BY <1>5, <1>6 DEF v

----------------------------------------------------------------------------
(* What waits to be dispatched, given the client c it is for, where the    *)
(* cat is and whether it has had its tick.                                 *)

Inside(c) ==
    /\ c \in Client
    /\ \A o \in Outputs : c.local[o] \in 0..(Width[o] - 1)

\* A click that was aimed at the cat has been overtaken by one tick at most.
OnCat(x, g, late) == IF late THEN Dist(x, g) <= Speed ELSE x = g

\* Handling e leaves c inside, and credits a click where it was.
Apt(c, e, g, late) ==
    /\ e \in Event
    /\ e.ev = "enter" => e.x \in 0..(Width[e.out] - 1)
    /\ e.ev = "motion" /\ c.focus # Nowhere => e.x \in 0..(Width[c.focus] - 1)
    /\ e.ev = "button" /\ c.focus # Nowhere => Global(c) = e.at
    /\ e.ev = "button" /\ e.aimed => OnCat(e.at, g, late)

End(c, w) == Replay(c, w)[Len(w)]

Wired(c, w, g, late) ==
    /\ w \in Seq(Event)
    /\ \A n \in 0..Len(w) : Inside(Replay(c, w)[n])
    /\ \A n \in 1..Len(w) : Apt(Replay(c, w)[n - 1], w[n], g, late)

\* The client has the pointer where the compositor has it.
Tracks(c, o, x) == o # Nowhere => c.focus = o /\ c.local[o] = x - Origin[o]

(* Each listener, on an event that is apt.                                 *)
LEMMA HandleInside ==
    ASSUME NEW c, Inside(c), NEW e, NEW g, NEW late, Apt(c, e, g, late)
    PROVE  Inside(Handle(c, e))
<1> USE DEF Inside, Client, Surface
<1>1. CASE e.ev = "enter"
  <2>1. e.out \in Outputs /\ e.x \in 0..(Width[e.out] - 1) /\ e.x \in Int
    BY <1>1 DEF Apt, Event
  <2>2. Handle(c, e) = [c EXCEPT !.focus = e.out, !.local = [@ EXCEPT ![e.out] = e.x]]
    BY <1>1 DEF Handle, PointerEnter
  <2>3. QED
    BY <2>1, <2>2
<1>2. CASE e.ev = "leave"
  <2>1. Handle(c, e) = [c EXCEPT !.focus = IF c.focus = e.out THEN Nowhere ELSE c.focus]
    BY <1>2 DEF Handle, PointerLeave
  <2>2. QED
    BY <2>1
<1>3. CASE e.ev = "motion"
  <2>1. CASE c.focus = Nowhere
    BY <1>3, <2>1 DEF Handle, PointerMotion
  <2>2. CASE c.focus # Nowhere
    <3>1. c.focus \in Outputs /\ e.x \in 0..(Width[c.focus] - 1) /\ e.x \in Int
      BY <1>3, <2>2 DEF Apt, Event
    <3>2. Handle(c, e) = [c EXCEPT !.local = [@ EXCEPT ![c.focus] = e.x]]
      BY <1>3, <2>2 DEF Handle, PointerMotion
    <3>3. QED
      BY <3>1, <3>2
  <2>3. QED
    BY <2>1, <2>2
<1>4. CASE e.ev = "caps"
  BY <1>4 DEF Apt, Event, Handle, SeatCapabilities
<1>5. CASE e.ev = "button"
  BY <1>5 DEF Handle
<1>6. QED
  BY <1>1, <1>2, <1>3, <1>4, <1>5 DEF Apt, Event

LEMMA WiredAppend ==
    ASSUME NEW c, NEW w, NEW g, NEW late, Wired(c, w, g, late),
           NEW e, Apt(End(c, w), e, g, late)
    PROVE  /\ Wired(c, Append(w, e), g, late)
           /\ End(c, Append(w, e)) = Handle(End(c, w), e)
           /\ Inside(End(c, w)) /\ Inside(End(c, Append(w, e)))
<1> DEFINE v == Append(w, e)
<1>1. w \in Seq(Event) /\ e \in Event
  BY DEF Wired, Apt
<1>2. /\ v \in Seq(Event) /\ Len(v) = Len(w) + 1 /\ Len(w) \in Nat
      /\ \A n \in 1..Len(w) : v[n] = w[n]
      /\ v[Len(w) + 1] = e
  BY <1>1, AppendProperties, LenProperties
<1>3. /\ \A n \in 0..Len(w) : Replay(c, v)[n] = Replay(c, w)[n]
      /\ Replay(c, v)[Len(w) + 1] = Handle(End(c, w), e)
  BY <1>1, ReplayAppend DEF End
<1> HIDE DEF v
<1>4. Inside(End(c, w)) /\ Inside(Handle(End(c, w), e))
  <2>1. Inside(End(c, w))
    BY <1>2 DEF Wired, End
  <2>2. QED
    BY <2>1, HandleInside
<1>5. ASSUME NEW n \in 0..Len(v) PROVE Inside(Replay(c, v)[n])
  <2>1. CASE n \in 0..Len(w)
    <3>1. Replay(c, v)[n] = Replay(c, w)[n]
      BY <1>3, <2>1
    <3>2. QED
      BY <2>1, <3>1 DEF Wired
  <2>2. CASE n = Len(w) + 1
    <3>1. Replay(c, v)[n] = Handle(End(c, w), e)
      BY <1>3, <2>2
    <3>2. QED
      BY <1>4, <3>1
  <2>3. QED
    BY <1>2, <2>1, <2>2
<1>6. ASSUME NEW n \in 1..Len(v) PROVE Apt(Replay(c, v)[n - 1], v[n], g, late)
  <2>1. CASE n \in 1..Len(w)
    <3>1. n - 1 \in 0..Len(w) /\ v[n] = w[n]
      BY <1>2, <2>1
    <3>2. Replay(c, v)[n - 1] = Replay(c, w)[n - 1]
      BY <1>3, <3>1
    <3>3. QED
      BY <2>1, <3>1, <3>2 DEF Wired
  <2>2. CASE n = Len(w) + 1
    <3>1. n - 1 = Len(w) /\ Len(w) \in 0..Len(w) /\ v[n] = e
      BY <1>2, <2>2
    <3>2. Replay(c, v)[n - 1] = End(c, w)
      BY <1>3, <3>1 DEF End
    <3>3. QED
      BY <3>1, <3>2
  <2>3. QED
    BY <1>2, <2>1, <2>2
<1>7. QED
  BY <1>2, <1>3, <1>4, <1>5, <1>6 DEF v, Wired, End

(* What the compositor may send when the pointer is at p of output o, by   *)
(* where it has sent the pointer before.                                   *)
LEMMA SendsEnter ==
    ASSUME NEW c, NEW w, NEW g, NEW late, Wired(c, w, g, late),
           NEW o \in Outputs, NEW p \in Screen(o)
    PROVE  /\ Wired(c, Append(w, Enter(o, p)), g, late)
           /\ Tracks(End(c, Append(w, Enter(o, p))), o, p)
<1> DEFINE e == Enter(o, p)
<1>1. p - Origin[o] \in 0..(Width[o] - 1) /\ p - Origin[o] \in Int
  BY DEF Screen
<1>2. /\ e.ev = "enter" /\ e.out = o /\ e.x = p - Origin[o]
      /\ e \in [ev : {"enter"}, out : Outputs, x : Int]
  BY <1>1 DEF Enter
<1> HIDE DEF e
<1>3. Apt(End(c, w), e, g, late)
  BY <1>1, <1>2 DEF Apt, Event
<1>4. /\ Wired(c, Append(w, e), g, late)
      /\ End(c, Append(w, e)) = Handle(End(c, w), e)
      /\ End(c, w) \in Client
  BY <1>3, WiredAppend DEF Inside
<1>5. Tracks(Handle(End(c, w), e), o, p)
  BY <1>2, <1>4 DEF Tracks, Handle, PointerEnter, Client
<1>6. QED
  BY <1>4, <1>5 DEF e

LEMMA SendsMotion ==
    ASSUME NEW c, NEW w, NEW g, NEW late, Wired(c, w, g, late),
           NEW o \in Outputs, NEW p \in Screen(o), NEW x, Tracks(End(c, w), o, x)
    PROVE  /\ Wired(c, Append(w, Motion(o, p)), g, late)
           /\ Tracks(End(c, Append(w, Motion(o, p))), o, p)
<1> DEFINE e == Motion(o, p)
<1>1. p - Origin[o] \in 0..(Width[o] - 1) /\ p - Origin[o] \in Int
  BY DEF Screen
<1>2. e.ev = "motion" /\ e.x = p - Origin[o] /\ e \in [ev : {"motion"}, x : Int]
  BY <1>1 DEF Motion
<1> HIDE DEF e
<1>3. End(c, w).focus = o /\ o # Nowhere
  BY SurfaceAssumption DEF Tracks
<1>4. Apt(End(c, w), e, g, late)
  BY <1>1, <1>2, <1>3 DEF Apt, Event
<1>5. /\ Wired(c, Append(w, e), g, late)
      /\ End(c, Append(w, e)) = Handle(End(c, w), e)
      /\ End(c, w) \in Client
  BY <1>4, WiredAppend DEF Inside
<1>6. Tracks(Handle(End(c, w), e), o, p)
  BY <1>2, <1>3, <1>5 DEF Tracks, Handle, PointerMotion, Client
<1>7. QED
  BY <1>5, <1>6 DEF e

LEMMA SendsLeave ==
    ASSUME NEW c, NEW w, NEW g, NEW late, Wired(c, w, g, late), NEW o \in Outputs
    PROVE  Wired(c, Append(w, Leave(o)), g, late)
<1>1. Leave(o).ev = "leave" /\ Leave(o) \in [ev : {"leave"}, out : Outputs]
  BY DEF Leave
<1>2. Apt(End(c, w), Leave(o), g, late)
  BY <1>1 DEF Apt, Event
<1>3. QED
  BY <1>2, WiredAppend

LEMMA SendsCaps ==
    ASSUME NEW c, NEW w, NEW g, NEW late, Wired(c, w, g, late), NEW b \in BOOLEAN
    PROVE  Wired(c, Append(w, Caps(b)), g, late)
<1>1. Caps(b).ev = "caps" /\ Caps(b) \in [ev : {"caps"}, pointer : BOOLEAN]
  BY DEF Caps
<1>2. Apt(End(c, w), Caps(b), g, late)
  BY <1>1 DEF Apt, Event
<1>3. QED
  BY <1>2, WiredAppend

LEMMA CapsAppends ==
    ASSUME NEW w \in Seq(Event), NEW b \in BOOLEAN
    PROVE  /\ w \o <<Caps(b)>> = Append(w, Caps(b))
           /\ \A l \in Event : w \o <<l, Caps(b)>> = Append(Append(w, l), Caps(b))
<1>1. Caps(b) \in Event
  BY DEF Caps, Event
<1> DEFINE e == Caps(b)
<1> HIDE DEF e
<1>2. /\ w \o <<e>> = Append(w, e)
      /\ \A l \in Event : w \o <<l, e>> = Append(Append(w, l), e)
  BY <1>1 DEF e
<1>3. QED
  BY <1>2 DEF e

(* The listeners of a capability leave the position and the focus.         *)
LEMMA CapsTracks ==
    ASSUME NEW c, NEW w, NEW g, NEW late, Wired(c, w, g, late), NEW b \in BOOLEAN,
           NEW o, NEW p, Tracks(End(c, w), o, p)
    PROVE  Tracks(End(c, Append(w, Caps(b))), o, p)
<1>1. Caps(b).ev = "caps" /\ Caps(b) \in [ev : {"caps"}, pointer : BOOLEAN]
  BY DEF Caps
<1>2. Apt(End(c, w), Caps(b), g, late)
  BY <1>1 DEF Apt, Event
<1>3. /\ End(c, Append(w, Caps(b))) = Handle(End(c, w), Caps(b))
      /\ End(c, w) \in Client
  BY <1>2, WiredAppend DEF Inside
<1>4. QED
  BY <1>1, <1>3 DEF Tracks, Handle, SeatCapabilities, Client

\* Here the position counts: a press is credited where the pointer is.
LEMMA SendsButton ==
    ASSUME NEW c, NEW w, NEW g, NEW late, Wired(c, w, g, late), g \in Int,
           NEW o \in Outputs, NEW p \in Int, Tracks(End(c, w), o, p),
           NEW aimed \in BOOLEAN, aimed => p = g,
           NEW e, e = [ev |-> "button", at |-> p, aimed |-> aimed]
    PROVE  /\ Wired(c, Append(w, e), g, late)
           /\ Tracks(End(c, Append(w, e)), o, p)
<1>1. /\ e.ev = "button" /\ e.at = p /\ e.aimed = aimed
      /\ e \in [ev : {"button"}, at : Int, aimed : BOOLEAN]
  OBVIOUS
<1>2. Global(End(c, w)) = p
  BY SurfaceAssumption DEF Tracks, Global
<1>3. aimed => OnCat(p, g, late)
  BY DEF OnCat, Dist
<1>4. Apt(End(c, w), e, g, late)
  BY <1>1, <1>2, <1>3 DEF Apt, Event
<1>5. /\ Wired(c, Append(w, e), g, late)
      /\ End(c, Append(w, e)) = Handle(End(c, w), e)
  BY <1>4, WiredAppend
<1>6. Handle(End(c, w), e) = End(c, w)
  BY <1>1 DEF Handle
<1>7. QED
  BY <1>5, <1>6

LEMMA NothingWaits ==
    ASSUME NEW c, Inside(c), NEW g, NEW late
    PROVE  Wired(c, <<>>, g, late) /\ End(c, <<>>) = c
<1>1. <<>> \in Seq(Event) /\ Len(<<>>) = 0
  OBVIOUS
<1>2. Replay(c, <<>>)[0] = c
  BY <1>1, ReplayDef
<1>3. \A n \in 0..Len(<<>>) : Inside(Replay(c, <<>>)[n])
  BY <1>1, <1>2
<1>4. \A n \in 1..Len(<<>>) : Apt(Replay(c, <<>>)[n - 1], <<>>[n], g, late)
  BY <1>1
<1>5. QED
  BY <1>1, <1>2, <1>3, <1>4 DEF Wired, End

(* The cat takes the one step that a click may lag behind it.              *)
LEMMA TheCatWalksOn ==
    ASSUME NEW c, NEW w, NEW g \in Int, NEW h \in Int, Dist(h, g) <= Speed,
           Wired(c, w, g, FALSE)
    PROVE  Wired(c, w, h, TRUE)
<1>1. ASSUME NEW d, NEW e, Apt(d, e, g, FALSE) PROVE Apt(d, e, h, TRUE)
  BY <1>1 DEF Apt, OnCat, Dist
<1>2. QED
  BY <1>1 DEF Wired

(* What pointer_button makes of an event that is apt.                      *)
LEMMA CallsAreRight ==
    ASSUME NEW c, NEW e, Apt(c, e, cat, ticked), cat \in Int,
           NEW call \in PointerButton(c, e)
    PROVE  call.to = call.pressed /\ (call.aimed => call.taken)
<1>1. e.ev = "button" /\ c.focus # Nowhere
  BY DEF PointerButton
<1>2. call = [to |-> Global(c), pressed |-> e.at, aimed |-> e.aimed,
              taken |-> Clickable(Global(c))]
  BY <1>1 DEF PointerButton
<1>3. Global(c) = e.at /\ (e.aimed => OnCat(e.at, cat, ticked)) /\ e.at \in Int
  BY <1>1 DEF Apt, Event
<1>4. e.aimed => Dist(e.at, cat) <= Reach
  BY <1>3, ReachAssumption DEF OnCat, Dist
<1>5. QED
  BY <1>2, <1>3, <1>4 DEF Clickable

----------------------------------------------------------------------------
(* The compositor's side.                                                  *)

LEMMA UnderIsSeen ==
    ASSUME NEW p
    PROVE  /\ Under(p) \in Surface
           /\ Under(p) # Nowhere => Under(p) \in Outputs /\ p \in Screen(Under(p))
<1> DEFINE S == {o \in Outputs : p \in Screen(o) \cap inForce[o]}
           q == CHOOSE o \in Outputs : p \in Screen(o) \cap inForce[o]
<1>1. CASE \E o \in Outputs : p \in Screen(o) \cap inForce[o]
  <2>1. q \in Outputs /\ p \in Screen(q)
    BY <1>1
  <2>2. Under(p) = q
    BY <1>1 DEF Under
  <2> HIDE DEF q
  <2>3. QED
    BY <2>1, <2>2 DEF Surface
<1>2. CASE ~\E o \in Outputs : p \in Screen(o) \cap inForce[o]
  BY <1>2 DEF Under, Surface
<1>3. QED
  BY <1>1, <1>2

LEMMA FoundIsEvents ==
    ASSUME over \in Surface, NEW p \in Int
    PROVE  Found(p) \in Seq(Event)
<1>1. Under(p) \in Surface
  BY UnderIsSeen
<1>2. ASSUME NEW o \in Surface \ {Nowhere}
      PROVE  Motion(o, p) \in Event /\ Enter(o, p) \in Event /\ Leave(o) \in Event
  <2>1. o \in Outputs /\ p - Origin[o] \in Int
    BY DEF Surface
  <2>2. QED
    BY <2>1 DEF Event, Motion, Enter, Leave
<1>3. QED
  BY <1>1, <1>2 DEF Found

LEMMA FoundSends ==
    ASSUME over \in Surface, Wired(client, wire, cat, ticked),
           NEW x, Tracks(End(client, wire), over, x), NEW p
    PROVE  /\ Wired(client, wire \o Found(p), cat, ticked)
           /\ Tracks(End(client, wire \o Found(p)), Under(p), p)
<1> DEFINE o == Under(p)
<1>0. wire \in Seq(Event)
  BY DEF Wired
<1>1. o \in Surface /\ (o # Nowhere => o \in Outputs /\ p \in Screen(o))
  BY UnderIsSeen
<1>2. Found(p) = IF o = over
                 THEN IF o = Nowhere THEN <<>> ELSE <<Motion(o, p)>>
                 ELSE (IF over = Nowhere THEN <<>> ELSE <<Leave(over)>>)
                      \o (IF o = Nowhere THEN <<>> ELSE <<Enter(o, p)>>)
  BY DEF Found
<1> HIDE DEF o
<1>3. over # Nowhere => over \in Outputs
  BY DEF Surface
<1>4. CASE o = over /\ o = Nowhere
  <2>1. wire \o Found(p) = wire
    BY <1>0, <1>2, <1>4
  <2>2. QED
    BY <1>4, <2>1 DEF o, Tracks
<1>5. CASE o = over /\ o # Nowhere
  <2>1. wire \o Found(p) = Append(wire, Motion(o, p))
    BY <1>0, <1>2, <1>5
  <2>2. QED
    BY <1>1, <1>5, <2>1, SendsMotion DEF o
<1>6. CASE o # over /\ over = Nowhere
  <2>1. wire \o Found(p) = Append(wire, Enter(o, p))
    BY <1>0, <1>2, <1>6
  <2>2. QED
    BY <1>1, <1>6, <2>1, SendsEnter DEF o
<1>7. CASE o # over /\ o = Nowhere
  <2>1. wire \o Found(p) = Append(wire, Leave(over))
    BY <1>0, <1>2, <1>7
  <2>2. QED
    BY <1>3, <1>7, <2>1, SendsLeave DEF o, Tracks
<1>8. CASE o # over /\ o # Nowhere /\ over # Nowhere
  <2>1. wire \o Found(p) = Append(Append(wire, Leave(over)), Enter(o, p))
    BY <1>0, <1>2, <1>8
  <2>2. Wired(client, Append(wire, Leave(over)), cat, ticked)
    BY <1>3, <1>8, SendsLeave
  <2>3. QED
    BY <1>1, <1>8, <2>1, <2>2, SendsEnter DEF o
<1>9. QED
  BY <1>4, <1>5, <1>6, <1>7, <1>8

----------------------------------------------------------------------------
(* The whole way of a click.                                               *)

\* Outputs are given their regions once they are configured, and what they
\* have just committed is what they were told last.
Commits ==
    /\ inForce = [o \in Outputs |-> inForce[o]]
    /\ \A o \in Outputs \ ready : inForce[o] = {}
    /\ drawn \subseteq ready
    /\ \A o \in drawn : inForce[o] = wanted[o]

Told ==
    /\ at \in Spots /\ over \in Surface /\ plugged \in BOOLEAN /\ ticked \in BOOLEAN
    /\ Len(wire) <= MaxWire
    /\ Inside(client)
    /\ Wired(client, wire, cat, ticked)
    /\ Tracks(End(client, wire), over, at)

PointerInv == RegionInv /\ Commits /\ Told /\ ClickWhereItWas /\ ClickOnCatCounts

LEMMA PointerStart == Init => PointerInv
<1> SUFFICES ASSUME Init PROVE PointerInv
  OBVIOUS
<1>1. RegionInv
  BY DEF Init, RegionInit, RegionInv, NoRegion
<1>2. Inside(NewClient)
  BY DEF Inside, NewClient, Client, Surface
<1>3. Wired(client, wire, cat, ticked)
  BY <1>2, NothingWaits DEF Init
<1>4. Commits
  BY DEF Init, RegionInit, Commits
<1>5. Told
  <2>1. Len(wire) <= MaxWire
    BY WireAssumption DEF Init
  <2>2. QED
    BY <1>2, <1>3, <2>1 DEF Init, Told, Surface, Tracks
<1>6. ClickWhereItWas /\ ClickOnCatCounts
  BY DEF Init, ClickWhereItWas, ClickOnCatCounts
<1>7. QED
  BY <1>1, <1>4, <1>5, <1>6 DEF PointerInv

LEMMA CommitsInductive ==
    ASSUME RegionInv, Commits, [Next]_vars
    PROVE  Commits'
<1> USE DEF Commits
<1>1. CASE RunTick
  <2>1. ready' = ready /\ \E waiting \in SUBSET ready : Commit(ready \ waiting)
    BY <1>1 DEF RunTick, Tick
  <2>2. QED
    BY <2>1 DEF Commit, RegionInv
<1>2. ASSUME NEW o \in Outputs, LateConfigure(o) PROVE Commits'
  BY <1>2 DEF LateConfigure, Configure, Render, Commit, RegionInv
<1>3. ASSUME NEW o \in Outputs, FrameDone(o) PROVE Commits'
  BY <1>3 DEF FrameDone, Render, Commit, RegionInv, regionVars
<1>4. CASE DispatchPending \/ User
  <2>1. drawn' = {} /\ UNCHANGED <<inForce, ready>>
    BY <1>4 DEF DispatchPending, User, Press, Unplug, Plug, Point, Send, regionVars
  <2>2. QED
    BY <2>1
<1>5. CASE UNCHANGED vars
  BY <1>5 DEF vars, regionVars, compositorVars
<1>6. QED
  BY <1>1, <1>2, <1>3, <1>4, <1>5 DEF Next, Repaint

LEMMA DispatchStep ==
    ASSUME PointerInv, DispatchPending
    PROVE  Told' /\ ClickWhereItWas' /\ ClickOnCatCounts'
<1>1. /\ client' = End(client, wire) /\ wire' = <<>> /\ ticked' = FALSE
      /\ calls' = UNION {PointerButton(Replay(client, wire)[n - 1], wire[n]) :
                            n \in DOMAIN wire}
      /\ UNCHANGED <<cat, at, over, plugged>>
  BY DEF DispatchPending, End, regionVars
<1>2. wire \in Seq(Event) /\ Len(wire) \in Nat /\ DOMAIN wire = 1..Len(wire)
  BY DEF PointerInv, Told, Wired
<1>3. Inside(client')
  BY <1>1, <1>2 DEF PointerInv, Told, Wired, End
<1>4. Wired(client', <<>>, cat, FALSE) /\ End(client', <<>>) = client'
  BY <1>3, NothingWaits
<1>5. Told'
  <2>1. Len(wire') <= MaxWire
    BY <1>1, WireAssumption
  <2>2. Wired(client', wire', cat', ticked') /\ Tracks(End(client', wire'), over', at')
    BY <1>1, <1>4 DEF PointerInv, Told
  <2>3. QED
    BY <1>1, <1>3, <2>1, <2>2 DEF PointerInv, Told
<1>6. ASSUME NEW call \in calls'
      PROVE  call.to = call.pressed /\ (call.aimed => call.taken)
  <2>1. PICK n \in 1..Len(wire) :
                call \in PointerButton(Replay(client, wire)[n - 1], wire[n])
    BY <1>1, <1>2, <1>6
  <2>2. Apt(Replay(client, wire)[n - 1], wire[n], cat, ticked)
    BY DEF PointerInv, Told, Wired
  <2>3. cat \in Int
    BY DEF PointerInv, RegionInv
  <2>4. QED
    BY <2>1, <2>2, <2>3, CallsAreRight
<1>7. QED
  BY <1>5, <1>6 DEF ClickWhereItWas, ClickOnCatCounts

LEMMA TickStep ==
    ASSUME PointerInv, RunTick
    PROVE  Told'
<1>1. /\ ticked = FALSE /\ ticked' = TRUE /\ cat' \in Desktop /\ Dist(cat', cat) <= Speed
      /\ UNCHANGED <<at, over, plugged, wire, client>>
  BY DEF RunTick, Tick, PointerInv, Told
<1>2. Wired(client, wire, cat', TRUE)
  <2>1. Wired(client, wire, cat, FALSE) /\ cat \in Int /\ cat' \in Int
    BY <1>1 DEF PointerInv, Told, RegionInv
  <2>2. QED
    BY <1>1, <2>1, TheCatWalksOn
<1>3. QED
  BY <1>1, <1>2 DEF PointerInv, Told

\* What every action of the user has in common.
LEMMA SendStep ==
    ASSUME PointerInv, NEW events, Send(events),
           at' \in Spots, over' \in Surface, plugged' \in BOOLEAN,
           Wired(client, wire \o events, cat, ticked),
           Tracks(End(client, wire \o events), over', at')
    PROVE  Told'
<1>1. /\ UNCHANGED <<client, cat, ticked>> /\ wire' = wire \o events
  BY DEF Send, regionVars
<1>2. Len(wire') <= MaxWire
  <2>1. Len(wire) + Len(events) <= MaxWire
    BY DEF Send
  <2>2. wire' \in Seq(Event)
    BY <1>1 DEF Wired
  <2>3. QED
    BY <1>1, <2>1, <2>2
<1>3. QED
  BY <1>1, <1>2 DEF PointerInv, Told

LEMMA UserStep ==
    ASSUME PointerInv, User
    PROVE  Told'
<1>1. /\ over \in Surface /\ wire \in Seq(Event) /\ at \in Int /\ at \in Spots
      /\ cat \in Int /\ plugged \in BOOLEAN
      /\ Wired(client, wire, cat, ticked) /\ Tracks(End(client, wire), over, at)
  BY SpotsAssumption DEF PointerInv, RegionInv, Told, Wired
<1>2. ASSUME NEW p \in Spots, Point(p) PROVE Told'
  <2>1. at' = p /\ over' = Under(p) /\ plugged' = plugged /\ Send(Found(p))
    BY <1>2 DEF Point
  <2>2. /\ Wired(client, wire \o Found(p), cat, ticked)
        /\ Tracks(End(client, wire \o Found(p)), over', at')
    BY <1>1, <2>1, FoundSends
  <2>3. at' \in Spots /\ over' \in Surface /\ plugged' \in BOOLEAN
    BY <1>1, <2>1, UnderIsSeen
  <2>4. QED
    BY <2>1, <2>2, <2>3, SendStep
<1>3. CASE Press
  <2>1. /\ over' = Under(at) /\ at' = at /\ plugged' = plugged
        /\ Send(IF over' = Nowhere THEN Found(at) ELSE Found(at) \o <<Button(at)>>)
    BY <1>3 DEF Press
  <2>2. /\ Wired(client, wire \o Found(at), cat, ticked)
        /\ Tracks(End(client, wire \o Found(at)), over', at')
    BY <1>1, <2>1, FoundSends
  <2>3. at' \in Spots /\ over' \in Surface /\ plugged' \in BOOLEAN
    BY <1>1, <2>1, UnderIsSeen
  <2>4. CASE over' = Nowhere
    BY <2>1, <2>2, <2>3, <2>4, SendStep
  <2>5. CASE over' # Nowhere
    <3>1. over' \in Outputs
      BY <2>3, <2>5 DEF Surface
    <3>2. Button(at) = [ev |-> "button", at |-> at, aimed |-> at = cat]
      BY DEF Button
    <3>3. /\ Wired(client, Append(wire \o Found(at), Button(at)), cat, ticked)
          /\ Tracks(End(client, Append(wire \o Found(at), Button(at))), over', at)
      BY <1>1, <2>1, <2>2, <3>1, <3>2, SendsButton
    <3>4. wire \o (Found(at) \o <<Button(at)>>) = Append(wire \o Found(at), Button(at))
      <4>1. Button(at) \in Event
        BY <1>1, <3>2 DEF Event
      <4>2. Found(at) \in Seq(Event)
        BY <1>1, FoundIsEvents
      <4>3. QED
        BY <1>1, <4>1, <4>2
    <3>5. Send(Found(at) \o <<Button(at)>>)
      BY <2>1, <2>5
    <3>6. QED
      BY <2>1, <2>3, <3>3, <3>4, <3>5, SendStep
  <2>6. QED
    BY <2>4, <2>5
<1>4. CASE Unplug
  <2>1. plugged' = FALSE /\ over' = Nowhere /\ at' = at
    BY <1>4 DEF Unplug
  <2>2. CASE Send(<<Caps(FALSE)>>)
    <3>1. wire \o <<Caps(FALSE)>> = Append(wire, Caps(FALSE))
      BY <1>1, CapsAppends
    <3>2. Wired(client, wire \o <<Caps(FALSE)>>, cat, ticked)
      BY <1>1, <3>1, SendsCaps
    <3>3. QED
      BY <1>1, <2>1, <2>2, <3>2, SendStep DEF Surface, Tracks
  <2>3. CASE over # Nowhere /\ Send(<<Leave(over), Caps(FALSE)>>)
    <3>1. over \in Outputs
      BY <1>1, <2>3 DEF Surface
    <3>2. wire \o <<Leave(over), Caps(FALSE)>>
             = Append(Append(wire, Leave(over)), Caps(FALSE))
      BY <1>1, <3>1, CapsAppends DEF Leave, Event
    <3>3. Wired(client, Append(wire, Leave(over)), cat, ticked)
      BY <1>1, <3>1, SendsLeave
    <3>4. Wired(client, wire \o <<Leave(over), Caps(FALSE)>>, cat, ticked)
      BY <3>2, <3>3, SendsCaps
    <3>5. QED
      BY <1>1, <2>1, <2>3, <3>4, SendStep DEF Surface, Tracks
  <2>4. QED
    BY <1>4, <2>2, <2>3 DEF Unplug
<1>5. CASE Plug
  <2>1. plugged' = TRUE /\ over' = over /\ at' = at /\ Send(<<Caps(TRUE)>>)
    BY <1>5 DEF Plug
  <2>2. wire \o <<Caps(TRUE)>> = Append(wire, Caps(TRUE))
    BY <1>1, CapsAppends
  <2>3. /\ Wired(client, wire \o <<Caps(TRUE)>>, cat, ticked)
        /\ Tracks(End(client, wire \o <<Caps(TRUE)>>), over', at')
    BY <1>1, <2>1, <2>2, SendsCaps, CapsTracks
  <2>4. QED
    BY <1>1, <2>1, <2>3, SendStep
<1>6. QED
  BY <1>2, <1>3, <1>4, <1>5 DEF User

LEMMA PointerStep ==
    ASSUME PointerInv, [Next]_vars
    PROVE  PointerInv'
<1>1. RegionInv' /\ Commits'
  BY RegionInvInductive, CommitsInductive DEF PointerInv
<1>2. CASE DispatchPending
  BY <1>1, <1>2, DispatchStep DEF PointerInv
<1>3. CASE RunTick
  BY <1>1, <1>3, TickStep
     DEF PointerInv, RunTick, ClickWhereItWas, ClickOnCatCounts
<1>4. CASE Repaint
  <2>1. calls' = {} /\ UNCHANGED <<at, over, plugged, wire, client, cat, ticked>>
    BY <1>4 DEF Repaint, LateConfigure, FrameDone, Render, Configure, regionVars
  <2>2. Told'
    BY <2>1 DEF PointerInv, Told
  <2>3. QED
    BY <1>1, <2>1, <2>2 DEF PointerInv, ClickWhereItWas, ClickOnCatCounts
<1>5. CASE User
  <2>1. calls' = {}
    BY <1>5 DEF User, Press, Unplug, Plug, Point, Send
  <2>2. QED
    BY <1>1, <1>5, <2>1, UserStep DEF PointerInv, ClickWhereItWas, ClickOnCatCounts
<1>6. CASE UNCHANGED vars
  <2>1. UNCHANGED <<calls, at, over, plugged, wire, client, cat, ticked>>
    BY <1>6 DEF vars, compositorVars, regionVars
  <2>2. Told'
    BY <2>1 DEF PointerInv, Told
  <2>3. QED
    BY <1>1, <2>1, <2>2 DEF PointerInv, ClickWhereItWas, ClickOnCatCounts
<1>7. QED
  BY <1>2, <1>3, <1>4, <1>5, <1>6 DEF Next

(* Whatever waits to be dispatched, every event finds the listeners in a   *)
(* state in which it is credited to the right place (the wl_pointer ones).  *)
THEOREM PointerInvariant == Spec => []PointerInv
<1>1. Init => PointerInv
  BY PointerStart
<1>2. PointerInv /\ [Next]_vars => PointerInv'
  BY PointerStep
<1>3. QED
  BY <1>1, <1>2, PTL DEF Spec

(* No output takes clicks before it is configured, and the position on an  *)
(* output is a place of that output.                                       *)
THEOREM PositionsAreOnOutputs == Spec => []TypeOK
<1>1. PointerInv => TypeOK
  BY DEF PointerInv, RegionInv, Commits, Told, Inside, TypeOK, RegionTypeOK
<1>2. QED
  BY <1>1, PointerInvariant, PTL

(* Whenever an output commits, it takes clicks only if the cat it shows is *)
(* near, and only near that cat (set_cat_region, render_output_with).      *)
THEOREM ClicksStayNear == Spec => []ClicksNearCat
<1>1. PointerInv => ClicksNearCat
  <2>1. SUFFICES ASSUME PointerInv, NEW o \in drawn, inForce[o] # {}
                 PROVE  /\ \E h \in Screen(o) : Dist(h, cat) <= Half + Slack + Speed
                        /\ \A x \in inForce[o] :
                               Dist(x, cat) < 3 * Half + Slack + Speed
    BY DEF ClicksNearCat
  <2>2. /\ o \in Outputs /\ o \in reached /\ inForce[o] = RegionOn(o, pushed)
        /\ pushed \in Int /\ cat \in Int /\ Dist(pushed, cat) <= Slack + Speed
    <3>1. RegionInv /\ Commits
      BY <2>1 DEF PointerInv
    <3>2. pushed \in Int /\ cat \in Int
      BY <3>1 DEF RegionInv, NoRegion
    <3>3. o \in Outputs /\ inForce[o] = wanted[o]
      BY <2>1, <3>1 DEF RegionInv, Commits
    <3>4. o \in reached
      BY <2>1, <3>1, <3>3 DEF RegionInv
    <3>5. QED
      BY <3>1, <3>2, <3>3, <3>4 DEF RegionInv
  <2>3. ASSUME NEW x \in Int
        PROVE  /\ Dist(x, cat) \in Nat /\ Dist(x, pushed) \in Nat
               /\ Dist(x, cat) <= Dist(x, pushed) + (Slack + Speed)
    BY <2>2 DEF Dist
  <2>4. PICK h \in Screen(o) : h \in Int /\ Dist(h, pushed) <= Half
    BY <2>1, <2>2, RegionTouches
  <2>5. Dist(h, cat) <= Half + Slack + Speed
    BY <2>3, <2>4
  <2>6. ASSUME NEW x \in inForce[o] PROVE Dist(x, cat) < 3 * Half + Slack + Speed
    <3>1. x \in Int /\ Dist(x, pushed) < 3 * Half
      BY <2>1, <2>2, RegionTouches
    <3>2. QED
      BY <2>3, <3>1
  <2>7. QED
    BY <2>5, <2>6
<1>2. QED
  BY <1>1, PointerInvariant, PTL

(* Whenever an output commits, the middle of the cat it shows takes clicks *)
(* if it was there at the last push, wherever the cat has walked since, and*)
(* otherwise the cat is still where the next push is due (on_tick).        *)
THEOREM MiddleTakesClicks == Spec => []CatTakesClicks
<1>1. PointerInv => CatTakesClicks
  <2>1. SUFFICES ASSUME PointerInv, NEW o \in drawn
                 PROVE  IF o \in reached
                        THEN \A x \in Screen(o) :
                                 Dist(x, cat) < Half - Slack - Speed => x \in inForce[o]
                        ELSE /\ inForce[o] = {}
                             /\ pushed # NoRegion => Dist(cat, pushed) <= Slack + Speed
    BY DEF CatTakesClicks
  <2>2. o \in Outputs /\ inForce[o] = wanted[o] /\ pushed \in Int /\ cat \in Int
    <3>1. RegionInv /\ Commits
      BY <2>1 DEF PointerInv
    <3>2. pushed \in Int /\ cat \in Int
      BY <3>1 DEF RegionInv, NoRegion
    <3>3. o \in Outputs /\ inForce[o] = wanted[o]
      BY <2>1, <3>1 DEF RegionInv, Commits
    <3>4. QED
      BY <3>2, <3>3
  <2>3. CASE o \in reached
    <3>1. SUFFICES ASSUME NEW x \in Screen(o), Dist(x, cat) < Half - Slack - Speed
                   PROVE  x \in inForce[o]
      BY <2>3
    <3>2. x \in Int
      BY <2>2 DEF Screen
    <3>3. Dist(x, pushed) < Half
      BY <2>1, <2>2, <2>3, <3>1, <3>2 DEF PointerInv, RegionInv, Dist
    <3>4. QED
      BY <2>1, <2>2, <2>3, <3>3, RegionReaches DEF PointerInv, RegionInv
  <2>4. CASE o \notin reached
    <3>1. inForce[o] = {}
      BY <2>1, <2>2, <2>4 DEF PointerInv, RegionInv
    <3>2. pushed # NoRegion => Dist(cat, pushed) <= Slack + Speed
      BY <2>1, <2>2, Distances DEF PointerInv, RegionInv
    <3>3. QED
      BY <2>4, <3>1, <3>2
  <2>5. QED
    BY <2>3, <2>4
<1>2. QED
  BY <1>1, PointerInvariant, PTL

(* A click is credited where the button was pressed (pointer_button).      *)
THEOREM ClicksAreWhereTheyWere == Spec => []ClickWhereItWas
<1>1. PointerInv => ClickWhereItWas
  BY DEF PointerInv
<1>2. QED
  BY <1>1, PointerInvariant, PTL

(* A click on the middle of the cat is within its 100 px (App::run).       *)
THEOREM ClicksOnCatCount == Spec => []ClickOnCatCounts
<1>1. PointerInv => ClickOnCatCounts
  BY DEF PointerInv
<1>2. QED
  BY <1>1, PointerInvariant, PTL
============================================================================
