# Verification of Another Your MeowMeow Mate (aymm)

TLA+ models of the aymm desktop pet, the TLC runs that check them on small
instances, and TLAPS proofs of most of the safety properties for every value of
the constants. The code is the reference: the models follow `src/` and `include/`, and `PROJECT.json` maps
every definition to the lines it stands for.

## The system

One daemon process, one thread (plus a detached one that only ends it), and
short-lived `aymm` commands that talk to the daemon over a UNIX socket.

| Component | State it keeps | Operations | Talks to |
|---|---|---|---|
| Pomodoro timer (`pomodoro/PomodoroTimer`) | phase, paused phase, two instants, focus count | start, pause, resume, stop, skip, toggle, tick; remaining, progress | called by App on ticks and requests |
| Pet state machine (`pet/PetStateMachine`) | state, direction, two instants, animation frame | set_state, set_direction, tick | called by Pet and App |
| Pet and chase (`pet/Pet`, `pet/CursorChaseBehavior`) | position, target, speed, rest distance | step, update | asks a cursor provider |
| Pomodoro behavior (`pet/PomodoroBehavior`) | base speed and distance | apply | reads the timer, writes the pet |
| Effects (`pet/ActionState`) | effect, last effect, start, prop position | trigger_next, update | right-click callback, App tick |
| Speech bubble (`animation/SpeechBubble`) | text, style, expiry | say, active, draw | App |
| App (`app/App`) | all of the above, last phase, last region, visible | constructor, on_tick, handle_request, button callback, draw, run | everything |
| Overlay (`wayland/OverlaySurface`) | per output: size, buffer, frame callback, input region, pointer | configure, frame, closed, pointer events, set_cat_region, schedule_redraw, dispatch_pending, quit | compositor; calls App's draw and button callbacks |
| Control socket (`cli/ControlSocket`) | listening fd, bound path | bind_listen, accept_one, close_server; send_request in the client | calls App's handle_request |
| Cursor providers (`cursor/`) | socket path (Hyprland), devices and a virtual cursor (evdev), nothing (null) | poll | Hyprland, kernel |
| Notifier (`app/Notifier`) | enabled | notify: spawns notify-send, gives up for good when it cannot | App |
| Configuration, command line, main (`app/Config`, `cli/Cli`, `main`) | none: a process from its arguments to its exit code | load, parse_cli, main | Control socket, App |
| Sprites, procedural cat (`animation/`) | the loaded sheet | load, resolve, draw | App's draw |
| Waybar status, persona | none | formatting | App's handle_request |

What is hard about it:

* **One thread for everything.** Ticks, frames, clicks and requests interleave
  at handler granularity; a blocking `recv` in one handler stops the others.
* **State read in one handler and used in another.** A phase change by a command
  is noticed by the next tick; the input region is pushed before the cat moves;
  a prop is placed by a click between two steps.
* **Clocks.** Everything timed is an instant compared with "now": pauses shift
  one, skips rewind one, turns restart another.
* **The outside.** Clients that stay silent or die, a second daemon on the same
  path, a killed one, a compositor that reconfigures in the middle of a frame,
  memory that runs out, a notify-send that is not there.
* **What the user meant.** A command line is scanned once, flags swallow what
  follows them, and a configuration file, flags and defaults override each
  other; the same words are a daemon's start or a request to one.

Correctness, per component: the timer loses no time to pauses and follows its
cycle; the cat strides, turns, rests and sleeps as the animation shows and
reaches what it chases; effects and bubbles end; the tick keeps the timer, the
pet, the effect and the input region in step; nobody waits for good unless
somebody keeps silent; drawing never stalls; what is drawn agrees with what the
cat does; a daemon that runs alone can be reached, and the exit code of a
command says what became of it.

## The modules

| Module | Models | State and actions |
|---|---|---|
| `PomodoroTimer` | `PomodoroTimer.cpp` | the object as a record, each method an operator from record to record |
| `PomodoroCycle` | nothing: the abstract specification | a stopwatch, a mode, a count modulo the sessions |
| `WaybarStatus` | `waybar_payload` | what the bar is told, as an operator on the timer |
| `PomodoroSession` | a timer in use | one action per command and tick, and the passing of time |
| `MethodProofs`, `PomodoroSessionProofs` | | lemmas about the methods of the timer, the state machine and the pet; theorems about `PomodoroSession` |
| `PetStateMachine`, `Pet` | `PetStateMachine.cpp`, `Pet.cpp`, `CursorChaseBehavior.cpp` | the objects as records, the methods as operators |
| `CursorProvider` | `make_cursor_provider`, `EvdevCursorProvider.cpp` | the choice of a provider, the virtual cursor; operators |
| `Chase` | a pet that chases what a provider reports | ticks that see the cursor or not, moves of the cursor, motion of the devices; theorems in `ChaseProofs` |
| `ActionState`, `SpeechBubble` | the classes of these names | records and operators |
| `App` | `App.cpp`, `PomodoroBehavior.cpp`, `Notifier.cpp` | composes the timer, the pet, the effects, the bubble and the notifier: `OnTick`, `HandleRequest`, `RightClick`, `QuitThread` |
| `Screen` (`ScreenMC`) | `App::draw`, `SpriteSheet.cpp`, `Animation.cpp`, what tells one procedural cat from another | a picture as a function of the state of `App` and of a manifest; no action of its own |
| `AppProofs` | | theorems about `App` and `Screen` |
| `RunLoop` | `App::run`, `accept_one`, `send_request`, `dispatch_pending` | a program counter through the loop, the three fds, the clients, the quit thread (`RunLoopProofs`) |
| `TickingServer` | nothing: what the loop promises | a line of clients, how far each has come, a tick that is due |
| `Overlay` (`OverlayMC`) | frame callbacks and buffers of `OverlaySurface.cpp` | configure, frame done, redraw, memory; theorems in `OverlayProofs` |
| `InputRegion` | `set_cat_region` and its caller | a tick and a late configure of an output, without a specification of its own |
| `Pointer` (`PointerMC`) | the pointer and seat listeners of `OverlaySurface.cpp`, and the button callback | composes `InputRegion` with a compositor, a connection that holds events back, and a mouse; theorems in `PointerProofs` |
| `ControlSocket` | `bind_listen`, `close_server` | the life of several daemons on one path, system call by system call |
| `Cli` | `parse_cli` | one turn of its loop, and what each turn leaves of the arguments; operators |
| `Config` | `Config::load` | the keys that something reads, and the configuration after each line of a file; operators |
| `Command` (`CommandMC`) | `main`, `send_request`, what makes `connect` to the compositor fail | composes `Cli`, `Config` and `ControlSocket`: commands and daemons from the line typed to the exit code |
| `CommandProofs` | | theorems about `Command`, the `ControlSocket` in it, and what a line means |

An object of the code is a record and a method is an operator on it, so that a
handler which calls several methods in a row (`on_tick`) is their composition
and one atomic action, as it is on the daemon's single thread. Where the code
can be interrupted by another process (`bind_listen`, the steps of `run`)
the steps are actions of their own.

Instants are kept as ages: the code only subtracts them from "now". Ages that
are compared with a threshold stop at it. The tick of the pet is one clock
unit; the timer's clock is much coarser, so that in `App` a tick advances it by
0 or 1. In `PomodoroTimer` it is finer than a second (`Second` units), because
`remaining()` truncates and `tick()` does not.

`Pointer` keeps the order of the loop: what waits on the connection is
dispatched before the next tick, so that a click is handled at most one tick
after it was made. Its region comes into force with a commit, at once or with
a later frame callback. The same commit shows the cat where it is by then; `drawn`
has the outputs that have just committed, so that the properties can compare the
two. Between commits neither changes. `reached` has the outputs that were configured
when the region was last pushed. The compositor looks where the pointer is when
the mouse moves or clicks. A dispatch makes a set of calls, since no property asks in
which order they were made. `Chase` adds what devices report between two polls up to
one number, since `poll` clamps once, after the last event. The evdev cursor may
differ from the real one (it starts at the cat, and the two are cut off
differently at an edge); the properties are about the one the cat is told of.

`Command` runs a process per command line: a daemon goes through the states of
`ControlSocket`, a request goes out to the daemon that listens on the path, and
comes back with a reply, with nothing, or not at all. `skip` with
`pomodoro_sessions_before_long_break=0` divides by zero in the daemon and kills
it. An empty argument after `pomodoro` is not its command, like an option.
`Meant` is a reference definition of what a line and a file ask for, written
from the position of the verb instead of a scan; `LaunchesAsMeant` compares it
with `Main` for all short lines and files, and `MainIsMeant` proves it for all.

`Screen` keeps of a picture what a reader of it can tell: which animation or
basket or cat, mirrored or not, with how many frames, where the prop is, whose
the bubble seems to be. A manifest is a sequence of keys and values, of which a
later one of a key counts.

What moves is on a line, across the desktop or down it: a cat heads east and west
on the one, north and south on the other, and the distance is the absolute value.
`Chase` and `AppPlay` have both lines. They are not alike: a cat is mirrored to the
west only, and for due north and south the click and the drawing disagree on
which way that is (`PropBesideHead`). Props that stand beside the cat are kept with
their offset to the east or west whichever line it is on. The diagonal directions
are left out: `FacingEast` and `FacesWest` treat NE and SE like E, NW and SW like W.
So are a ball that is tossed off the line, and the rounding of positions in two
dimensions. `InputRegion` and `Pointer` are one axis of the desktop; the code treats
both the same there.

Definitions marked *Faulty* in a comment are variants of the one that follows,
with a mistake that could be made there; they are not part of any specification
and serve to see that the properties notice (`mutants` in `PROJECT.json`).

## The runs

| Run | Question | Bounds |
|---|---|---|
| `PomodoroSession` | does any sequence of commands lose time, lie about the countdown, show another session on the bar when it is paused, or leave the cycle; is the long break reached | focus 3 s, break 1 s, long break 2 s: all different; half-second clock, so that truncation shows; a long break every 2nd focus; a phase or pause stays unattended for at most `MaxAge` = 8 units, past every duration; 5 counted sessions, two rounds |
| `Chase` | striding, turning, resting, sleeping, reaching, with each provider | four cursor places at uneven distances, with neighbours nearer than a stride (3) and than the rest distance; between two polls a device moves by up to 3, which goes over either edge; the line lies across the desktop or down it; wiggle, wake and sleep thresholds 1, 2, 3 |
| `AppPlay` | region, props, drawing and the end of effects, with everything interleaved | skip, toggle and quit requests; the ball, the bowl and the post; the cursor seen or not; places on a line of 12 units, the ball at 6, stride 2 and 1, effects of 5 ticks: long enough to run to the ball and stop; six manifests: none, complete, with a run to the east only, with an empty run, without a picture, with a missing one; the cat runs across the desktop or down it |
| `AppFocus` | where the cat ends up, what it says in a focus, what is announced last | all timer commands, no effects; the cursor still; notify-send may fail at any time |
| `AppMeal` | does the cat sit to eat: not one that sleeps | food and hearts |
| `RunLoop` | who waits for whom, and is it a server that answers in turn | two clients (one served, one waiting), a backlog of two |
| `RunLoopQuit` | does `aymm quit` end the daemon: it does not | as above |
| `RunLoopSlow` | does the lowest poll rate tick: it does not | one client |
| `Overlay` | can drawing stall, or miss the mapping | one output (they share nothing but memory), three configures of four sizes: landscape, turned (same bytes), other, empty |
| `OverlayTurned` | is the buffer the size of the output: not after a turn | as above |
| `Pointer` | does what each commit puts in force fit the cat it shows, where are clicks credited, does one on the cat count | two outputs of 6, the cat at every point of both, so that it can be further from one of them than its region, slack and stride reach; a region of 6, slack and stride 1, so that only the middle is sure to take clicks; commits at once, late or with a late configure; one place to point to on each output; up to three events waiting: a leave, an enter and a button, the longest the compositor sends at once |
| `Command` | is a command line read as it was meant, is a daemon that is alone reachable, do failed ones do harm, can an exit code be believed, does everything come back | two daemons and two commands from seven lines (a run with a file that divides by zero, help, requests, quit, nothing); outputs that are there or not; kills and crashes at every step. The comparison with `Meant` takes all lines of up to three of eleven arguments and all files of up to two of six lines |

The durations and distances are small, in the order and with the inequalities
of the real ones (`ASSUME`s in the modules say which are needed, for instance
that the cat stops short of the ball, and that the region reaches further than
slack and stride together).

`RunLoop` and `Command` are checked without deadlock detection: a daemon that
has exited, or waits for a silent client, has really stopped, and so have
commands that are over. All other models must always be able to go on.

### Fairness

* `PomodoroSession`: time passes and ticks come, because the timerfd is
  periodic. No command is fair.
* `Chase`, `App`: ticks come; the quit thread's two-second sleep ends. Nothing is
  assumed of the user, the cursor or the provider; properties about a user who
  leaves a phase alone say so themselves (`<>[]`).
* `RunLoop`: the thread is scheduled, the armed timerfd expires, `sleep_for`
  ends. Clients and compositor owe nothing; `NobodyKeepsSilent` is a premise of
  the properties that need it. `poll` handles the three fds in a fixed order in
  each round, so weak fairness of the loop as a whole is enough and no fd needs
  one of its own.
* `Overlay`: ticks come, and the compositor answers the frame callbacks it owes.
* `Command`: a daemon that starts gets on with `bind_listen`, and one that serves
  gets round to the request it has been sent (`RunLoop` says when that may be
  relied on); the kernel hangs up the connections of one that has ended. Nobody
  has to type anything.

### Disagreements

Four runs end in a counterexample to what a document says (`findings`):

* `aymm quit` does not end the daemon. `OverlaySurface::quit()` sets
  `should_quit_`, which only `OverlaySurface::run()` reads, and `App::run()` has
  a loop of its own.
* `cursor_poll_hz=1` (or less) gives the timerfd a period of 1 000 000 000 ns
  in `tv_nsec`, which the kernel refuses: no tick ever comes.
* An output that is turned by a right angle keeps its old buffer, since
  `ensure_buffer` compares the number of bytes only.
* A cat that sleeps when it is fed or stroked does not sit up: `on_tick` sets
  Idle, which does not restart the clock of the last movement, and the state
  machine sets Sleep again in the same tick.

Others were met while modelling, and are what the models do too: a phase longer than 24 hours is not skipped (`SkipReaches`
is an assumption of the refinement); a paused focus still slows the cat down; a
cat that has rested sleeps at its post; a break skipped before the next tick is
not announced; a second daemon takes the socket path of a first that is alive;
a cat that `aymm toggle` has hidden still takes clicks; an output that is unplugged
is kept.
`docs/sprite-format.md:32` announces the fallback to `idle` for every animation,
and `sleep` and `wake` are looked up without it, so that the cat is not drawn at
all.

Four more contradict a comment. The models do what the code does, and the
properties that come near are stated so that they neither claim what the comment
says nor hide the difference:

* **The bowl behind the cat.** `ActionState.hpp:30-31` has the bowl "in front of the
  cat's head, not behind". The callback calls everything but None, E, NE and SE west
  (`App.cpp:208-210`); the drawing mirrors W, NW and SW only (`ProceduralCat.cpp:15-17`),
  so that it does not "keep the current heading" for due north and south either
  (line 13-14) but always looks east. A cat that was running due north or south has
  its bowl and its post behind it. `PropBesideHead` says "in front", and "behind" for
  exactly these two.
* **A touched output.** `OverlaySurface.hpp:57-58` promises an empty region to outputs
  that the rectangle does not intersect. With `lx + half >= 0` (`OverlaySurface.cpp:413`)
  one that it only touches, at its near edge, gets a whole region of 110 px, because
  the rectangle is moved inside there and not cut. `RegionOn` has the test as it is,
  and `ClicksNearCat` claims no more than a distance from the cat.
* **A late output.** `OverlaySurface.hpp:58-60` asks for a call of `set_cat_region` on
  each tick, as it throttles by itself; `on_tick` throttles as well, for all outputs
  together. An output that is configured while the cat rests on it takes no
  clicks until the cat has moved on. `CatTakesClicks` has it as its exception.
* **A blind tick.** `CursorProvider.hpp:22-24` wants no movement on a tick that does not
  know the cursor; `CursorChaseBehavior::update` steps on to where it was last.
  `Chase` has the step (`TickBlind`), and no property asks for it.

## The proofs

TLAPS checks them for all values of the constants that satisfy the named
assumptions of the modules. Everything rests on an inductive invariant per
specification; the table says which run shows the same on an instance.

| Module | Theorem | Property (run) |
|---|---|---|
| `PomodoroSessionProofs` | `TimerInvariant`, `TimerTypes`, `PauseCorrect` | `TypeOK`, `PauseRemembersItsPhase` (`PomodoroSession`) |
| | `StatusHonest`, `PauseFree`, `BarThroughPause` | `StatusIsHonest`, `PauseIsFree`, `BarSurvivesPause` |
| | `TimerImplementsCycle` | `ImplementsCycle`, refinement |
| `ChaseProofs` | `ChaseInvariant`, `StaysOnDesktop` | `TypeOK` (`Chase`) |
| | `SleepIsEarned`, `NothingSetsItOff` | `RestIsCounted`, `StaysUntilStirred` |
| `AppProofs` | `AppInvariant`, `AppTypes` | `TypeOK` (`AppPlay`) |
| | `CatStaysClickable`, `BallStaysClear`, `MealStaysBeside` | `RegionFollowsCat`, `BallNotUnderCat`, `PropBesideHead` |
| | `SeenRunning` | `LooksWhereItGoes` |
| | `FocusStaysQuiet` | `QuietInFocus` (`AppFocus`) |
| `OverlayProofs` | `OverlayInvariant`, `MappedIsTheBuffer` | `TypeOK` (`Overlay`) |
| | `CallbacksAreOwed`, `BuffersFit` | `ChainsCounted`, `PaintsWithinBuffer` |
| `PointerProofs` | `RegionInvariant`, `ClicksStayNear`, `MiddleTakesClicks` | `ClicksNearCat`, `CatTakesClicks` (`Pointer`) |
| | `PointerInvariant`, `PositionsAreOnOutputs` | `TypeOK` |
| | `ClicksAreWhereTheyWere`, `ClicksOnCatCount` | `ClickWhereItWas`, `ClickOnCatCounts` |
| `RunLoopProofs` | `LoopInvariant`, `NobodyIsLost` | `TypeOK` (`RunLoop`) |
| | `OneClientBeforeATick` | `TickWaitsForOneClient`, the invariant behind late ticks |
| | `LoopImplementsServer` | `ServesInTurn`, refinement |
| `CommandProofs` | `SocketInvariant`, `AloneReachable`, `UnservedLeaves` | `AloneIsReachable`, `UnservedLeavesSocket` (`Command`) |
| | `CommandInvariant`, `ExitTruthful`, `CommandTypes` | `ExitTellsTheTruth`, `TypeOK` |
| | `MainIsMeant`, `LaunchedAsMeant` | `LaunchesAsMeant` |

So every invariant and every action property of a passing run is proved; what a
run of TLC alone shows is liveness.

**The timer.** Assumed: durations are natural numbers, at least one session per
long break (with 0 the code divides by zero), at least one clock unit in a
second. `TypeOK` alone is not inductive: `resume` copies `paused_phase_` into
`phase_`, so that the types of the next state need the fact that a paused timer
remembers an active phase; and the ages stay natural numbers only because a
pause never began before its phase (`phaseAge >= pauseAge`). `TimerInv` is
`TypeOK` with that fact. `MethodProofs` has, per method, the record it
returns field by field (`...Shape`), and that it keeps the timer consistent
(`...Good`); the step has a case per action. `StatusHonest` follows from the
arithmetic of `\div`: `w \div Second >= d` exactly when `w >= d * Second`, and a
percentage is 100 exactly at the end. For `TimerImplementsCycle`, one lemma per
action (`...Simulated`) shows that it maps to a step of the cycle or to a
stutter, if no phase is longer than what `skip` rewinds; the count modulo the
sessions needs `(c + 1) % n = ((c % n) + 1) % n`, proved from division with
remainder.

**The cat.** Assumed: `GaitAssumption` (the cat stops short of the ball by more
than it rests, and the ball is tossed further than that), `RegionAssumption`
(the region reaches further than slack and stride together, at both speeds).
`MethodProofs` shows that `step()` never carries the cat further than its speed
and keeps its gait, that without a target it neither moves nor turns the cat
(`HoldStill` drops the target first, which is why a meal stays beside the cat), and
that it only moves one that was running in that direction before (`LooksFirst`; in
which direction the cat looks on either line is `Headings`).
In `AppInv` the region lags by `RegionSlack + TopSpeed`, which is inductive because
a push leaves at most the slack and the step afterwards adds one stride; a ball
is at least `BallStop` away before a stride, or the cat does not move; and in a
focus the bubble has no tail or says goodbye, because the tick that notices the
focus replaces what was said, and no other handler but quit speaks. Every branch
of the tick ends in a `step()` of a cat that has a target only if nothing has set
its state (`TickIsAStep`): with `LooksFirst` and the order in which animations are
looked up, that is `SeenRunning`, for every manifest.

**The chase.** Assumed: the desktop has two ends and the cat starts on it. The cat
and its target stay between the ends because an approach does not overshoot, and
the virtual cursor because it is clamped. That a sleeping cat has rested is not
inductive alone: `Rests` ties the clock of the state machine to the rest the cat
has really had, and states that no cat at rest faces anywhere. What sets the cat
off needs where the virtual cursor stands before it has been pushed: at the cat.

**The overlay.** `ChainsCounted` with `TypeOK` is inductive. An output that waits
for a callback has at most as many outstanding as it has had configure events, and
one that waits for none has fewer, so that there is always one to ask for; asking
turns the second case into the first, and a configure event is what allows for one
more. Every render needs an output that is configured, and so has had such an event
(`TypeOK`).

**The region.** A region is that of the last push, or empty if the output was not
there; the cat has gone at most slack and stride from the place of that push
(triangle inequality). An output that has just committed has in force what it was
told last (`Commits`). The rest is about cutting a rectangle: `RegionReaches` for what
must be in it, `RegionTouches` for how far from its middle it can be.

**The clicks.** Assumed: no output is called Nowhere. The invariant looks at the
events that wait through what they will make of the client: at the end of them it
is where the compositor has the mouse (`Tracks`), and at each button among them
the position it will be credited with is that where the button went down
(`Wired`), within the reach of a cat that has walked one tick since at most. An
event that is sent is appended to those that wait, and `ReplayAppend` shows that
the ones before it are handled as before.

**The loop.** A client that overtakes a tick makes `poll` report the timer next,
and the timer is read before the socket is accepted from: `TickIsNext`. The
connections need that the queue has nobody twice, and that whoever was reported by
`poll` is still queued when `accept` takes one, for only the thread takes any
(`Connections`). Assumed: no client has the name of nobody. For
`LoopImplementsServer` the line is the queue with the client that is read from in
front of it, so that `accept` changes nothing that clients could tell; a tick is
late once somebody has been answered since it was due. Each step is one of the
server or none, from the invariants above: `Handle` finds a client that has sent or
gone, and no late tick.

**Commands.** As long as no two daemons have been alive at a time, the one that
is alive has the path to itself at each system call (`Exclusive`, `PathKnown`).
A command's story is what it may still conclude at each of its stages, given
that a daemon that is over stays over. For these theorems, what `main` makes of a
line is arbitrary.

**What a line means.** `MainIsMeant` says that the scan of `parse_cli`, with its
early returns, and the overrides of `main` amount to `Meant`, which reads a line as
a whole: the positions that are read and not swallowed, whether a bad one ends the
reading, the last verb, the last value of each flag. Assumed: texts are strings.
The proof follows the scan: after every turn, what has been made is what the part
read so far means (`SaysMore` adds an argument or two to it), each turn reads at
least one argument (`TurnMoves`), so that as many turns as arguments are enough
(`EnoughTurns`). A file is read line by line, and the last line of a key decides
(`LastLineDecides`).

**Induction.** Over the arguments of a line, the lines of a file and the events that
wait, it is done on sets of numbers (`SetInduction`): that `<` is well-founded is
a theorem of the library about a set, whereas those that are stated about a
predicate cannot be instantiated by the provers here. A function that is defined
by recursion is first shown to exist (`LoopExists`, `ReplayExists`,
`ReadExists`), by induction over how far it is defined.

### Only model-checked

* Every liveness property, under fairness: `LeftAloneReachesLongBreak`,
  `CatchesStillCursor`, `EffectEnds`, `SleepsInBasket`, `ChasesOutsideFocus`,
  `LastingPhaseAnnounced`, `EveryoneIsAnswered`, `StallsOnlyOnSilence`, `NeverStalls`,
  `GetsOn`. They need fairness, and with it ENABLED, out of the prover's reach.
* The four disagreements: their runs are counterexamples.

## Not modelled

* Persona, the wording of the bar, of the bubble and of notifications, the help
  text: no property is about them, and they keep no state.
* Shapes, colours, layout and the swing of legs and tail in what is drawn; tile
  numbers and which frame of an animation is due.
* Trimming and the search for the default path in the configuration; keys that
  nothing reads.
* The text of Hyprland's answer, and the discovery of input devices and of
  Wayland globals: which there are is a choice of the initial state.
* Outputs that come and go: the program ignores both.
* The diagonal directions, a ball that is tossed off the line the cat is on, and
  the rounding of positions.
* `behavior=idle` is an action of `App` but no run has it.
* Build files, generated protocol code and the preview program under `tools`.
* The lifetime of `App` under the detached thread and the sharing of a buffer
  with the compositor, which are below what these models can show; both are
  noted as hazards.

## Plan

The timer, the pet, the tick that composes everything, the picture, the loop,
the overlay, the region, the pointer, the providers, the socket and the commands
are done. What is left:

1. `App` composed with `Pointer`, so that the click `RightClick` takes for granted
   is the one that `Pointer` derives; a run with `behavior=idle`.
2. `Compass`: two dimensions, with the diagonal sectors, against a reference definition.
3. An abstract specification of `Overlay`: "one frame in flight per chain", with the
   refinement proved.
