------------------------------ MODULE Overlay ------------------------------
(***************************************************************************)
(* OverlaySurface: the buffer and the frame callbacks of every output, as  *)
(* the compositor configures and repaints it and the tick asks for a       *)
(* redraw.  Each handler runs to completion in dispatch_pending or after   *)
(* on_tick; what is drawn is left out.                                     *)
(***************************************************************************)
EXTENDS Integers, FiniteSets

CONSTANTS
    Outputs,       \* the outputs connect() has built a surface for
    Sizes,         \* the sizes the compositor configures, <<width, height>>
    MaxConfigures  \* bound: configure events per output

ASSUME SizesAssumption == Sizes \subseteq (Nat \X Nat)
ASSUME ConfiguresAssumption == MaxConfigures \in Nat

VARIABLES
    out,           \* OutputSurface: what the client keeps of each output
    pending,       \* external: frame callbacks the compositor will answer
    shown,         \* external: the size of the buffer it was last given
    memory,        \* external: memfd, ftruncate and mmap succeed
    drawn,         \* history: a bit that flips with every commit
    configures     \* history: configure events so far

vars == <<out, pending, shown, memory, drawn, configures>>

NoBuffer == <<0, 0>>
NoCallback == 0
CallbackId == 1..(MaxConfigures + 1)

Bytes(s) == s[1] * s[2]

OutputSurface == [configured : BOOLEAN, size : Sizes \cup {NoBuffer},
                  mapped : Nat, buffer : Sizes \cup {NoBuffer},
                  frameCb : CallbackId \cup {NoCallback}]

NewOutput == [configured |-> FALSE, size |-> NoBuffer,
              mapped |-> 0, buffer |-> NoBuffer, frameCb |-> NoCallback]

Init ==
    /\ out = [o \in Outputs |-> NewOutput]
    /\ pending = [o \in Outputs |-> {}]
    /\ shown = [o \in Outputs |-> NoBuffer]
    /\ memory = TRUE
    /\ drawn = [o \in Outputs |-> FALSE]
    /\ configures = [o \in Outputs |-> 0]

----------------------------------------------------------------------------
(* ensure_buffer and render_output_with, from an OutputSurface to another. *)

Drawable(r) == Bytes(r.size) > 0

\* Faulty: a buffer that is there is good enough.
HasBufferAnySize(r) == r.mapped # 0

HasBuffer(r) == r.mapped # 0 /\ r.mapped = Bytes(r.size)

\* Faulty: a mapping that could not be replaced is still accounted for.
EnsureBufferStale(r) ==
    IF ~Drawable(r) \/ HasBuffer(r) THEN r
    ELSE IF memory THEN [r EXCEPT !.mapped = Bytes(r.size), !.buffer = r.size]
    ELSE [r EXCEPT !.buffer = NoBuffer]

\* A buffer of the size in bytes is kept, any other is replaced.
EnsureBuffer(r) ==
    IF ~Drawable(r) \/ HasBuffer(r) THEN r
    ELSE IF memory THEN [r EXCEPT !.mapped = Bytes(r.size), !.buffer = r.size]
    ELSE [r EXCEPT !.mapped = 0, !.buffer = NoBuffer]

Renders(r) == r.configured /\ Drawable(r) /\ (HasBuffer(r) \/ memory)

Unused(cbs) == CHOOSE i \in CallbackId : i \notin cbs

\* Faulty: the commit is not flushed, and never reaches the compositor.
RenderUnflushed(o, r, cbs) ==
    LET e == IF r.configured THEN EnsureBuffer(r) ELSE r
    IN  /\ out' = [out EXCEPT ![o] = IF Renders(r)
                       THEN [e EXCEPT !.frameCb = Unused(cbs)] ELSE e]
        /\ pending' = [pending EXCEPT ![o] = cbs]
        /\ UNCHANGED <<shown, drawn>>

\* Paint, ask for a frame callback, commit and flush; cbs are the callbacks the
\* compositor still owes.
Render(o, r, cbs) ==
    LET e == IF r.configured THEN EnsureBuffer(r) ELSE r
    IN  IF Renders(r)
        THEN /\ out' = [out EXCEPT ![o] = [e EXCEPT !.frameCb = Unused(cbs)]]
             /\ pending' = [pending EXCEPT ![o] = cbs \cup {Unused(cbs)}]
             /\ shown' = [shown EXCEPT ![o] = e.buffer]
             /\ drawn' = [drawn EXCEPT ![o] = ~@]
        ELSE /\ out' = [out EXCEPT ![o] = e]
             /\ pending' = [pending EXCEPT ![o] = cbs]
             /\ UNCHANGED <<shown, drawn>>

----------------------------------------------------------------------------
(* The handlers.                                                           *)

\* layer_configure renders whether or not a frame callback is outstanding.
LayerConfigure(o, size) ==
    /\ configures[o] < MaxConfigures
    /\ configures' = [configures EXCEPT ![o] = @ + 1]
    /\ Render(o, [out[o] EXCEPT !.size = size, !.configured = TRUE], pending[o])
    /\ UNCHANGED memory

\* frame_done forgets the callback, be it the last one asked for or not.
FrameDone(o, cb) ==
    /\ cb \in pending[o]
    /\ Render(o, [out[o] EXCEPT !.frameCb = NoCallback], pending[o] \ {cb})
    /\ UNCHANGED <<memory, configures>>

\* Faulty: the outstanding callback is not looked at.
ScheduleRedrawAlways(o) ==
    /\ Cardinality(pending[o]) <= MaxConfigures
    /\ Render(o, out[o], pending[o])
    /\ UNCHANGED <<memory, configures>>

\* The body of the loop of schedule_redraw.
ScheduleRedraw(o) ==
    /\ out[o].frameCb = NoCallback
    /\ Render(o, out[o], pending[o])
    /\ UNCHANGED <<memory, configures>>

\* Memory runs out, and comes back.
MemoryChanges ==
    /\ memory' = ~memory
    /\ UNCHANGED <<out, pending, shown, drawn, configures>>

Configured == \E o \in Outputs, s \in Sizes : LayerConfigure(o, s)
Repainted(o) == \E cb \in pending[o] : FrameDone(o, cb)

Next == \/ Configured \/ MemoryChanges
        \/ \E o \in Outputs : Repainted(o) \/ ScheduleRedraw(o)

Spec == Init /\ [][Next]_vars

\* The timerfd fires, and the compositor repaints the outputs that changed.
FairSpec == Spec /\ \A o \in Outputs : WF_vars(Repainted(o))
                                    /\ WF_vars(ScheduleRedraw(o))

----------------------------------------------------------------------------
(* Properties.                                                             *)

\* Types, and that a mapping is that of the buffer made from it.
TypeOK ==
    /\ out \in [Outputs -> OutputSurface]
    /\ \A o \in Outputs : out[o].mapped = Bytes(out[o].buffer)
    /\ pending \in [Outputs -> SUBSET CallbackId]
    /\ shown \in [Outputs -> Sizes \cup {NoBuffer}]
    /\ memory \in BOOLEAN
    /\ drawn \in [Outputs -> BOOLEAN]
    /\ configures \in [Outputs -> 0..MaxConfigures]
    /\ \A o \in Outputs : out[o].configured => configures[o] > 0

(* schedule_redraw() leaves an output alone that waits for a frame         *)
(* callback, so that the callback had better come: the compositor owes it, *)
(* even after a reconfiguration has overwritten an older one.  And each    *)
(* configure event adds at most one chain of callbacks, each of which      *)
(* repaints the output forever; nothing else adds one, however ticks,      *)
(* failed allocations and late callbacks follow each other.  In particular *)
(* an output that waits for none has lost a chain, which the next redraw   *)
(* may start again.                                                        *)
ChainsCounted ==
    \A o \in Outputs :
        /\ out[o].frameCb # NoCallback => out[o].frameCb \in pending[o]
        /\ Cardinality(pending[o]) <= configures[o]
        /\ out[o].frameCb = NoCallback /\ configures[o] > 0 =>
               Cardinality(pending[o]) < configures[o]

(* What is painted fits what is mapped: a frame is never committed from a  *)
(* buffer that is smaller or larger than the output has just become.       *)
PaintsWithinBuffer ==
    [][ \A o \in Outputs : drawn'[o] # drawn[o] =>
            out'[o].mapped = Bytes(out'[o].size) ]_vars

CanBeDrawn(o) == memory /\ Drawable(out[o])

(* "A total stall": it does not happen.  An output that can be drawn keeps *)
(* being drawn, if memory does not stay short.                             *)
NeverStalls ==
    \A o \in Outputs :
        <>[]CanBeDrawn(o) => ([]<>(drawn[o]) /\ []<>(~drawn[o]))

(* OverlaySurface: the callback paints "onto a Cairo context covering each *)
(* output": the buffer on screen has the size of the output.               *)
CoversOutput ==
    [][ \A o \in Outputs : drawn'[o] # drawn[o] => shown'[o] = out'[o].size ]_vars
============================================================================
