----------------------------- MODULE OverlayProofs -----------------------------
(***************************************************************************)
(* Proofs about Overlay, for any outputs and sizes and any number of       *)
(* configure events.                                                       *)
(***************************************************************************)
EXTENDS Overlay, FiniteSetTheorems, TLAPS

USE SizesAssumption, ConfiguresAssumption

\* What an output owes the compositor and is owed by it, after n configures.
Chained(r, cbs, n) ==
    /\ r.frameCb # NoCallback => r.frameCb \in cbs
    /\ Cardinality(cbs) <= n
    /\ r.frameCb = NoCallback /\ n > 0 => Cardinality(cbs) < n
    /\ r.configured => n > 0

Mapped(r) == r \in OutputSurface /\ r.mapped = Bytes(r.buffer)

OverlayInv == TypeOK /\ ChainsCounted

----------------------------------------------------------------------------
(* Sizes and buffers.                                                      *)

LEMMA BytesOfSizes ==
    /\ Bytes(NoBuffer) = 0 /\ \A s \in Sizes \cup {NoBuffer} : Bytes(s) \in Nat
    /\ NoBuffer \in Nat \X Nat
<1>1. NoBuffer \in Nat \X Nat /\ Bytes(NoBuffer) = 0
  BY DEF NoBuffer, Bytes
<1>2. ASSUME NEW s \in Nat \X Nat PROVE Bytes(s) \in Nat
  <2>1. s[1] \in Nat /\ s[2] \in Nat
    OBVIOUS
  <2>2. QED
    BY <2>1 DEF Bytes
<1>3. QED
  BY <1>1, <1>2

(* ensure_buffer touches the buffer only, and what it maps is the buffer.  *)
LEMMA EnsureBufferMaps ==
    ASSUME NEW r, Mapped(r)
    PROVE  /\ Mapped(EnsureBuffer(r))
           /\ EnsureBuffer(r).frameCb = r.frameCb
           /\ EnsureBuffer(r).size = r.size
           /\ EnsureBuffer(r).configured = r.configured
           /\ Drawable(r) /\ (HasBuffer(r) \/ memory) =>
                EnsureBuffer(r).mapped = Bytes(r.size)
<1>1. r \in OutputSurface /\ r.size \in Sizes \cup {NoBuffer}
      /\ Bytes(r.size) \in Nat /\ Bytes(NoBuffer) = 0
  BY BytesOfSizes DEF Mapped, OutputSurface
<1>2. CASE ~Drawable(r) \/ HasBuffer(r)
  BY <1>1, <1>2 DEF EnsureBuffer, HasBuffer, Mapped
<1>3. CASE ~(~Drawable(r) \/ HasBuffer(r)) /\ memory
  <2>1. EnsureBuffer(r) = [r EXCEPT !.mapped = Bytes(r.size), !.buffer = r.size]
    BY <1>3 DEF EnsureBuffer
  <2>2. QED
    BY <1>1, <2>1 DEF Mapped, OutputSurface
<1>4. CASE ~(~Drawable(r) \/ HasBuffer(r)) /\ ~memory
  <2>1. EnsureBuffer(r) = [r EXCEPT !.mapped = 0, !.buffer = NoBuffer]
    BY <1>4 DEF EnsureBuffer
  <2>2. Mapped(EnsureBuffer(r)) /\ EnsureBuffer(r).frameCb = r.frameCb
        /\ EnsureBuffer(r).size = r.size
        /\ EnsureBuffer(r).configured = r.configured
    <3>1. 0 \in Nat /\ NoBuffer \in Sizes \cup {NoBuffer}
      OBVIOUS
    <3>2. EnsureBuffer(r) \in OutputSurface
      BY <1>1, <2>1, <3>1 DEF OutputSurface
    <3>3. /\ EnsureBuffer(r).mapped = 0 /\ EnsureBuffer(r).buffer = NoBuffer
          /\ EnsureBuffer(r).frameCb = r.frameCb /\ EnsureBuffer(r).size = r.size
          /\ EnsureBuffer(r).configured = r.configured
      BY <1>1, <2>1 DEF OutputSurface
    <3>4. QED
      BY <1>1, <3>2, <3>3 DEF Mapped
  <2>3. QED
    BY <1>4, <2>2
<1>5. QED
  BY <1>2, <1>3, <1>4

----------------------------------------------------------------------------
(* Callbacks.                                                              *)

LEMMA CallbackIds ==
    ASSUME NEW cbs \in SUBSET CallbackId
    PROVE  IsFiniteSet(cbs) /\ Cardinality(cbs) \in Nat
<1>1. IsFiniteSet(CallbackId)
  BY FS_Interval DEF CallbackId
<1>2. QED
  BY <1>1, FS_Subset, FS_CardinalityType

(* As long as not every callback is owed, there is one to ask for.         *)
LEMMA UnusedIsNew ==
    ASSUME NEW cbs \in SUBSET CallbackId, Cardinality(cbs) <= MaxConfigures
    PROVE  Unused(cbs) \in CallbackId \ cbs
<1>1. Cardinality(CallbackId) = MaxConfigures + 1
  BY FS_Interval DEF CallbackId
<1>2. CallbackId # cbs
  BY <1>1
<1>3. \E i \in CallbackId : i \notin cbs
  BY <1>2
<1>4. QED
  BY <1>3 DEF Unused

\* What a step that renders o makes of it, when n configures have been counted.
RenderedAs(o, n, e, owed) ==
    /\ Mapped(e) /\ Chained(e, owed, n) /\ owed \in SUBSET CallbackId
    /\ out' = [out EXCEPT ![o] = e]
    /\ pending' = [pending EXCEPT ![o] = owed]
    /\ shown' \in [Outputs -> Sizes \cup {NoBuffer}]
    /\ drawn' \in [Outputs -> BOOLEAN]
    /\ \A p \in Outputs : drawn'[p] # drawn[p] => p = o /\ e.mapped = Bytes(e.size)

Rendered(o, n) == \E e, owed : RenderedAs(o, n, e, owed)

(* Rendering keeps the books of its output, whatever becomes of it.        *)
LEMMA RenderKeeps ==
    ASSUME OverlayInv, NEW o \in Outputs, NEW r, Mapped(r),
           NEW cbs \in SUBSET CallbackId, NEW n \in 0..MaxConfigures,
           r.frameCb # NoCallback => r.frameCb \in cbs,
           n > 0 => Cardinality(cbs) < n,
           n = 0 => Cardinality(cbs) = 0 /\ ~r.configured,
           Render(o, r, cbs)
    PROVE  Rendered(o, n)
<1> DEFINE f == IF r.configured THEN EnsureBuffer(r) ELSE r
           cb == Unused(cbs)
           g == [f EXCEPT !.frameCb = cb]
<1>1. Mapped(f) /\ f.frameCb = r.frameCb /\ f.size = r.size
      /\ f.configured = r.configured
  BY EnsureBufferMaps
<1>2. Renders(r) => f.mapped = Bytes(f.size)
  BY <1>1, EnsureBufferMaps DEF Renders
<1>3. cb \in CallbackId \ cbs
  BY CallbackIds, UnusedIsNew
<1>4. Cardinality(cbs) \in Nat /\ IsFiniteSet(cbs)
      /\ (r.configured => n > 0)
  BY CallbackIds
<1>5. Cardinality(cbs \cup {cb}) = Cardinality(cbs) + 1
  BY <1>3, <1>4, FS_AddElement
<1>6. cb # NoCallback
  BY <1>3 DEF CallbackId, NoCallback
<1>7. CASE Renders(r)
  <2>1. /\ out' = [out EXCEPT ![o] = g]
        /\ pending' = [pending EXCEPT ![o] = cbs \cup {cb}]
        /\ shown' = [shown EXCEPT ![o] = f.buffer]
        /\ drawn' = [drawn EXCEPT ![o] = ~drawn[o]]
    BY <1>7 DEF Render
  <2> HIDE DEF f, cb
  <2>2. Mapped(g) /\ g.frameCb = cb /\ g.mapped = f.mapped /\ g.size = f.size
        /\ g.configured = f.configured
    BY <1>1, <1>3 DEF Mapped, OutputSurface
  <2> HIDE DEF g
  <2>3. Chained(g, cbs \cup {cb}, n)
    BY <1>1, <1>4, <1>5, <1>6, <1>7, <2>2 DEF Chained, Renders
  <2>4. shown' \in [Outputs -> Sizes \cup {NoBuffer}]
    BY <1>1, <2>1 DEF OverlayInv, TypeOK, Mapped, OutputSurface
  <2>5. drawn' \in [Outputs -> BOOLEAN]
        /\ \A p \in Outputs : drawn'[p] # drawn[p] => p = o
    BY <2>1 DEF OverlayInv, TypeOK
  <2>6. cbs \cup {cb} \in SUBSET CallbackId
    BY <1>3
  <2>7. RenderedAs(o, n, g, cbs \cup {cb})
    BY <1>2, <1>7, <2>1, <2>2, <2>3, <2>4, <2>5, <2>6 DEF RenderedAs
  <2>8. QED
    BY <2>7 DEF Rendered
<1>8. CASE ~Renders(r)
  <2>1. /\ out' = [out EXCEPT ![o] = f]
        /\ pending' = [pending EXCEPT ![o] = cbs]
        /\ UNCHANGED <<shown, drawn>>
    BY <1>8 DEF Render
  <2> HIDE DEF f
  <2>2. Chained(f, cbs, n)
    BY <1>1, <1>4 DEF Chained
  <2>3. RenderedAs(o, n, f, cbs)
    BY <1>1, <2>1, <2>2 DEF RenderedAs, OverlayInv, TypeOK
  <2>4. QED
    BY <2>3 DEF Rendered
<1>9. QED
  BY <1>7, <1>8

----------------------------------------------------------------------------
(* The handlers.  Each renders one output, or none.                        *)

LEMMA InvOfOutput ==
    ASSUME OverlayInv, NEW o \in Outputs
    PROVE  /\ Mapped(out[o]) /\ Chained(out[o], pending[o], configures[o])
           /\ pending[o] \in SUBSET CallbackId
           /\ configures[o] \in 0..MaxConfigures
           /\ Cardinality(pending[o]) \in Nat /\ IsFiniteSet(pending[o])
<1>1. pending[o] \in SUBSET CallbackId
  BY DEF OverlayInv, TypeOK
<1>2. Cardinality(pending[o]) \in Nat /\ IsFiniteSet(pending[o])
  BY <1>1, CallbackIds
<1>3. QED
  BY <1>1, <1>2 DEF OverlayInv, TypeOK, ChainsCounted, Mapped, Chained

LEMMA ConfigureRenders ==
    ASSUME OverlayInv, NEW o \in Outputs, NEW s \in Sizes, LayerConfigure(o, s)
    PROVE  Rendered(o, configures[o] + 1)
<1> DEFINE r == [out[o] EXCEPT !.size = s, !.configured = TRUE]
<1>1. Mapped(r) /\ r.frameCb = out[o].frameCb
  BY InvOfOutput DEF Mapped, OutputSurface
<1>2. configures[o] + 1 \in 0..MaxConfigures
  BY InvOfOutput DEF LayerConfigure
<1>3. Render(o, r, pending[o])
  BY DEF LayerConfigure
<1> HIDE DEF r
<1>4. /\ r.frameCb # NoCallback => r.frameCb \in pending[o]
      /\ Cardinality(pending[o]) < configures[o] + 1 /\ configures[o] + 1 # 0
  BY <1>1, <1>2, InvOfOutput DEF Chained
<1>5. QED
  BY <1>1, <1>2, <1>3, <1>4, InvOfOutput, RenderKeeps

LEMMA FrameDoneRenders ==
    ASSUME OverlayInv, NEW o \in Outputs, NEW cb \in pending[o], FrameDone(o, cb)
    PROVE  Rendered(o, configures[o])
<1> DEFINE r == [out[o] EXCEPT !.frameCb = NoCallback]
           cbs == pending[o] \ {cb}
<1>1. Mapped(r) /\ r.frameCb = NoCallback
  BY InvOfOutput DEF Mapped, OutputSurface
<1>2. cbs \in SUBSET CallbackId /\ Cardinality(cbs) = Cardinality(pending[o]) - 1
  BY InvOfOutput, FS_RemoveElement
<1>3. Render(o, r, cbs)
  BY DEF FrameDone
<1> HIDE DEF r, cbs
<1>4. Cardinality(cbs) < configures[o] /\ configures[o] # 0
  BY <1>2, CallbackIds, InvOfOutput DEF Chained
<1>5. QED
  BY <1>1, <1>2, <1>3, <1>4, InvOfOutput, RenderKeeps

LEMMA RedrawRenders ==
    ASSUME OverlayInv, NEW o \in Outputs, ScheduleRedraw(o)
    PROVE  Rendered(o, configures[o])
<1>1. out[o].frameCb = NoCallback /\ Render(o, out[o], pending[o])
  BY DEF ScheduleRedraw
<1>2. /\ configures[o] > 0 => Cardinality(pending[o]) < configures[o]
      /\ configures[o] = 0 => Cardinality(pending[o]) = 0 /\ ~out[o].configured
  BY <1>1, InvOfOutput DEF Chained
<1>3. QED
  BY <1>1, <1>2, InvOfOutput, RenderKeeps

(* A step that renders one output keeps the books of all.                  *)
LEMMA RenderedKeeps ==
    ASSUME OverlayInv, NEW o \in Outputs, NEW n \in 0..MaxConfigures,
           Rendered(o, n), configures' = [configures EXCEPT ![o] = n],
           UNCHANGED memory
    PROVE  OverlayInv'
<1>1. PICK e, owed :
          /\ Mapped(e) /\ Chained(e, owed, n) /\ owed \in SUBSET CallbackId
          /\ out' = [out EXCEPT ![o] = e]
          /\ pending' = [pending EXCEPT ![o] = owed]
          /\ shown' \in [Outputs -> Sizes \cup {NoBuffer}]
          /\ drawn' \in [Outputs -> BOOLEAN]
  BY DEF Rendered, RenderedAs
<1>2. /\ out \in [Outputs -> OutputSurface] /\ pending \in [Outputs -> SUBSET CallbackId]
      /\ configures \in [Outputs -> 0..MaxConfigures] /\ memory \in BOOLEAN
  BY DEF OverlayInv, TypeOK
<1>3. /\ out' \in [Outputs -> OutputSurface] /\ pending' \in [Outputs -> SUBSET CallbackId]
      /\ configures' \in [Outputs -> 0..MaxConfigures]
  BY <1>1, <1>2 DEF Mapped
<1>4. ASSUME NEW p \in Outputs
      PROVE  Mapped(out'[p]) /\ Chained(out'[p], pending'[p], configures'[p])
  <2>1. CASE p = o
    BY <1>1, <1>2, <2>1
  <2>2. CASE p # o
    <3>1. out'[p] = out[p] /\ pending'[p] = pending[p] /\ configures'[p] = configures[p]
      BY <1>1, <1>2, <2>2
    <3>2. QED
      BY <3>1, InvOfOutput
  <2>3. QED
    BY <2>1, <2>2
<1>5. TypeOK'
  BY <1>1, <1>2, <1>3, <1>4 DEF TypeOK, Mapped, Chained
<1>6. ChainsCounted'
  BY <1>4 DEF ChainsCounted, Chained
<1>7. QED
  BY <1>5, <1>6 DEF OverlayInv

----------------------------------------------------------------------------
(* Every handler keeps the invariant and paints what it has mapped.        *)

\* One output is rendered, or none.
Paints ==
    \A p \in Outputs : drawn'[p] # drawn[p] => out'[p].mapped = Bytes(out'[p].size)

LEMMA RenderedPaints ==
    ASSUME OverlayInv, NEW o \in Outputs, NEW n, Rendered(o, n)
    PROVE  Paints
<1>1. out \in [Outputs -> OutputSurface]
  BY DEF OverlayInv, TypeOK
<1>2. QED
  BY <1>1 DEF Rendered, RenderedAs, Paints

LEMMA OverlayStep ==
    ASSUME OverlayInv, [Next]_vars
    PROVE  OverlayInv' /\ Paints
<1>1. ASSUME NEW o \in Outputs, NEW s \in Sizes, LayerConfigure(o, s)
      PROVE  OverlayInv' /\ Paints
  <2>1. /\ configures' = [configures EXCEPT ![o] = configures[o] + 1]
        /\ configures[o] < MaxConfigures /\ UNCHANGED memory
    BY <1>1 DEF LayerConfigure
  <2>2. configures[o] + 1 \in 0..MaxConfigures
    BY <2>1, InvOfOutput
  <2>3. Rendered(o, configures[o] + 1)
    BY <1>1, ConfigureRenders
  <2>4. QED
    BY <2>1, <2>2, <2>3, RenderedKeeps, RenderedPaints
<1>2. ASSUME NEW o \in Outputs, Rendered(o, configures[o]),
             UNCHANGED <<memory, configures>>
      PROVE  OverlayInv' /\ Paints
  <2>1. configures' = [configures EXCEPT ![o] = configures[o]]
        /\ configures[o] \in 0..MaxConfigures
    BY <1>2 DEF OverlayInv, TypeOK
  <2>2. QED
    BY <1>2, <2>1, RenderedKeeps, RenderedPaints
<1>3. ASSUME NEW o \in Outputs, NEW cb \in pending[o], FrameDone(o, cb)
      PROVE  OverlayInv' /\ Paints
  <2>1. Rendered(o, configures[o]) /\ UNCHANGED <<memory, configures>>
    BY <1>3, FrameDoneRenders DEF FrameDone
  <2>2. QED
    BY <1>2, <2>1
<1>4. ASSUME NEW o \in Outputs, ScheduleRedraw(o)
      PROVE  OverlayInv' /\ Paints
  <2>1. Rendered(o, configures[o]) /\ UNCHANGED <<memory, configures>>
    BY <1>4, RedrawRenders DEF ScheduleRedraw
  <2>2. QED
    BY <1>2, <2>1
<1>5. CASE MemoryChanges
  BY <1>5 DEF MemoryChanges, OverlayInv, TypeOK, ChainsCounted, Paints
<1>6. CASE UNCHANGED vars
  BY <1>6 DEF vars, OverlayInv, TypeOK, ChainsCounted, Paints
<1>7. QED
  BY <1>1, <1>3, <1>4, <1>5, <1>6 DEF Next, Configured, Repainted

LEMMA InitBooks == Init => OverlayInv
<1> SUFFICES ASSUME Init PROVE OverlayInv
  OBVIOUS
<1>1. NewOutput \in OutputSurface /\ NewOutput.mapped = Bytes(NewOutput.buffer)
      /\ NewOutput.frameCb = NoCallback /\ ~NewOutput.configured
  BY BytesOfSizes DEF NewOutput, OutputSurface
<1>2. TypeOK
  BY <1>1 DEF Init, TypeOK
<1>3. ChainsCounted
  BY <1>1, FS_EmptySet DEF Init, ChainsCounted
<1>4. QED
  BY <1>2, <1>3 DEF OverlayInv

(* Types, the frame callback that is waited for, and the number of chains. *)
THEOREM OverlayInvariant == Spec => []OverlayInv
BY InitBooks, OverlayStep, PTL DEF Spec

(* What is mapped is the buffer that is attached (ensure_buffer and every  *)
(* way it has to fail).                                                    *)
THEOREM MappedIsTheBuffer == Spec => []TypeOK
<1>1. OverlayInv => TypeOK
  BY DEF OverlayInv
<1>2. QED
  BY <1>1, OverlayInvariant, PTL

(* The compositor owes the callback an output waits for; there are never   *)
(* more chains of callbacks than configure events, and fewer while the     *)
(* output waits for none.                                                  *)
THEOREM CallbacksAreOwed == Spec => []ChainsCounted
<1>1. OverlayInv => ChainsCounted
  BY DEF OverlayInv
<1>2. QED
  BY <1>1, OverlayInvariant, PTL

(* No frame is committed from a buffer of another size in bytes.           *)
THEOREM BuffersFit == Spec => PaintsWithinBuffer
<1>1. OverlayInv /\ [Next]_vars =>
        [ \A o \in Outputs : drawn'[o] # drawn[o] =>
              out'[o].mapped = Bytes(out'[o].size) ]_vars
  BY OverlayStep DEF Paints
<1>2. QED
  BY <1>1, OverlayInvariant, PTL DEF Spec, PaintsWithinBuffer
============================================================================
