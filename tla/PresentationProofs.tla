-------------------------- MODULE PresentationProofs --------------------------
(***************************************************************************)
(* Proofs about Presentation, for any number of outputs, slots, captures   *)
(* and interruptions: its types, the exactness of the buffer references    *)
(* and the safety of scanout.                                              *)
(***************************************************************************)
EXTENDS Presentation, FiniteSetTheorems, TLAPS

-----------------------------------------------------------------------------
(* The inductive invariant. *)

\* A slot has at most one claim of the scheduler.
ClaimsDisjoint ==
    \A o \in Outputs :
        /\ inFlight[o] # NoSlot => inFlight[o] # scanning[o] /\ inFlight[o] # ready[o]
        /\ ready[o] # scanning[o]
        /\ \A i \in Slots : fenceState[o][i] = "discard" =>
                i # scanning[o] /\ i # inFlight[o] /\ i # ready[o]

\* A slot in production has no reference.
ProductionUnreferenced ==
    \A o \in Outputs, i \in Slots : bufferState[o][i] # "Free" => outputRefs[o][i] = 0

\* A render fence guards exactly the ready slot and the discarded slots.
FencesGuard ==
    \A o \in Outputs, i \in Slots :
        /\ fenceState[o][i] \in {"pending", "signaled"} <=> ready[o] = i
        /\ fenceState[o][i] = "none" => fenceToken[o][i] = NoToken

\* Unfinished GPU work is behind a fence that has not signaled, or belongs to
\* a slot in production, other than one the raster thread abandoned.
GpuWorkGuarded ==
    \A o \in Outputs, i \in Slots : gpuBusy[o][i] =>
        \/ bufferState[o][i] \in {"Ready", "Pending"}
        \/ bufferState[o][i] = "Rendering" /\ drawing[o] = i
        \/ bufferState[o][i] = "Free" /\ fenceState[o][i] \in {"pending", "discard"}

\* A signal that carries the token of a fence is about finished work.
SignalsTrue ==
    \A s \in fenceSignals :
        fenceToken[s.output][s.slot] = s.token => ~gpuBusy[s.output][s.slot]

\* The raster thread draws into Rendering slots, inside a transaction.
DrawingInTransaction ==
    \A o \in Outputs : drawing[o] # NoSlot =>
        rasterizing /\ bufferState[o][drawing[o]] = "Rendering"

\* Page flips of output o that are in the DRM fd or in the main loop's queue.
Flips(o) == completed[o] + flipEvents[o]

\* A frame in flight is in one place: a job of Volition, the pending flip of
\* its CRTC, or on screen with one flip to be retired.
FlightsTracked ==
    /\ \A o \in Outputs :
        /\ front[o] # NoSlot => front[o] \in {scanning[o], inFlight[o]}
        /\ flip[o] # NoSlot => flip[o] = inFlight[o] /\ Flips(o) = 0
        /\ Flips(o) > 0 /\ ~rebased =>
            Flips(o) = 1 /\ inFlight[o] # NoSlot /\ front[o] = inFlight[o]
        /\ o \notin powered => inFlight[o] = NoSlot /\ ready[o] = NoSlot
    /\ \A j \in jobs : ~j.accepted =>
        /\ j.slot = inFlight[j.output]
        /\ flip[j.output] = NoSlot
        /\ Flips(j.output) = 0
    /\ \A j, k \in jobs :
        ~j.accepted /\ ~k.accepted /\ j.output = k.output => j = k

\* Between a recovery and the rebuild, KMS and Volition are idle.
RecoveryQuiesces ==
    /\ rebased => /\ jobs = {}
                  /\ \A o \in Outputs : front[o] = NoSlot /\ flip[o] = NoSlot
                  /\ phase \in {"fences", "volition", "rebuild", "exited", "terminated"}
    /\ phase = "rebuild" => rebased

BufferInv == RefsExact /\ ClaimsDisjoint /\ ProductionUnreferenced /\ FencesGuard

GpuInv == GpuWorkGuarded /\ SignalsTrue /\ DrawingInTransaction

KmsInv == FlightsTracked /\ RecoveryQuiesces

IInv == TypeOK /\ BufferInv /\ GpuInv /\ KmsInv

-----------------------------------------------------------------------------
(* What a step leaves alone. *)

USE DEF brokerVars, volitionVars, fenceVars, frameVars, powerVars, schedulerVars,
        loopVars, rasterVars, kmsVars

\* A step that changes no slot, claim or fence keeps the buffer invariant.
LEMMA BufferFrame ==
    ASSUME BufferInv,
           UNCHANGED <<bufferState, outputRefs, leases, scanning, inFlight, ready,
                       fenceState, fenceToken>>
    PROVE  BufferInv'
BY DEF BufferInv, RefsExact, Held, ClaimsDisjoint, ProductionUnreferenced, FencesGuard

\* A step that changes no slot, fence, signal or GPU work keeps the GPU invariant.
LEMMA GpuFrame ==
    ASSUME GpuInv,
           UNCHANGED <<bufferState, fenceState, fenceToken, fenceSignals, gpuBusy,
                       drawing, rasterizing>>
    PROVE  GpuInv'
BY DEF GpuInv, GpuWorkGuarded, SignalsTrue, DrawingInTransaction

\* A step that changes no frame, job or flip keeps the flights tracked.
LEMMA FlightsFrame ==
    ASSUME FlightsTracked,
           UNCHANGED <<powered, scanning, inFlight, ready, jobs, front, flip,
                       completed, flipEvents, rebased>>
    PROVE  FlightsTracked'
BY DEF FlightsTracked, Flips

\* A step that changes no frame, job, flip or phase keeps the KMS invariant.
LEMMA KmsFrame ==
    ASSUME KmsInv,
           UNCHANGED <<powered, scanning, inFlight, ready, jobs, front, flip,
                       completed, flipEvents, rebased, phase>>
    PROVE  KmsInv'
BY FlightsFrame DEF KmsInv, RecoveryQuiesces

\* Outside a recovery the main loop may move to any phase but "rebuild".
LEMMA KmsPhase ==
    ASSUME KmsInv,
           UNCHANGED <<powered, scanning, inFlight, ready, jobs, front, flip,
                       completed, flipEvents, rebased>>,
           rebased => phase' \in {"fences", "volition", "rebuild", "exited", "terminated"},
           phase' = "rebuild" => rebased
    PROVE  KmsInv'
BY FlightsFrame DEF KmsInv, RecoveryQuiesces

-----------------------------------------------------------------------------
(* Types of the operators. *)

\* An interruption stays within the bound.
LEMMA InterruptType ==
    ASSUME TypeOK, NEW kind, Interrupt(kind)
    PROVE  interruptions' \in 0 .. MaxInterruptions
BY PresentationAssumption DEF TypeOK, Interrupt

\* The position of a pipeline is a natural number.
LEMMA PositionType ==
    ASSUME NEW o \in Outputs, NEW ps \in SUBSET Outputs
    PROVE  Position(o, ps) \in Nat
<1>1. IsFiniteSet(Outputs)
  BY PresentationAssumption
<1>2. IsFiniteSet({p \in ps : p < o})
  BY <1>1, FS_Subset
<1> QED
  BY <1>2, FS_CardinalityType DEF Position

\* The number of pipelines in a set of outputs is a natural number.
LEMMA CardinalityType ==
    ASSUME NEW ps \in SUBSET Outputs
    PROVE  Cardinality(ps) \in Nat
BY PresentationAssumption, FS_Subset, FS_CardinalityType

\* The number of flips to be retired is a natural number.
LEMMA FlipsType == IInv => \A o \in Outputs : Flips(o) \in Nat
BY DEF IInv, TypeOK, Flips

\* A slot without references carries no render fence.
LEMMA SlotUnfenced ==
    ASSUME IInv, NEW o \in Outputs, NEW i \in Slots, outputRefs[o][i] = 0
    PROVE  fenceState[o][i] = "none" /\ fenceToken[o][i] = NoToken
<1>1. leases[o][i] \in Nat /\ fenceState[o][i] \in FenceStates
  BY DEF IInv, TypeOK, SchedulerTypeOK
<1>2. ~Held(o, i)
  BY <1>1 DEF IInv, BufferInv, RefsExact
<1> QED
  BY <1>1, <1>2 DEF IInv, BufferInv, FencesGuard, Held, FenceStates

-----------------------------------------------------------------------------
(* The raster thread and the GPU. *)

\* begin_transaction frees only slots without references, that nobody draws into.
LEMMA StartRasterIInv == IInv /\ StartRaster => IInv'
<1> SUFFICES ASSUME IInv, StartRaster PROVE IInv'
  OBVIOUS
<1>1. TypeOK'
  BY DEF IInv, StartRaster, BeginTransaction, TypeOK, BrokerTypeOK, VolitionTypeOK,
         SchedulerTypeOK, BufferStates
<1>2. BufferInv'
  BY DEF IInv, StartRaster, BeginTransaction, TypeOK, BrokerTypeOK, BufferInv, RefsExact,
         Held, ClaimsDisjoint, ProductionUnreferenced, FencesGuard
<1>3. GpuInv'
  BY DEF IInv, StartRaster, BeginTransaction, TypeOK, BrokerTypeOK, GpuInv,
         GpuWorkGuarded, SignalsTrue, DrawingInTransaction, OptionalSlots, NoSlot, Slots
<1>4. KmsInv'
  BY KmsFrame DEF IInv, StartRaster
<1> QED
  BY <1>1, <1>2, <1>3, <1>4 DEF IInv

\* The slot that acquire takes is unreferenced, so no fence guards it.
LEMMA AcquireViewIInv == \A o \in Outputs : IInv /\ AcquireView(o) => IInv'
<1> SUFFICES ASSUME NEW o \in Outputs, IInv, AcquireView(o) PROVE IInv'
  OBVIOUS
<1>0. PICK i \in Slots :
        /\ Acquire(o, i)
        /\ drawing' = [drawing EXCEPT ![o] = i]
        /\ gpuBusy' = [gpuBusy EXCEPT ![o][i] = TRUE]
  BY DEF AcquireView
<1>1. TypeOK'
  BY <1>0 DEF IInv, AcquireView, Acquire, AcquireBlocked, TypeOK, BrokerTypeOK, VolitionTypeOK,
         SchedulerTypeOK, BufferStates, OptionalSlots
<1>2. BufferInv'
  BY <1>0 DEF IInv, AcquireView, Acquire, Claimable, TypeOK, BrokerTypeOK, BufferInv, RefsExact,
         Held, ClaimsDisjoint, ProductionUnreferenced, FencesGuard
<1>3. GpuInv'
  <2>1. fenceToken[o][i] = NoToken
    BY <1>0, SlotUnfenced DEF IInv, Acquire, Claimable
  <2>2. GpuWorkGuarded'
    <3> SUFFICES ASSUME NEW p \in Outputs, NEW k \in Slots, gpuBusy'[p][k]
                 PROVE  \/ bufferState'[p][k] \in {"Ready", "Pending"}
                        \/ bufferState'[p][k] = "Rendering" /\ drawing'[p] = k
                        \/ /\ bufferState'[p][k] = "Free"
                           /\ fenceState'[p][k] \in {"pending", "discard"}
      BY DEF GpuWorkGuarded
    <3>1. CASE p = o /\ k = i
      BY <1>0, <3>1 DEF IInv, Acquire, TypeOK, BrokerTypeOK
    <3>2. CASE ~(p = o /\ k = i)
      <4>1. /\ gpuBusy[p][k] /\ drawing[p] # k
            /\ bufferState'[p][k] = bufferState[p][k]
            /\ fenceState'[p][k] = fenceState[p][k]
        <5>1. gpuBusy[p][k]
          BY <1>0, <3>2 DEF IInv, TypeOK
        <5>2. drawing[p] # k
          BY SlotCountAssumption DEF AcquireView, Slots, NoSlot
        <5>3. bufferState'[p][k] = bufferState[p][k]
          BY <1>0, <3>2 DEF IInv, Acquire, TypeOK, BrokerTypeOK
        <5>4. fenceState'[p][k] = fenceState[p][k]
          BY DEF AcquireView
        <5> QED
          BY <5>1, <5>2, <5>3, <5>4
      <4> QED
        BY <4>1 DEF IInv, GpuInv, GpuWorkGuarded
    <3> QED
      BY <3>1, <3>2
  <2>3. SignalsTrue'
    BY <1>0, <2>1, TokensAssumption
    DEF IInv, AcquireView, TypeOK, SchedulerTypeOK, Signals, NoToken, GpuInv, SignalsTrue
  <2>4. DrawingInTransaction'
    <3> SUFFICES ASSUME NEW p \in Outputs, drawing'[p] # NoSlot
                 PROVE  rasterizing' /\ bufferState'[p][drawing'[p]] = "Rendering"
      BY DEF DrawingInTransaction
    <3>1. p = o /\ drawing'[p] = i
      BY <1>0 DEF IInv, TypeOK, AcquireView
    <3> QED
      BY <1>0, <3>1 DEF IInv, AcquireView, Acquire, TypeOK, BrokerTypeOK
  <2> QED
    BY <2>2, <2>3, <2>4 DEF GpuInv
<1>4. KmsInv'
  BY KmsFrame DEF IInv, AcquireView, Acquire
<1> QED
  BY <1>1, <1>2, <1>3, <1>4 DEF IInv

\* A view without a target changes nothing but the transaction.
LEMMA SkipViewIInv == \A o \in Outputs : IInv /\ SkipView(o) => IInv'
<1> SUFFICES ASSUME NEW o \in Outputs, IInv, SkipView(o) PROVE IInv'
  OBVIOUS
<1>1. TypeOK'
  BY DEF IInv, SkipView, TypeOK, BrokerTypeOK, VolitionTypeOK, SchedulerTypeOK
<1> QED
  BY <1>1, BufferFrame, GpuFrame, KmsFrame DEF IInv, SkipView

\* The presented slot was drawn into, so it was Rendering and unreferenced.
LEMMA PresentViewIInv == \A o \in Outputs : IInv /\ PresentView(o) => IInv'
<1> SUFFICES ASSUME NEW o \in Outputs, IInv, PresentView(o) PROVE IInv'
  OBVIOUS
<1>0. drawing[o] \in Slots
  BY DEF IInv, TypeOK, PresentView, OptionalSlots
<1>1. TypeOK'
  BY DEF IInv, PresentView, MarkReady, TypeOK, BrokerTypeOK, VolitionTypeOK, SchedulerTypeOK,
         BufferStates, OptionalSlots
<1>2. BufferInv'
  BY <1>0 DEF IInv, PresentView, MarkReady, TypeOK, BrokerTypeOK, BufferInv, RefsExact,
              Held, ClaimsDisjoint, ProductionUnreferenced, FencesGuard
<1>3. GpuInv'
  BY <1>0 DEF IInv, PresentView, MarkReady, TypeOK, BrokerTypeOK, GpuInv,
              GpuWorkGuarded, SignalsTrue, DrawingInTransaction
<1>4. KmsInv'
  BY KmsFrame DEF IInv, PresentView, MarkReady
<1> QED
  BY <1>1, <1>2, <1>3, <1>4 DEF IInv

\* An abandoned slot stays Rendering, but its GPU work is finished.
LEMMA AbandonViewIInv == \A o \in Outputs : IInv /\ AbandonView(o) => IInv'
<1> SUFFICES ASSUME NEW o \in Outputs, IInv, AbandonView(o) PROVE IInv'
  OBVIOUS
<1>0. drawing[o] \in Slots
  BY DEF IInv, TypeOK, AbandonView, OptionalSlots
<1>1. TypeOK'
  BY PresentationAssumption
  DEF IInv, AbandonView, Interrupt, TypeOK, BrokerTypeOK, VolitionTypeOK, SchedulerTypeOK,
      OptionalSlots
<1>2. GpuInv'
  BY <1>0 DEF IInv, AbandonView, TypeOK, BrokerTypeOK, GpuInv,
              GpuWorkGuarded, SignalsTrue, DrawingInTransaction
<1> QED
  BY <1>1, <1>2, BufferFrame, KmsFrame DEF IInv, AbandonView

\* Sealing a transaction keeps its slots in production.
LEMMA FinishRasterIInv == IInv /\ FinishRaster => IInv'
<1> SUFFICES ASSUME IInv, FinishRaster PROVE IInv'
  OBVIOUS
<1>1. TypeOK'
  BY DEF IInv, FinishRaster, FinishTransaction, TypeOK, BrokerTypeOK, VolitionTypeOK,
         SchedulerTypeOK, BufferStates
<1>2. BufferInv'
  BY DEF IInv, FinishRaster, FinishTransaction, TypeOK, BrokerTypeOK, BufferInv, RefsExact,
         Held, ClaimsDisjoint, ProductionUnreferenced, FencesGuard
<1>3. GpuInv'
  BY DEF IInv, FinishRaster, FinishTransaction, TypeOK, BrokerTypeOK, GpuInv,
         GpuWorkGuarded, SignalsTrue, DrawingInTransaction
<1>4. KmsInv'
  BY KmsFrame DEF IInv, FinishRaster, FinishTransaction
<1> QED
  BY <1>1, <1>2, <1>3, <1>4 DEF IInv

\* Less GPU work needs no more guards.
LEMMA GpuCompleteIInv ==
    \A o \in Outputs, i \in Slots : IInv /\ GpuComplete(o, i) => IInv'
<1> SUFFICES ASSUME NEW o \in Outputs, NEW i \in Slots, IInv, GpuComplete(o, i) PROVE IInv'
  OBVIOUS
<1>1. TypeOK'
  BY DEF IInv, GpuComplete, TypeOK, BrokerTypeOK, VolitionTypeOK, SchedulerTypeOK
<1>2. GpuInv'
  BY DEF IInv, GpuComplete, TypeOK, GpuInv, GpuWorkGuarded, SignalsTrue,
         DrawingInTransaction
<1> QED
  BY <1>1, <1>2, BufferFrame, KmsFrame DEF IInv, GpuComplete

-----------------------------------------------------------------------------
(* The Volition worker and KMS. *)

\* An accepted commit moves a flight from the job to the pending flip.
LEMMA KmsAcceptIInv == \A j \in jobs : IInv /\ KmsAccept(j) => IInv'
<1> SUFFICES ASSUME NEW j \in jobs, IInv, KmsAccept(j) PROVE IInv'
  OBVIOUS
<1>0. j \in Jobs
  BY DEF IInv, TypeOK, VolitionTypeOK
<1>1. TypeOK'
  BY <1>0 DEF IInv, KmsAccept, AcceptJob, TypeOK, BrokerTypeOK, VolitionTypeOK,
              SchedulerTypeOK, Jobs, OptionalSlots
<1>2. FlightsTracked'
  BY <1>0 DEF IInv, KmsAccept, AcceptJob, TypeOK, VolitionTypeOK, SchedulerTypeOK, Jobs,
              KmsInv, FlightsTracked, Flips
<1>3. RecoveryQuiesces'
  BY DEF IInv, KmsAccept, AcceptJob, KmsInv, RecoveryQuiesces
<1> QED
  BY <1>1, <1>2, <1>3, BufferFrame, GpuFrame DEF IInv, KmsInv, KmsAccept, AcceptJob

\* Reporting an accepted commit moves no flight.
LEMMA KmsReportIInv == \A j \in jobs : IInv /\ KmsReport(j) => IInv'
<1> SUFFICES ASSUME NEW j \in jobs, IInv, KmsReport(j) PROVE IInv'
  OBVIOUS
<1>0. j \in Jobs
  BY DEF IInv, TypeOK, VolitionTypeOK
<1>1. TypeOK'
  BY <1>0 DEF IInv, KmsReport, ReportSubmitted, EventOf, TypeOK, BrokerTypeOK, VolitionTypeOK,
              SchedulerTypeOK, Jobs, Events
<1>2. KmsInv'
  BY DEF IInv, KmsReport, ReportSubmitted, KmsInv, FlightsTracked, Flips, RecoveryQuiesces
<1> QED
  BY <1>1, <1>2, BufferFrame, GpuFrame DEF IInv, KmsReport, ReportSubmitted

\* A refused commit leaves its frame in flight, but in no queue.
LEMMA KmsRefuseIInv == \A j \in jobs : IInv /\ KmsRefuse(j) => IInv'
<1> SUFFICES ASSUME NEW j \in jobs, IInv, KmsRefuse(j) PROVE IInv'
  OBVIOUS
<1>0. j \in Jobs
  BY DEF IInv, TypeOK, VolitionTypeOK
<1>1. TypeOK'
  BY <1>0, PresentationAssumption
  DEF IInv, KmsRefuse, RefuseJob, Interrupt, EventOf, TypeOK, BrokerTypeOK, VolitionTypeOK,
      SchedulerTypeOK, Jobs, Events
<1>2. KmsInv'
  BY DEF IInv, KmsRefuse, RefuseJob, KmsInv, FlightsTracked, Flips, RecoveryQuiesces
<1> QED
  BY <1>1, <1>2, BufferFrame, GpuFrame DEF IInv, KmsRefuse, RefuseJob

\* A flip puts the frame in flight on screen, with one event to retire it.
LEMMA VblankIInv == \A o \in Outputs : IInv /\ Vblank(o) => IInv'
<1> SUFFICES ASSUME NEW o \in Outputs, IInv, Vblank(o) PROVE IInv'
  OBVIOUS
<1>1. TypeOK'
  BY DEF IInv, Vblank, TypeOK, BrokerTypeOK, VolitionTypeOK, SchedulerTypeOK, OptionalSlots
<1>0. ~rebased /\ flip[o] = inFlight[o] /\ Flips(o) = 0
  BY DEF IInv, Vblank, KmsInv, RecoveryQuiesces, FlightsTracked
<1>2. FlightsTracked'
  <2>1. \A p \in Outputs \ {o} :
            /\ front'[p] = front[p] /\ flip'[p] = flip[p]
            /\ Flips(p)' = Flips(p)
    BY DEF IInv, Vblank, TypeOK, Flips
  <2>2. front'[o] = inFlight[o] /\ flip'[o] = NoSlot /\ Flips(o)' = 1
    BY <1>0 DEF IInv, Vblank, TypeOK, Flips
  <2>3. \A j \in jobs : j.output = o => j.accepted
    BY DEF IInv, Vblank, KmsInv, FlightsTracked
  <2>4. \A j \in jobs : j.output \in Outputs
    BY DEF IInv, TypeOK, VolitionTypeOK, Jobs
  <2>5. /\ inFlight[o] # NoSlot
        /\ UNCHANGED <<powered, scanning, inFlight, ready, jobs, rebased>>
    BY <1>0 DEF Vblank
  <2> QED
    BY <2>1, <2>2, <2>3, <2>4, <2>5 DEF IInv, KmsInv, FlightsTracked
<1>3. RecoveryQuiesces'
  BY DEF IInv, Vblank, TypeOK, KmsInv, RecoveryQuiesces
<1> QED
  BY <1>1, <1>2, <1>3, BufferFrame, GpuFrame DEF IInv, KmsInv, Vblank

\* A withheld flip changes no flight.
LEMMA WithholdFlipIInv == \A o \in Outputs : IInv /\ WithholdFlip(o) => IInv'
<1> SUFFICES ASSUME NEW o \in Outputs, IInv, WithholdFlip(o) PROVE IInv'
  OBVIOUS
<1>1. TypeOK'
  <2>1. withheld' \subseteq Outputs
    BY DEF IInv, WithholdFlip, TypeOK
  <2>2. interruptions' \in 0 .. MaxInterruptions
    BY PresentationAssumption DEF IInv, WithholdFlip, Interrupt, TypeOK
  <2> QED
    BY <2>1, <2>2 DEF IInv, WithholdFlip, TypeOK, BrokerTypeOK, VolitionTypeOK, SchedulerTypeOK
<1> QED
  BY <1>1, BufferFrame, GpuFrame, KmsFrame DEF IInv, WithholdFlip

-----------------------------------------------------------------------------
(* The main loop: acknowledgements. *)

\* An error return changes nothing but the phase.
LEMMA ExitIInv == IInv /\ (Exit \/ Terminate) => IInv'
<1> SUFFICES ASSUME IInv, Exit \/ Terminate PROVE IInv'
  OBVIOUS
<1>1. TypeOK'
  BY DEF IInv, Exit, Terminate, GoTo, Phases, TypeOK, BrokerTypeOK, VolitionTypeOK, SchedulerTypeOK
<1>2. KmsInv'
  BY KmsPhase DEF IInv, Exit, Terminate, GoTo
<1> QED
  BY <1>1, <1>2, BufferFrame, GpuFrame DEF IInv, Exit, Terminate, GoTo

\* A watch that carries the token of its fence signals finished work only.
LEMMA DispatchIInv == IInv /\ Dispatch => IInv'
<1> SUFFICES ASSUME IInv, Dispatch PROVE IInv'
  OBVIOUS
<1>0. PICK late \in SUBSET {w \in watches : fenceToken[w.output][w.slot] # w.token} :
        LET fired == late \union
                {w \in watches : /\ fenceToken[w.output][w.slot] = w.token
                                 /\ ~gpuBusy[w.output][w.slot]}
        IN /\ fenceSignals' = fenceSignals \union fired
           /\ watches' = watches \ fired
  BY DEF Dispatch
<1>1. TypeOK'
  <2>1. watches' \subseteq Signals /\ fenceSignals' \subseteq Signals
    BY <1>0 DEF IInv, TypeOK, SchedulerTypeOK
  <2>2. completed' \in [Outputs -> Nat] /\ flipEvents' \in [Outputs -> Nat] /\ phase' \in Phases
    BY DEF IInv, TypeOK, Dispatch, Phases
  <2> QED
    BY <2>1, <2>2 DEF IInv, Dispatch, TypeOK, BrokerTypeOK, VolitionTypeOK, SchedulerTypeOK
<1>2. GpuInv'
  <2>1. \A s \in fenceSignals' : s \in fenceSignals
            \/ fenceToken[s.output][s.slot] # s.token
            \/ ~gpuBusy[s.output][s.slot]
    BY <1>0
  <2>2. UNCHANGED <<bufferState, fenceState, fenceToken, gpuBusy, drawing, rasterizing>>
    BY DEF Dispatch
  <2> QED
    BY <2>1, <2>2 DEF IInv, GpuInv, GpuWorkGuarded, SignalsTrue, DrawingInTransaction
<1>3. KmsInv'
  <2>1. \A o \in Outputs : Flips(o)' = Flips(o)
    BY DEF IInv, TypeOK, Dispatch, Flips
  <2>2. \A j \in jobs : j.output \in Outputs
    BY DEF IInv, TypeOK, VolitionTypeOK, Jobs
  <2>3. ~rebased /\ phase' = "fences"
    BY DEF IInv, KmsInv, RecoveryQuiesces, Dispatch
  <2>4. UNCHANGED <<powered, scanning, inFlight, ready, jobs, front, flip, rebased>>
    BY DEF Dispatch
  <2> QED
    BY <2>1, <2>2, <2>3, <2>4 DEF IInv, KmsInv, FlightsTracked, RecoveryQuiesces
<1> QED
  BY <1>1, <1>2, <1>3, BufferFrame DEF IInv, Dispatch

\* An acknowledgement changes how a flight is recorded, not the flight.
LEMMA AckVolitionIInv == \A e \in delivered : IInv /\ AckVolition(e) => IInv'
<1> SUFFICES ASSUME NEW e \in delivered, IInv, AckVolition(e) PROVE IInv'
  OBVIOUS
<1>1. CASE Exit \/ Terminate
  BY <1>1, ExitIInv
<1>2. CASE /\ AcknowledgeVolition(e)
           /\ delivered' = delivered \ {e}
           /\ UNCHANGED <<phase, rebased, recoveryRequested, completed, powerRequests,
                          rasterVars, kmsVars, leases, gpuBusy, interruptions>>
  <2>1. scheduled' \in [Outputs -> CommitIds \union {NoCommit}] /\ delivered' \subseteq Events
    BY <1>2 DEF AcknowledgeVolition, IInv, TypeOK, SchedulerTypeOK
  <2>2. TypeOK'
    BY <1>2, <2>1 DEF AcknowledgeVolition, IInv, TypeOK, BrokerTypeOK, VolitionTypeOK,
                      SchedulerTypeOK
  <2> QED
    BY <1>2, <2>2, BufferFrame, GpuFrame, KmsFrame DEF IInv, AcknowledgeVolition
<1> QED
  BY <1>1, <1>2 DEF AckVolition

\* The three ways into a recovery.
LEMMA RecoverIInv ==
    ASSUME IInv, NEW unread \in SUBSET delivered, Recover(unread),
           interruptions' \in 0 .. MaxInterruptions
    PROVE  IInv'
<1>1. volitionEvents' \subseteq Events /\ delivered' \subseteq Events
  <2>1. EventsAtShutdown \subseteq Events
    BY DEF IInv, TypeOK, VolitionTypeOK, EventsAtShutdown, EventOf, Events, Jobs
  <2> QED
    BY <2>1 DEF IInv, TypeOK, Recover, ShutdownVolition
<1>2. TypeOK'
  BY <1>1 DEF IInv, Recover, ShutdownVolition, TypeOK, BrokerTypeOK, VolitionTypeOK,
              SchedulerTypeOK, Phases, OptionalSlots
<1>3. KmsInv'
  BY DEF IInv, Recover, ShutdownVolition, KmsInv, FlightsTracked, RecoveryQuiesces
<1> QED
  BY <1>2, <1>3, BufferFrame, GpuFrame DEF IInv, Recover, ShutdownVolition

\* The three recoveries preserve the invariant.
LEMMA RecoveriesIInv ==
    IInv /\ (RecoverRequested \/ RecoverStall \/ RecoverWatchdog) => IInv'
<1> SUFFICES ASSUME IInv, RecoverRequested \/ RecoverStall \/ RecoverWatchdog PROVE IInv'
  OBVIOUS
<1>1. interruptions' \in 0 .. MaxInterruptions
  BY InterruptType DEF IInv, TypeOK, RecoverRequested, RecoverStall, RecoverWatchdog
<1> QED
  BY <1>1, RecoverIInv DEF RecoverRequested, RecoverStall, RecoverWatchdog

\* The rebuilt pools, pipelines and scanouts start over as Init does.
LEMMA RebuildIInv == IInv /\ Rebuild => IInv'
<1> SUFFICES ASSUME IInv, Rebuild PROVE IInv'
  OBVIOUS
<1>0. rebased /\ 0 \in Slots
  BY SlotCountAssumption DEF IInv, KmsInv, RecoveryQuiesces, Rebuild, Slots
<1>1. TypeOK'
  <2>1. stream' \in [Outputs -> Int]
    BY PositionType DEF IInv, TypeOK, SchedulerTypeOK, Rebuild
  <2>2. BrokerTypeOK'
    BY DEF Rebuild, BrokerTypeOK, BufferStates, Serials
  <2>3. VolitionTypeOK'
    BY DEF IInv, TypeOK, Rebuild, VolitionTypeOK
  <2>4. SchedulerTypeOK'
    BY <1>0, <2>1 DEF IInv, TypeOK, Rebuild, SchedulerTypeOK, OptionalSlots, WakeStates, FenceStates
  <2> QED
    BY <1>0, <2>2, <2>3, <2>4 DEF IInv, Rebuild, TypeOK, Phases, OptionalSlots
<1>2. BufferInv'
  BY <1>0 DEF IInv, Rebuild, BufferInv, RefsExact, Held, ClaimsDisjoint,
              ProductionUnreferenced, FencesGuard, Slots, NoSlot
<1>3. GpuInv'
  <2>1. SignalsTrue'
    BY DEF IInv, TypeOK, SchedulerTypeOK, Signals, Rebuild, SignalsTrue
  <2> QED
    BY <2>1 DEF Rebuild, GpuInv, GpuWorkGuarded, DrawingInTransaction
<1>4. KmsInv'
  BY <1>0 DEF IInv, Rebuild, KmsInv, FlightsTracked, Flips, RecoveryQuiesces
<1> QED
  BY <1>1, <1>2, <1>3, <1>4 DEF IInv

\* A signal that matches a fence whose user is gone releases the slot; one
\* that matches the fence of a ready frame lets the frame be submitted.
LEMMA AckFenceIInv == \A s \in fenceSignals : IInv /\ AckFence(s) => IInv'
<1> SUFFICES ASSUME NEW s \in fenceSignals, IInv, AckFence(s) PROVE IInv'
  OBVIOUS
<1>0. s.output \in Outputs /\ s.slot \in Slots
  BY DEF IInv, TypeOK, SchedulerTypeOK, Signals
<1> DEFINE o == s.output
           i == s.slot
<1>1. CASE Exit
  BY <1>1, ExitIInv
<1>2. CASE /\ AcknowledgeReadyFence(s)
           /\ UNCHANGED <<loopVars, rasterVars, kmsVars, leases, gpuBusy, interruptions>>
  <2>1. CASE DiscardsOn(s)
    <3>1. /\ outputRefs' = [outputRefs EXCEPT ![o][i] = @ - 1]
          /\ fenceState' = [fenceState EXCEPT ![o][i] = "none"]
          /\ fenceToken' = [fenceToken EXCEPT ![o][i] = NoToken]
      BY <1>2, <2>1 DEF AcknowledgeReadyFence
    <3>2. outputRefs[o][i] \in Nat /\ outputRefs[o][i] > 0 /\ fenceState[o][i] = "discard"
      BY <1>0, <1>2, <2>1 DEF AcknowledgeReadyFence, AcknowledgeFails, Releasable,
                              DiscardsOn, IInv, TypeOK, BrokerTypeOK
    <3>3. outputRefs' \in [Outputs -> [Slots -> Nat]]
      BY <1>0, <3>1, <3>2 DEF IInv, TypeOK, BrokerTypeOK
    <3>4. TypeOK'
      BY <1>0, <1>2, <3>1, <3>3 DEF AcknowledgeReadyFence, IInv, TypeOK, BrokerTypeOK,
                 VolitionTypeOK, SchedulerTypeOK, FenceStates, NoToken
    <3>5. RefsExact'
      BY <1>0, <1>2, <3>1, <3>2 DEF AcknowledgeReadyFence, IInv, TypeOK, BrokerTypeOK,
                 SchedulerTypeOK, BufferInv, RefsExact, Held, ClaimsDisjoint
    <3>6. ClaimsDisjoint' /\ ProductionUnreferenced'
      BY <1>0, <1>2, <3>1, <3>2 DEF AcknowledgeReadyFence, IInv, TypeOK, BrokerTypeOK,
                 SchedulerTypeOK, BufferInv, ClaimsDisjoint, ProductionUnreferenced
    <3>7. FencesGuard'
      BY <1>0, <1>2, <3>1, <3>2 DEF AcknowledgeReadyFence, IInv, TypeOK,
                 SchedulerTypeOK, BufferInv, FencesGuard
    <3>8. GpuInv'
      BY <1>0, <1>2, <2>1, <3>1, TokensAssumption
      DEF AcknowledgeReadyFence, DiscardsOn, SignalMatches, IInv, TypeOK, SchedulerTypeOK,
          Signals, NoToken, GpuInv, GpuWorkGuarded, SignalsTrue, DrawingInTransaction
    <3> QED
      BY <1>2, <3>4, <3>5, <3>6, <3>7, <3>8, KmsFrame
      DEF IInv, BufferInv, AcknowledgeReadyFence
  <2>2. CASE ~DiscardsOn(s)
    <3>1. /\ UNCHANGED <<outputRefs, fenceToken>>
          /\ fenceState' = IF SignalMatches(s) THEN [fenceState EXCEPT ![o][i] = "signaled"]
                           ELSE fenceState
      BY <1>2, <2>2 DEF AcknowledgeReadyFence
    <3>2. SignalMatches(s) => fenceState[o][i] \in {"pending", "signaled"}
      BY <1>0, <2>2 DEF DiscardsOn, SignalMatches, IInv, TypeOK, SchedulerTypeOK, FenceStates
    <3>3. TypeOK'
      BY <1>0, <1>2, <3>1 DEF AcknowledgeReadyFence, IInv, TypeOK, BrokerTypeOK,
                 VolitionTypeOK, SchedulerTypeOK, FenceStates
    <3>4. BufferInv'
      BY <1>0, <1>2, <3>1, <3>2 DEF AcknowledgeReadyFence, IInv, TypeOK, SchedulerTypeOK,
                 BufferInv, RefsExact, Held, ClaimsDisjoint, ProductionUnreferenced, FencesGuard
    <3>5. GpuInv'
      BY <1>0, <1>2, <3>1, <3>2
      DEF AcknowledgeReadyFence, SignalMatches, IInv, TypeOK, SchedulerTypeOK,
          GpuInv, GpuWorkGuarded, SignalsTrue, DrawingInTransaction
    <3> QED
      BY <1>2, <3>3, <3>4, <3>5, KmsFrame DEF IInv, AcknowledgeReadyFence
  <2> QED
    BY <2>1, <2>2
<1> QED
  BY <1>1, <1>2 DEF AckFence

-----------------------------------------------------------------------------
(* The main loop: submission, publication and authorization. *)

\* Taking a ready frame moves the claim on its slot to in_flight.
LEMMA TakeReadyInv ==
    ASSUME IInv, NEW o \in Outputs, Submittable(o), NEW commit, TakeReady(o, commit),
           UNCHANGED <<leases, gpuBusy, drawing, rasterizing>>
    PROVE  BufferInv' /\ GpuInv'
<1>1. ready[o] \in Slots /\ fenceState[o][ready[o]] = "signaled" /\ inFlight[o] = NoSlot
  BY DEF Submittable, IInv, TypeOK, SchedulerTypeOK, OptionalSlots
<1>a. /\ \A p \in Outputs :
            /\ ready'[p] = IF p = o THEN NoSlot ELSE ready[p]
            /\ inFlight'[p] = IF p = o THEN ready[o] ELSE inFlight[p]
      /\ \A p \in Outputs, k \in Slots :
            /\ fenceState'[p][k] =
                    IF p = o /\ k = ready[o] THEN "none" ELSE fenceState[p][k]
            /\ fenceToken'[p][k] =
                    IF p = o /\ k = ready[o] THEN NoToken ELSE fenceToken[p][k]
      /\ UNCHANGED <<bufferState, outputRefs, scanning>>
  BY <1>1 DEF TakeReady, IInv, TypeOK, SchedulerTypeOK
<1>b. /\ \A k \in Slots : k # NoSlot
      /\ \A p \in Outputs : scanning[p] \in Slots
  BY SlotCountAssumption DEF Slots, NoSlot, IInv, TypeOK, SchedulerTypeOK
<1>2. RefsExact'
  <2>1. \A p \in Outputs, k \in Slots : Held(p, k)' = Held(p, k)
    BY <1>1, <1>a, <1>b DEF Held
  <2> QED
    BY <1>a, <2>1 DEF IInv, BufferInv, RefsExact
<1>3. ClaimsDisjoint' /\ ProductionUnreferenced'
  BY <1>1, <1>a, <1>b DEF IInv, BufferInv, ClaimsDisjoint, ProductionUnreferenced
<1>4. FencesGuard'
  BY <1>1, <1>a, <1>b DEF IInv, BufferInv, FencesGuard
<1>5. GpuInv'
  BY <1>1, TokensAssumption
  DEF TakeReady, IInv, TypeOK, SchedulerTypeOK, Signals, NoToken, GpuInv, GpuWorkGuarded,
      SignalsTrue, DrawingInTransaction
<1> QED
  BY <1>2, <1>3, <1>4, <1>5 DEF BufferInv

\* A commit is handed to Volition with nothing of its output in flight.
LEMMA SubmitReadyIInv == \A o \in Outputs : IInv /\ SubmitReady(o) => IInv'
<1> SUFFICES ASSUME NEW o \in Outputs, IInv, SubmitReady(o) PROVE IInv'
  OBVIOUS
<1>0. /\ ScheduleReady(o) /\ Submittable(o) /\ TakeReady(o, CommitOf(o))
      /\ jobs' = jobs \union {Job(o, ready[o], CommitOf(o))}
      /\ ready[o] \in Slots /\ inFlight[o] = NoSlot /\ o \in powered
      /\ ~rebased
  BY DEF SubmitReady, SubmitPhase, ScheduleReady, SubmitForTarget, Submittable, IInv, TypeOK,
         SchedulerTypeOK, OptionalSlots, KmsInv, RecoveryQuiesces
<1>1. TypeOK'
  <2>1. CommitOf(o) \in CommitIds
    BY <1>0 DEF CommitOf, CommitIds, IInv, TypeOK, SchedulerTypeOK
  <2>2. jobs' \subseteq Jobs
    <3>1. Job(o, ready[o], CommitOf(o)) \in Jobs
      BY <1>0, <2>1 DEF Job, Jobs
    <3> QED
      BY <1>0, <3>1 DEF IInv, TypeOK, VolitionTypeOK
  <2>3. SchedulerTypeOK'
    BY <1>0, <2>1 DEF SubmitReady, ScheduleReady, SubmitForTarget, TakeReady, IInv, TypeOK, SchedulerTypeOK,
                      OptionalSlots, FenceStates
  <2> QED
    BY <1>0, <2>2, <2>3 DEF SubmitReady, ScheduleReady, SubmitForTarget, TakeReady, IInv,
                            TypeOK, BrokerTypeOK, VolitionTypeOK
<1>2. BufferInv' /\ GpuInv'
  BY <1>0, TakeReadyInv DEF SubmitReady
<1>3. KmsInv'
  <2>1. flip[o] = NoSlot /\ Flips(o) = 0
    BY <1>0, FlipsType DEF IInv, KmsInv, FlightsTracked
  <2>2. \A j \in jobs : j.output \in Outputs /\ j.slot \in Slots
    BY DEF IInv, TypeOK, VolitionTypeOK, Jobs
  <2>3. \A j \in jobs : j.output = o => j.accepted
    BY <1>0, <2>2, SlotCountAssumption DEF IInv, KmsInv, FlightsTracked, Slots, NoSlot
  <2>4. /\ inFlight' = [inFlight EXCEPT ![o] = ready[o]]
        /\ ready' = [ready EXCEPT ![o] = NoSlot]
        /\ UNCHANGED <<powered, scanning, front, flip, completed, flipEvents, rebased, phase>>
    BY <1>0 DEF SubmitReady, ScheduleReady, TakeReady
  <2>5. FlightsTracked'
    <3> DEFINE new == Job(o, ready[o], CommitOf(o))
    <3>1. /\ new.output = o /\ new.slot = ready[o]
          /\ \A p \in Outputs :
                /\ inFlight'[p] = IF p = o THEN ready[o] ELSE inFlight[p]
                /\ ready'[p] = IF p = o THEN NoSlot ELSE ready[p]
                /\ Flips(p)' = Flips(p)
      BY <2>4 DEF Job, Flips, IInv, TypeOK, SchedulerTypeOK
    <3>2. \A j \in jobs' : j \in jobs \/ j = new
      BY <1>0
    <3> HIDE DEF new
    <3>3. \A p \in Outputs :
            /\ front'[p] # NoSlot => front'[p] \in {scanning'[p], inFlight'[p]}
            /\ flip'[p] # NoSlot => flip'[p] = inFlight'[p] /\ Flips(p)' = 0
            /\ Flips(p)' > 0 /\ ~rebased' =>
                Flips(p)' = 1 /\ inFlight'[p] # NoSlot /\ front'[p] = inFlight'[p]
            /\ p \notin powered' => inFlight'[p] = NoSlot /\ ready'[p] = NoSlot
      BY <1>0, <2>1, <2>4, <3>1 DEF IInv, KmsInv, FlightsTracked
    <3>4. \A j \in jobs' : ~j.accepted =>
            /\ j.slot = inFlight'[j.output]
            /\ flip'[j.output] = NoSlot
            /\ Flips(j.output)' = 0
      BY <1>0, <2>1, <2>2, <2>3, <2>4, <3>1, <3>2 DEF IInv, KmsInv, FlightsTracked
    <3>5. \A j, k \in jobs' :
            ~j.accepted /\ ~k.accepted /\ j.output = k.output => j = k
      BY <2>3, <3>1, <3>2 DEF IInv, KmsInv, FlightsTracked
    <3> QED
      BY <3>3, <3>4, <3>5 DEF FlightsTracked
  <2> QED
    BY <1>0, <2>4, <2>5 DEF IInv, KmsInv, RecoveryQuiesces
<1> QED
  BY <1>1, <1>2, <1>3 DEF IInv

\* The enabling modeset of a woken output is a flip like any other.
LEMMA SubmitWakeIInv == \A o \in Outputs : IInv /\ SubmitWake(o) => IInv'
<1> SUFFICES ASSUME NEW o \in Outputs, IInv, SubmitWake(o) PROVE IInv'
  OBVIOUS
<1>0. /\ Submittable(o) /\ TakeReady(o, NoCommit)
      /\ ready[o] \in Slots /\ inFlight[o] = NoSlot /\ o \in powered
      /\ ~rebased
  BY DEF SubmitWake, SubmitPhase, WakeReady, WakeDue, Submittable, IInv, TypeOK,
         SchedulerTypeOK, OptionalSlots, KmsInv, RecoveryQuiesces
<1>1. TypeOK'
  <2>1. SchedulerTypeOK'
    BY <1>0 DEF SubmitWake, WakeReady, TakeReady, IInv, TypeOK, SchedulerTypeOK,
                OptionalSlots, FenceStates, WakeStates
  <2> QED
    BY <1>0, <2>1 DEF SubmitWake, WakeReady, TakeReady, IInv, TypeOK, BrokerTypeOK,
                      VolitionTypeOK, OptionalSlots
<1>2. BufferInv' /\ GpuInv'
  BY <1>0, TakeReadyInv DEF SubmitWake
<1>3. KmsInv'
  <2>1. Flips(o) = 0
    BY <1>0, FlipsType DEF IInv, KmsInv, FlightsTracked
  <2>2. \A j \in jobs : j.output \in Outputs /\ j.slot \in Slots
    BY DEF IInv, TypeOK, VolitionTypeOK, Jobs
  <2>3. \A j \in jobs : j.output = o => j.accepted
    BY <1>0, <2>2, SlotCountAssumption DEF IInv, KmsInv, FlightsTracked, Slots, NoSlot
  <2>4. /\ inFlight' = [inFlight EXCEPT ![o] = ready[o]]
        /\ ready' = [ready EXCEPT ![o] = NoSlot]
        /\ flip' = [flip EXCEPT ![o] = ready[o]]
        /\ UNCHANGED <<powered, scanning, jobs, front, completed, flipEvents, rebased, phase>>
    BY <1>0 DEF SubmitWake, WakeReady, TakeReady
  <2>5. FlightsTracked'
    BY <1>0, <2>1, <2>2, <2>3, <2>4
    DEF IInv, TypeOK, SchedulerTypeOK, KmsInv, FlightsTracked, Flips
  <2> QED
    BY <1>0, <2>4, <2>5 DEF IInv, KmsInv, RecoveryQuiesces
<1> QED
  BY <1>1, <1>2, <1>3 DEF IInv

\* A failed wake changes no frame.
LEMMA SubmitWakeFailedIInv == \A o \in Outputs : IInv /\ SubmitWakeFailed(o) => IInv'
<1> SUFFICES ASSUME NEW o \in Outputs, IInv, SubmitWakeFailed(o) PROVE IInv'
  OBVIOUS
<1>1. interruptions' \in 0 .. MaxInterruptions /\ recoveryRequested' \in BOOLEAN
  BY InterruptType DEF IInv, TypeOK, SubmitWakeFailed
<1>2. TypeOK'
  BY <1>1 DEF IInv, SubmitWakeFailed, WakeFails, TypeOK, BrokerTypeOK, VolitionTypeOK,
              SchedulerTypeOK, WakeStates
<1> QED
  BY <1>2, BufferFrame, GpuFrame, KmsFrame DEF IInv, SubmitWakeFailed, WakeFails

\* A retry that becomes due changes no frame.
LEMMA WakeRetryDueIInv == \A o \in Outputs : IInv /\ WakeRetryDue(o) => IInv'
<1> SUFFICES ASSUME NEW o \in Outputs, IInv, WakeRetryDue(o) PROVE IInv'
  OBVIOUS
<1>1. TypeOK'
  BY DEF IInv, WakeRetryDue, TypeOK, BrokerTypeOK, VolitionTypeOK, SchedulerTypeOK, WakeStates
<1> QED
  BY <1>1, BufferFrame, GpuFrame, KmsFrame DEF IInv, WakeRetryDue

\* A published slot gets its one claim and a fence with a fresh token.
LEMMA PublishIInv == \A o \in Outputs, i \in Slots : IInv /\ Publish(o, i) => IInv'
<1> SUFFICES ASSUME NEW o \in Outputs, NEW i \in Slots, IInv, Publish(o, i) PROVE IInv'
  OBVIOUS
<1>1. CASE Exit
  BY <1>1, ExitIInv
<1>2. CASE /\ PublishReady(o, i)
           /\ UNCHANGED <<loopVars, rasterVars, kmsVars, leases, gpuBusy, interruptions>>
  <2> DEFINE t == FreshToken(o, i)
             active == o \in powered /\ o \notin poweringOff
  <2>1. t \in Tokens /\ t \notin UsedTokens(o, i)
    BY <1>2 DEF PublishReady, FreshToken
  <2>2. /\ bufferState[o][i] = "Pending" /\ outputRefs[o][i] = 0
        /\ fenceState[o][i] = "none"
        /\ active => ready[o] = NoSlot
    BY <1>2 DEF PublishReady, PublishFails, Publishable
  <2>3. /\ bufferState' = [bufferState EXCEPT ![o][i] = "Free"]
        /\ outputRefs' = [outputRefs EXCEPT ![o][i] = 1]
        /\ fenceToken' = [fenceToken EXCEPT ![o][i] = t]
        /\ watches' = watches \union {[output |-> o, slot |-> i, token |-> t]}
        /\ ready' = IF active THEN [ready EXCEPT ![o] = i] ELSE ready
        /\ fenceState' = [fenceState EXCEPT ![o][i] = IF active THEN "pending" ELSE "discard"]
        /\ dirty' \subseteq dirty
        /\ UNCHANGED <<slotSerial, authorized, scanning, inFlight, scheduled, powerVars,
                       fenceSignals, volitionVars>>
    BY <1>2 DEF PublishReady, CompleteRender
  <2>4. ~Held(o, i) /\ leases[o][i] = 0
    <3>1. leases[o][i] \in Nat
      BY DEF IInv, TypeOK
    <3> QED
      BY <2>2, <3>1 DEF IInv, BufferInv, RefsExact
  <2> HIDE DEF t, active
  <2>5. TypeOK'
    <3>1. watches' \subseteq Signals
      BY <2>1, <2>3 DEF Signals, IInv, TypeOK, SchedulerTypeOK
    <3>2. BrokerTypeOK'
      BY <2>3 DEF IInv, TypeOK, BrokerTypeOK, BufferStates
    <3>3. SchedulerTypeOK'
      BY <2>1, <2>3, <3>1 DEF IInv, TypeOK, SchedulerTypeOK, OptionalSlots, FenceStates
    <3> QED
      BY <1>2, <2>3, <3>2, <3>3 DEF IInv, TypeOK, VolitionTypeOK
  <2>6. /\ \A p \in Outputs : ready'[p] = IF p = o /\ active THEN i ELSE ready[p]
        /\ \A p \in Outputs, k \in Slots : p # o \/ k # i =>
                /\ bufferState'[p][k] = bufferState[p][k]
                /\ outputRefs'[p][k] = outputRefs[p][k]
                /\ fenceState'[p][k] = fenceState[p][k]
                /\ fenceToken'[p][k] = fenceToken[p][k]
        /\ bufferState'[o][i] = "Free" /\ outputRefs'[o][i] = 1 /\ fenceToken'[o][i] = t
        /\ fenceState'[o][i] = IF active THEN "pending" ELSE "discard"
    BY <2>3 DEF IInv, TypeOK, BrokerTypeOK, SchedulerTypeOK
  <2>7. BufferInv'
    <3>1. \A p \in Outputs, k \in Slots :
            /\ p = o /\ k = i => Held(p, k)'
            /\ p # o \/ k # i => (Held(p, k)' <=> Held(p, k))
      BY <2>2, <2>3, <2>6, SlotCountAssumption DEF Held, Slots, NoSlot
    <3>2. RefsExact'
      <4> SUFFICES ASSUME NEW p \in Outputs, NEW k \in Slots
                   PROVE  outputRefs'[p][k] =
                            leases'[p][k] + (IF Held(p, k)' THEN 1 ELSE 0)
        BY DEF RefsExact
      <4>1. leases'[p][k] = leases[p][k]
        BY <1>2
      <4>2. CASE p = o /\ k = i
        <5>1. Held(p, k)'
          BY <3>1, <4>2
        <5> QED
          BY <2>4, <2>6, <4>1, <4>2, <5>1
      <4>3. CASE p # o \/ k # i
        <5>1. Held(p, k)' <=> Held(p, k)
          BY <3>1, <4>3
        <5> QED
          BY <2>6, <4>1, <4>3, <5>1 DEF IInv, BufferInv, RefsExact
      <4> QED
        BY <4>2, <4>3
    <3>3. ClaimsDisjoint'
      BY <2>3, <2>4, <2>6 DEF IInv, BufferInv, ClaimsDisjoint, Held
    <3>4. ProductionUnreferenced'
      BY <2>6 DEF IInv, BufferInv, ProductionUnreferenced
    <3>5. FencesGuard'
      BY <2>2, <2>4, <2>6, SlotCountAssumption
      DEF IInv, BufferInv, FencesGuard, Held, Slots, NoSlot
    <3> QED
      BY <3>2, <3>3, <3>4, <3>5 DEF BufferInv
  <2>8. GpuInv'
    <3>1. SignalsTrue'
      BY <1>2, <2>1, <2>3, <2>6
      DEF UsedTokens, IInv, TypeOK, SchedulerTypeOK, Signals, GpuInv, SignalsTrue
    <3>2. GpuWorkGuarded'
      BY <1>2, <2>6 DEF IInv, GpuInv, GpuWorkGuarded
    <3>3. DrawingInTransaction'
      <4> SUFFICES ASSUME NEW p \in Outputs, drawing[p] # NoSlot
                   PROVE  rasterizing /\ bufferState'[p][drawing[p]] = "Rendering"
        BY <1>2 DEF DrawingInTransaction
      <4>1. drawing[p] \in Slots
        BY DEF IInv, TypeOK, OptionalSlots
      <4>2. rasterizing /\ bufferState[p][drawing[p]] = "Rendering"
        BY DEF IInv, GpuInv, DrawingInTransaction
      <4> QED
        BY <2>2, <2>6, <4>1, <4>2
    <3> QED
      BY <3>1, <3>2, <3>3 DEF GpuInv
  <2>9. KmsInv'
    <3>1. FlightsTracked'
      BY <1>2, <2>3, <2>6 DEF active, IInv, KmsInv, FlightsTracked, Flips
    <3> QED
      BY <1>2, <2>3, <3>1 DEF IInv, KmsInv, RecoveryQuiesces
  <2> QED
    BY <2>5, <2>7, <2>8, <2>9 DEF IInv
<1> QED
  BY <1>1, <1>2 DEF Publish

\* Damage changes serials only.
LEMMA NewDamageIInv == \A o \in Outputs : IInv /\ NewDamage(o) => IInv'
<1> SUFFICES ASSUME NEW o \in Outputs, IInv, NewDamage(o) PROVE IInv'
  OBVIOUS
<1>1. TypeOK'
  BY DEF IInv, NewDamage, Supersede, TypeOK, BrokerTypeOK, VolitionTypeOK, SchedulerTypeOK,
         Serials
<1> QED
  BY <1>1, BufferFrame, GpuFrame, KmsFrame DEF IInv, NewDamage, Supersede

\* An authorization touches no slot.
LEMMA AuthorizeIInv == \A ticks \in SUBSET Outputs : IInv /\ Authorize(ticks) => IInv'
<1> SUFFICES ASSUME NEW ticks \in SUBSET Outputs, IInv, Authorize(ticks) PROVE IInv'
  OBVIOUS
<1>0. PICK expired \in SUBSET {o \in Outputs : authorized[o] # "none"} :
        /\ IF expired = {} THEN UNCHANGED interruptions ELSE Interrupt("expiry")
        /\ ExpireAndAuthorize(expired, ticks \intersect Renderable(expired))
        /\ requested' = requested \union (ticks \intersect Renderable(expired))
  BY DEF Authorize
<1>1. interruptions' \in 0 .. MaxInterruptions
  BY <1>0, InterruptType DEF IInv, TypeOK
<1>2. TypeOK'
  <2>1. requested' \subseteq Outputs
    BY <1>0 DEF IInv, TypeOK
  <2>2. BrokerTypeOK'
    BY <1>0 DEF IInv, TypeOK, BrokerTypeOK, Serials, ExpireAndAuthorize
  <2> QED
    BY <1>1, <2>1, <2>2 DEF IInv, Authorize, TypeOK, VolitionTypeOK, SchedulerTypeOK, Phases
<1>3. ~rebased
  BY DEF IInv, KmsInv, RecoveryQuiesces, Authorize
<1> QED
  BY <1>0, <1>2, <1>3, BufferFrame, GpuFrame, KmsPhase DEF IInv, Authorize, ExpireAndAuthorize

\* A refused render request changes serials, and the views requested, only.
LEMMA AuthorizeFailedIInv ==
    \A ticks \in SUBSET Outputs : IInv /\ AuthorizeFailed(ticks) => IInv'
<1> SUFFICES ASSUME NEW ticks \in SUBSET Outputs, IInv, AuthorizeFailed(ticks) PROVE IInv'
  OBVIOUS
<1>1. interruptions' \in 0 .. MaxInterruptions
  BY InterruptType DEF IInv, AuthorizeFailed
<1>2. TypeOK'
  <2>1. requested' \subseteq Outputs
    BY DEF IInv, TypeOK, AuthorizeFailed
  <2> QED
    BY <1>1, <2>1 DEF IInv, AuthorizeFailed, Supersede, TypeOK, BrokerTypeOK, VolitionTypeOK,
                      SchedulerTypeOK, Serials, Phases
<1> QED
  BY <1>2, BufferFrame, GpuFrame, KmsPhase DEF IInv, AuthorizeFailed, Supersede

-----------------------------------------------------------------------------
(* The main loop: screen capture, and the order of the phases. *)

\* A capture adds one lease and one reference.
LEMMA RetainForCaptureIInv == \A o \in Outputs : IInv /\ RetainForCapture(o) => IInv'
<1> SUFFICES ASSUME NEW o \in Outputs, IInv, RetainForCapture(o) PROVE IInv'
  OBVIOUS
<1>1. CASE Exit
  BY <1>1, ExitIInv
<1>2. CASE ~Exit
  <2> DEFINE i == scanning[o]
  <2>1. i \in Slots
    BY DEF IInv, TypeOK, SchedulerTypeOK
  <2>2. /\ Retainable(o, i)
        /\ outputRefs' = [outputRefs EXCEPT ![o][i] = @ + 1]
        /\ leases' = [leases EXCEPT ![o][i] = @ + 1]
        /\ UNCHANGED <<bufferState, slotSerial, authorized, volitionVars, schedulerVars,
                       loopVars, rasterVars, kmsVars, gpuBusy, interruptions>>
    BY <1>2 DEF RetainForCapture
  <2> HIDE DEF i
  <2>3. TypeOK'
    BY <2>1, <2>2 DEF IInv, TypeOK, BrokerTypeOK, VolitionTypeOK, SchedulerTypeOK
  <2>4. RefsExact'
    BY <2>1, <2>2 DEF IInv, TypeOK, BrokerTypeOK, BufferInv, RefsExact, Held
  <2>5. ClaimsDisjoint' /\ ProductionUnreferenced' /\ FencesGuard'
    BY <2>1, <2>2 DEF IInv, TypeOK, BrokerTypeOK, BufferInv, ClaimsDisjoint,
                      ProductionUnreferenced, FencesGuard, Retainable
  <2> QED
    BY <2>2, <2>3, <2>4, <2>5, GpuFrame, KmsFrame DEF IInv, BufferInv
<1> QED
  BY <1>1, <1>2

\* The end of a capture takes back its reference.
LEMMA DropLeaseIInv == \A o \in Outputs, i \in Slots : IInv /\ DropLease(o, i) => IInv'
<1> SUFFICES ASSUME NEW o \in Outputs, NEW i \in Slots, IInv, DropLease(o, i) PROVE IInv'
  OBVIOUS
<1>1. TypeOK'
  BY DEF DropLease, IInv, TypeOK, BrokerTypeOK, VolitionTypeOK, SchedulerTypeOK
<1>2. RefsExact'
  BY DEF DropLease, IInv, TypeOK, BrokerTypeOK, BufferInv, RefsExact, Held
<1>3. ClaimsDisjoint' /\ ProductionUnreferenced' /\ FencesGuard'
  BY DEF DropLease, IInv, TypeOK, BrokerTypeOK, BufferInv, ClaimsDisjoint,
         ProductionUnreferenced, FencesGuard
<1> QED
  BY <1>1, <1>2, <1>3, GpuFrame, KmsFrame DEF IInv, BufferInv, DropLease

\* A queued power request changes no pipeline.
LEMMA RequestPowerIInv ==
    \A o \in Outputs, power \in {"on", "off"} : IInv /\ RequestPower(o, power) => IInv'
<1> SUFFICES ASSUME NEW o \in Outputs, NEW power \in {"on", "off"}, IInv,
                    RequestPower(o, power)
             PROVE  IInv'
  OBVIOUS
<1>1. interruptions' \in 0 .. MaxInterruptions
  BY InterruptType DEF IInv, TypeOK, RequestPower
<1>2. TypeOK'
  BY <1>1 DEF IInv, RequestPower, TypeOK, BrokerTypeOK, VolitionTypeOK, SchedulerTypeOK
<1> QED
  BY <1>2, BufferFrame, GpuFrame, KmsFrame DEF IInv, RequestPower

\* The loop goes to "rebuild" exactly after a recovery.
LEMMA NextPhaseIInv == IInv /\ NextPhase => IInv'
<1> SUFFICES ASSUME IInv, NextPhase PROVE IInv'
  OBVIOUS
<1>1. TypeOK'
  BY DEF IInv, NextPhase, Advance, GoTo, TypeOK, BrokerTypeOK, VolitionTypeOK, SchedulerTypeOK, Phases
<1>2. rebased => phase' \in {"volition", "rebuild"}
  BY DEF IInv, KmsInv, RecoveryQuiesces, NextPhase, Advance, GoTo
<1>3. phase' = "rebuild" => rebased
  BY DEF NextPhase, Advance, GoTo
<1> QED
  BY <1>1, <1>2, <1>3, BufferFrame, GpuFrame, KmsPhase DEF IInv, NextPhase, Advance, GoTo

-----------------------------------------------------------------------------
(* Completions and output power: frames of the outputs rs are retired, and *)
(* the ready frames of the outputs os are discarded.                       *)

\* Discarding the ready frames of os and releasing the previous scanouts of rs
\* keep the buffer and GPU invariants.
LEMMA ReleaseInv ==
    ASSUME IInv,
           NEW os \in SUBSET Outputs, NEW rs \in SUBSET Outputs,
           \A o \in os : ready[o] # NoSlot,
           \A o \in rs : inFlight[o] # NoSlot,
           DiscardReady(os),
           \A o \in Outputs :
                /\ scanning'[o] = IF o \in rs THEN inFlight[o] ELSE scanning[o]
                /\ inFlight'[o] = IF o \in rs THEN NoSlot ELSE inFlight[o],
           \A o \in Outputs, i \in Slots :
                outputRefs'[o][i] = outputRefs[o][i]
                    - (IF Discarding(os, o, i) /\ fenceState[o][i] = "signaled" THEN 1 ELSE 0)
                    - (IF o \in rs /\ i = scanning[o] THEN 1 ELSE 0),
           UNCHANGED <<bufferState, leases, gpuBusy, drawing, rasterizing, fenceSignals>>
    PROVE  BufferInv' /\ GpuInv'
<1>a. \A k \in Slots : k # NoSlot
  BY SlotCountAssumption DEF Slots, NoSlot
<1>b. \A o \in Outputs, i \in Slots :
        /\ outputRefs[o][i] \in Nat /\ leases[o][i] \in Nat
        /\ fenceState[o][i] \in FenceStates
        /\ scanning[o] \in Slots
        /\ inFlight[o] \in OptionalSlots /\ ready[o] \in OptionalSlots
  BY DEF IInv, TypeOK, BrokerTypeOK, SchedulerTypeOK
<1>c. \A o \in Outputs :
        /\ ready'[o] = IF o \in os THEN NoSlot ELSE ready[o]
        /\ \A i \in Slots :
            /\ fenceState'[o][i] =
                IF o \in os /\ i = ready[o]
                THEN IF fenceState[o][i] = "signaled" THEN "none" ELSE "discard"
                ELSE fenceState[o][i]
            /\ fenceToken'[o][i] =
                IF o \in os /\ i = ready[o] /\ fenceState[o][i] = "signaled"
                THEN NoToken ELSE fenceToken[o][i]
  BY DEF DiscardReady, Discarding
<1>1. RefsExact'
  <2> SUFFICES ASSUME NEW o \in Outputs, NEW i \in Slots
               PROVE  outputRefs'[o][i] = leases'[o][i] + (IF Held(o, i)' THEN 1 ELSE 0)
    BY DEF RefsExact
  <2>1. outputRefs[o][i] = leases[o][i] + (IF Held(o, i) THEN 1 ELSE 0)
    BY DEF IInv, BufferInv, RefsExact
  <2>2. /\ inFlight[o] # NoSlot => inFlight[o] # scanning[o] /\ inFlight[o] # ready[o]
        /\ ready[o] # scanning[o]
        /\ fenceState[o][i] = "discard" => i # scanning[o] /\ i # inFlight[o] /\ i # ready[o]
    BY DEF IInv, BufferInv, ClaimsDisjoint
  <2>3. CASE o \in os /\ i = ready[o]
    <3>1. Held(o, i)
      BY <2>3 DEF Held
    <3>2. Held(o, i)' <=> fenceState[o][i] # "signaled"
      BY <1>a, <1>b, <1>c, <2>2, <2>3 DEF Held, OptionalSlots
    <3> QED
      BY <1>b, <2>1, <2>2, <2>3, <3>1, <3>2 DEF Discarding
  <2>4. CASE o \in rs /\ i = scanning[o]
    <3>1. Held(o, i)
      BY <2>4 DEF Held
    <3>2. ~Held(o, i)'
      BY <1>a, <1>b, <1>c, <2>2, <2>4 DEF Held, OptionalSlots
    <3> QED
      BY <1>b, <2>1, <2>2, <2>4, <3>1, <3>2 DEF Discarding
  <2>5. CASE ~(o \in os /\ i = ready[o]) /\ ~(o \in rs /\ i = scanning[o])
    <3>1. Held(o, i)' <=> Held(o, i)
      BY <1>a, <1>b, <1>c, <2>2, <2>5 DEF Held, OptionalSlots
    <3> QED
      BY <1>b, <2>1, <2>5, <3>1 DEF Discarding
  <2> QED
    BY <2>3, <2>4, <2>5
<1>2. ClaimsDisjoint'
  <2> SUFFICES ASSUME NEW o \in Outputs
               PROVE  /\ inFlight'[o] # NoSlot =>
                            inFlight'[o] # scanning'[o] /\ inFlight'[o] # ready'[o]
                      /\ ready'[o] # scanning'[o]
                      /\ \A i \in Slots : fenceState'[o][i] = "discard" =>
                            i # scanning'[o] /\ i # inFlight'[o] /\ i # ready'[o]
    BY DEF ClaimsDisjoint
  <2>1. /\ inFlight[o] # NoSlot => inFlight[o] # scanning[o] /\ inFlight[o] # ready[o]
        /\ ready[o] # scanning[o]
        /\ \A i \in Slots : fenceState[o][i] = "discard" =>
                i # scanning[o] /\ i # inFlight[o] /\ i # ready[o]
    BY DEF IInv, BufferInv, ClaimsDisjoint
  <2>2. scanning[o] # NoSlot
    BY <1>a DEF IInv, TypeOK, SchedulerTypeOK
  <2>3. \A i \in Slots : fenceState'[o][i] = "discard" =>
            \/ fenceState[o][i] = "discard"
            \/ o \in os /\ i = ready[o]
    BY <1>c
  <2>4. /\ ready'[o] = IF o \in os THEN NoSlot ELSE ready[o]
        /\ scanning'[o] = IF o \in rs THEN inFlight[o] ELSE scanning[o]
        /\ inFlight'[o] = IF o \in rs THEN NoSlot ELSE inFlight[o]
        /\ o \in rs => inFlight[o] # NoSlot
    BY <1>c
  <2> QED
    BY <1>a, <2>1, <2>2, <2>3, <2>4
<1>3. ProductionUnreferenced'
  <2> SUFFICES ASSUME NEW o \in Outputs, NEW i \in Slots, bufferState[o][i] # "Free"
               PROVE  outputRefs'[o][i] = 0
    BY DEF ProductionUnreferenced
  <2>1. outputRefs[o][i] = 0
    BY DEF IInv, BufferInv, ProductionUnreferenced
  <2>2. ~Held(o, i)
    BY <1>b, <2>1 DEF IInv, BufferInv, RefsExact
  <2> QED
    BY <2>1, <2>2 DEF Held, Discarding
<1>4. FencesGuard'
  BY <1>a, <1>b, <1>c DEF IInv, BufferInv, FencesGuard, OptionalSlots, FenceStates
<1>5. GpuInv'
  <2>1. GpuWorkGuarded'
    BY <1>b, <1>c DEF IInv, GpuInv, GpuWorkGuarded
  <2>2. SignalsTrue'
    <3>1. \A s \in fenceSignals : s.output \in Outputs /\ s.slot \in Slots /\ s.token # NoToken
      BY TokensAssumption DEF IInv, TypeOK, SchedulerTypeOK, Signals, NoToken
    <3> QED
      BY <1>c, <3>1 DEF IInv, GpuInv, SignalsTrue
  <2> QED
    BY <2>1, <2>2 DEF IInv, GpuInv, DrawingInTransaction
<1> QED
  BY <1>1, <1>2, <1>3, <1>4, <1>5 DEF BufferInv

\* A completion retires the one frame in flight that is on screen.
LEMMA HandleCompletionIInv == \A o \in Outputs : IInv /\ HandleCompletion(o) => IInv'
<1> SUFFICES ASSUME NEW o \in Outputs, IInv, HandleCompletion(o) PROVE IInv'
  OBVIOUS
<1>0. /\ completed[o] > 0 /\ completed[o] \in Nat /\ flipEvents[o] \in Nat
      /\ Flips(o) > 0 /\ ~rebased
  BY DEF HandleCompletion, Flips, IInv, TypeOK, KmsInv, RecoveryQuiesces
<1>1. /\ Flips(o) = 1 /\ inFlight[o] # NoSlot /\ front[o] = inFlight[o]
      /\ o \in powered /\ flip[o] = NoSlot
  BY <1>0 DEF IInv, KmsInv, FlightsTracked
<1>2. CASE Exit
  BY <1>2, ExitIInv
<1>3. CASE StaleCompletion(o)
  BY <1>1, <1>3 DEF StaleCompletion
<1>4. CASE \E drop \in BOOLEAN :
            /\ RetireCompletion(o, drop)
            /\ IF drop THEN Interrupt("missed_edge") ELSE UNCHANGED interruptions
            /\ completed' = [completed EXCEPT ![o] = @ - 1]
            /\ UNCHANGED <<phase, rebased, recoveryRequested, delivered,
                           powerRequests, rasterVars, kmsVars, leases, gpuBusy>>
  <2>1. PICK drop \in BOOLEAN :
            /\ RetireCompletion(o, drop)
            /\ IF drop THEN Interrupt("missed_edge") ELSE UNCHANGED interruptions
            /\ completed' = [completed EXCEPT ![o] = @ - 1]
            /\ UNCHANGED <<phase, rebased, recoveryRequested, delivered,
                           powerRequests, rasterVars, kmsVars, leases, gpuBusy>>
    BY <1>4
  <2> DEFINE os == IF drop THEN {o} ELSE {}
  <2>2. /\ DiscardReady(os)
        /\ \A p \in os : ready[p] # NoSlot
        /\ outputRefs' = [RefsAfterDiscard(os) EXCEPT ![o][scanning[o]] = @ - 1]
        /\ scanning' = [scanning EXCEPT ![o] = inFlight[o]]
        /\ inFlight' = [inFlight EXCEPT ![o] = NoSlot]
        /\ Releasable(o, scanning[o])
        /\ ~DiscardFails(os)
        /\ UNCHANGED <<bufferState, slotSerial, authorized, scheduled, powerVars,
                       watches, fenceSignals, dirty, volitionVars>>
    BY <2>1 DEF RetireCompletion, RetireFails, DiscardFails
  <2>3. os \in SUBSET Outputs /\ interruptions' \in 0 .. MaxInterruptions
    BY <2>1, InterruptType DEF IInv, TypeOK
  <2> HIDE DEF os
  <2>4. /\ scanning[o] \in Slots /\ inFlight[o] \in Slots
        /\ ready[o] # scanning[o]
    BY <1>1 DEF IInv, TypeOK, SchedulerTypeOK, OptionalSlots, BufferInv, ClaimsDisjoint
  <2>5. \A p \in Outputs, k \in Slots :
            outputRefs'[p][k] = outputRefs[p][k]
                - (IF Discarding(os, p, k) /\ fenceState[p][k] = "signaled" THEN 1 ELSE 0)
                - (IF p \in {o} /\ k = scanning[p] THEN 1 ELSE 0)
    BY <2>2, <2>4 DEF RefsAfterDiscard, IInv, TypeOK, BrokerTypeOK
  <2>6. \A p \in Outputs :
            /\ scanning'[p] = IF p \in {o} THEN inFlight[p] ELSE scanning[p]
            /\ inFlight'[p] = IF p \in {o} THEN NoSlot ELSE inFlight[p]
    BY <2>2 DEF IInv, TypeOK, SchedulerTypeOK
  <2>7. BufferInv' /\ GpuInv'
    <3>1. {o} \in SUBSET Outputs /\ \A p \in {o} : inFlight[p] # NoSlot
      BY <1>1
    <3>2. UNCHANGED <<bufferState, leases, gpuBusy, drawing, rasterizing, fenceSignals>>
      BY <2>1, <2>2
    <3> QED
      BY <2>2, <2>3, <2>5, <2>6, <3>1, <3>2, ReleaseInv
  <2>8. TypeOK'
    <3>1. outputRefs' \in [Outputs -> [Slots -> Nat]]
      <4>1. outputRefs' \in [Outputs -> [Slots -> Int]]
        <5>1. RefsAfterDiscard(os) \in [Outputs -> [Slots -> Int]]
          BY DEF RefsAfterDiscard, IInv, TypeOK, BrokerTypeOK
        <5> QED
          BY <2>2, <2>4, <5>1
      <4>2. \A p \in Outputs, k \in Slots : outputRefs'[p][k] \in Nat
        <5> SUFFICES ASSUME NEW p \in Outputs, NEW k \in Slots PROVE outputRefs'[p][k] \in Nat
          OBVIOUS
        <5>1. outputRefs[p][k] \in Nat
          BY DEF IInv, TypeOK, BrokerTypeOK
        <5>2. Discarding(os, p, k) /\ fenceState[p][k] = "signaled" =>
                outputRefs[p][k] > 0 /\ ~(p = o /\ k = scanning[p])
          BY <2>2, <2>4 DEF Discarding, DiscardFails, Releasable
        <5>3. p = o /\ k = scanning[p] => outputRefs[p][k] > 0
          BY <2>2 DEF Releasable
        <5> QED
          BY <2>5, <5>1, <5>2, <5>3
      <4> QED
        BY <4>1, <4>2
    <3>2. SchedulerTypeOK'
      <4>1. ready' \in [Outputs -> OptionalSlots]
        BY <2>2 DEF DiscardReady, IInv, TypeOK, SchedulerTypeOK, OptionalSlots
      <4>2. fenceState' \in [Outputs -> [Slots -> FenceStates]]
        BY <2>2 DEF DiscardReady, IInv, TypeOK, SchedulerTypeOK, FenceStates
      <4>3. fenceToken' \in [Outputs -> [Slots -> Tokens \union {NoToken}]]
        BY <2>2 DEF DiscardReady, IInv, TypeOK, SchedulerTypeOK
      <4> QED
        BY <2>2, <2>4, <4>1, <4>2, <4>3 DEF IInv, TypeOK, SchedulerTypeOK, OptionalSlots
    <3>3. completed' \in [Outputs -> Nat]
      BY <1>0, <2>1 DEF IInv, TypeOK
    <3> QED
      BY <2>1, <2>2, <2>3, <3>1, <3>2, <3>3 DEF IInv, TypeOK, BrokerTypeOK, VolitionTypeOK
  <2>9. KmsInv'
    <3>1. \A p \in Outputs : Flips(p)' = IF p = o THEN 0 ELSE Flips(p)
      BY <1>0, <1>1, <2>1 DEF Flips, IInv, TypeOK
    <3>2. \A j \in jobs : j.output \in Outputs /\ (j.output = o => j.accepted)
      BY <1>1 DEF IInv, TypeOK, VolitionTypeOK, Jobs, KmsInv, FlightsTracked
    <3>3. \A p \in Outputs : ready'[p] = NoSlot \/ ready'[p] = ready[p]
      BY <2>2 DEF DiscardReady
    <3>4. UNCHANGED <<jobs, front, flip, rebased, phase, powered>>
      BY <2>1, <2>2
    <3>5. FlightsTracked'
      <4>1. \A p \in Outputs :
              /\ front'[p] # NoSlot => front'[p] \in {scanning'[p], inFlight'[p]}
              /\ flip'[p] # NoSlot => flip'[p] = inFlight'[p] /\ Flips(p)' = 0
              /\ Flips(p)' > 0 /\ ~rebased' =>
                  Flips(p)' = 1 /\ inFlight'[p] # NoSlot /\ front'[p] = inFlight'[p]
              /\ p \notin powered' => inFlight'[p] = NoSlot /\ ready'[p] = NoSlot
        BY <1>1, <2>6, <3>1, <3>3, <3>4 DEF IInv, KmsInv, FlightsTracked
      <4>2. \A j \in jobs' : ~j.accepted =>
              /\ j.slot = inFlight'[j.output]
              /\ flip'[j.output] = NoSlot
              /\ Flips(j.output)' = 0
        BY <2>6, <3>1, <3>2, <3>4 DEF IInv, KmsInv, FlightsTracked
      <4> QED
        BY <3>4, <4>1, <4>2 DEF IInv, KmsInv, FlightsTracked
    <3> QED
      BY <3>4, <3>5 DEF IInv, KmsInv, RecoveryQuiesces
  <2> QED
    BY <2>7, <2>8, <2>9 DEF IInv
<1> QED
  BY <1>2, <1>3, <1>4 DEF HandleCompletion

\* What the three outcomes of a power batch do to KMS and to the pipelines.
LEMMA PowerOutcome ==
    ASSUME IInv,
           \/ DeferPowerOff /\ Pipelines({})
           \/ CommitPowerOff /\ Pipelines(Off)
           \/ AbortPowerOff /\ Pipelines({})
    PROVE  /\ front' \in [Outputs -> OptionalSlots]
           /\ poweringOff' \subseteq Outputs
           /\ powerRequests' \in [Outputs -> {"none", "on", "off"}]
           /\ recoveryRequested' \in BOOLEAN
           /\ interruptions' \in 0 .. MaxInterruptions
           /\ powered' \subseteq Outputs
           /\ stream' \in [Outputs -> Int]
           /\ wakeModeset' \in [Outputs -> WakeStates]
           /\ \A o \in Outputs :
                /\ front'[o] = front[o] \/ front'[o] \in {NoSlot, scanning[o]}
                /\ front'[o] # front[o] => inFlight[o] = NoSlot
                /\ o \notin powered' => o \notin powered \/ (o \in Off /\ inFlight[o] = NoSlot)
<1>1. PICK gone : Pipelines(gone) /\ gone \subseteq Off /\ (gone = {} \/ ~PowerOffWaits)
  BY DEF DeferPowerOff, CommitPowerOff, AbortPowerOff
<1>2. Off \subseteq Outputs /\ On \subseteq Outputs /\ gone \subseteq Outputs /\ powered \subseteq Outputs
  BY <1>1 DEF Off, On, IInv, TypeOK, SchedulerTypeOK
<1>3. /\ poweringOff' \subseteq Outputs
      /\ powerRequests' \in [Outputs -> {"none", "on", "off"}]
  BY <1>2 DEF DeferPowerOff, CommitPowerOff, AbortPowerOff, IInv, TypeOK, SchedulerTypeOK
<1>4. interruptions' \in 0 .. MaxInterruptions
  BY InterruptType DEF DeferPowerOff, CommitPowerOff, AbortPowerOff, IInv, TypeOK
<1>5. recoveryRequested' \in BOOLEAN
  BY DEF DeferPowerOff, CommitPowerOff, AbortPowerOff, IInv, TypeOK
<1>6. /\ powered' \subseteq Outputs
      /\ wakeModeset' \in [Outputs -> WakeStates]
  BY <1>1, <1>2 DEF Pipelines, IInv, TypeOK, SchedulerTypeOK, WakeStates
<1>7. stream' \in [Outputs -> Int]
  <2>1. \A o \in Outputs :
            /\ Position(o, On) \in Nat
            /\ Cardinality({p \in gone : stream[p] < stream[o]}) \in Nat
    BY <1>2, PositionType, CardinalityType
  <2>2. Cardinality(powered \ gone) \in Nat
    BY <1>2, CardinalityType
  <2>3. \A o \in Outputs : stream[o] \in Int
    BY DEF IInv, TypeOK, SchedulerTypeOK
  <2>4. ASSUME NEW o \in Outputs
        PROVE  /\ Cardinality(powered \ gone) + Position(o, On) \in Int
               /\ stream[o] - Cardinality({p \in gone : stream[p] < stream[o]}) \in Int
    <3> DEFINE lower == Cardinality({p \in gone : stream[p] < stream[o]})
               kept == Cardinality(powered \ gone)
               place == Position(o, On)
    <3>1. lower \in Nat /\ kept \in Nat /\ place \in Nat /\ stream[o] \in Int
      BY <2>1, <2>2, <2>3
    <3> HIDE DEF lower, kept, place
    <3>2. kept + place \in Int /\ stream[o] - lower \in Int
      BY <3>1
    <3> QED
      BY <3>2 DEF lower, kept, place
  <2> QED
    BY <1>1, <2>4 DEF Pipelines
<1>8. /\ front' \in [Outputs -> OptionalSlots]
      /\ \A o \in Outputs :
            /\ front'[o] = front[o] \/ front'[o] \in {NoSlot, scanning[o]}
            /\ front'[o] # front[o] => o \in Off /\ ~PowerOffWaits
  <2>1. CASE DeferPowerOff
    BY <2>1 DEF DeferPowerOff, IInv, TypeOK
  <2>2. CASE CommitPowerOff
    BY <2>2 DEF CommitPowerOff, IInv, TypeOK, OptionalSlots
  <2>3. CASE AbortPowerOff
    BY <2>3 DEF AbortPowerOff, IInv, TypeOK, SchedulerTypeOK, OptionalSlots
  <2> QED
    BY <2>1, <2>2, <2>3
<1>9. ~PowerOffWaits => \A o \in Off : inFlight[o] = NoSlot
  BY DEF PowerOffWaits
<1>10. \A o \in Outputs : o \notin powered' => o \notin powered \/ (o \in Off /\ inFlight[o] = NoSlot)
  <2>1. powered' = (powered \ gone) \union On
    BY <1>1 DEF Pipelines
  <2> SUFFICES ASSUME NEW o \in Outputs, o \notin powered', o \in powered
               PROVE  o \in Off /\ inFlight[o] = NoSlot
    OBVIOUS
  <2>2. o \in gone
    BY <2>1
  <2>3. o \in Off /\ ~PowerOffWaits
    BY <1>1, <2>2
  <2> QED
    BY <1>9, <2>3
<1>11. \A o \in Outputs : front'[o] # front[o] => inFlight[o] = NoSlot
  BY <1>8, <1>9
<1> QED
  BY <1>3, <1>4, <1>5, <1>6, <1>7, <1>8, <1>10, <1>11

\* A power batch removes only pipelines without a frame in flight.
LEMMA ApplyPowerIInv == IInv /\ ApplyPower => IInv'
<1> SUFFICES ASSUME IInv, ApplyPower PROVE IInv'
  OBVIOUS
<1>1. CASE Exit
  BY <1>1, ExitIInv
<1>2. CASE ~Exit
  <2> DEFINE os == DiscardedByPowerOff
  <2>1. /\ phase = "power" /\ ~DiscardFails(os)
        /\ DiscardReady(os)
        /\ outputRefs' = RefsAfterDiscard(os)
        /\ \/ DeferPowerOff /\ Pipelines({})
           \/ CommitPowerOff /\ Pipelines(Off)
           \/ AbortPowerOff /\ Pipelines({})
        /\ Supersede(On)
        /\ phase' \in {"dispatch", "fences"}
        /\ UNCHANGED <<bufferState, volitionVars, scanning, inFlight, scheduled,
                       watches, fenceSignals, rebased, delivered, completed,
                       rasterVars, flip, flipEvents, withheld, leases, gpuBusy>>
    BY <1>2 DEF ApplyPower
  <2>2. /\ os \in SUBSET Outputs /\ Off \subseteq powered /\ On \subseteq Outputs
        /\ \A o \in os : ready[o] # NoSlot
        /\ \A o \in Off : o \in os \/ ready[o] = NoSlot
    BY DEF DiscardedByPowerOff, Off, On, IInv, TypeOK, SchedulerTypeOK
  <2> HIDE DEF os
  <2>3. BufferInv' /\ GpuInv'
    <3>1. \A o \in Outputs, i \in Slots :
            outputRefs'[o][i] = outputRefs[o][i]
                - (IF Discarding(os, o, i) /\ fenceState[o][i] = "signaled" THEN 1 ELSE 0)
                - (IF o \in {} /\ i = scanning[o] THEN 1 ELSE 0)
      BY <2>1 DEF RefsAfterDiscard, IInv, TypeOK, BrokerTypeOK
    <3>2. \A o \in Outputs :
            /\ scanning'[o] = IF o \in {} THEN inFlight[o] ELSE scanning[o]
            /\ inFlight'[o] = IF o \in {} THEN NoSlot ELSE inFlight[o]
      BY <2>1
    <3>3. UNCHANGED <<bufferState, leases, gpuBusy, drawing, rasterizing, fenceSignals>>
      BY <2>1
    <3>4. {} \in SUBSET Outputs /\ \A o \in {} : inFlight[o] # NoSlot
      OBVIOUS
    <3> QED
      BY <2>1, <2>2, <3>1, <3>2, <3>3, <3>4, ReleaseInv
  <2>4. TypeOK'
    <3>1. outputRefs' \in [Outputs -> [Slots -> Nat]]
      <4>1. \A o \in Outputs, i \in Slots : outputRefs[o][i] \in Nat
        BY DEF IInv, TypeOK, BrokerTypeOK
      <4>2. \A o \in Outputs, i \in Slots :
                Discarding(os, o, i) /\ fenceState[o][i] = "signaled" => outputRefs[o][i] > 0
        BY <2>1 DEF Discarding, DiscardFails, Releasable
      <4>3. \A o \in Outputs, i \in Slots :
                (IF Discarding(os, o, i) /\ fenceState[o][i] = "signaled"
                 THEN outputRefs[o][i] - 1 ELSE outputRefs[o][i]) \in Nat
        BY <4>1, <4>2
      <4> QED
        BY <2>1, <4>3 DEF RefsAfterDiscard
    <3>2. BrokerTypeOK'
      BY <2>1, <3>1 DEF Supersede, IInv, TypeOK, BrokerTypeOK, Serials
    <3>3. /\ ready' \in [Outputs -> OptionalSlots]
          /\ fenceState' \in [Outputs -> [Slots -> FenceStates]]
          /\ fenceToken' \in [Outputs -> [Slots -> Tokens \union {NoToken}]]
      BY <2>1 DEF DiscardReady, IInv, TypeOK, SchedulerTypeOK, OptionalSlots, FenceStates
    <3>4. dirty' \subseteq Outputs
      BY <2>1, <2>2 DEF Supersede, IInv, TypeOK, SchedulerTypeOK
    <3>5. SchedulerTypeOK'
      BY <2>1, <3>3, <3>4, PowerOutcome DEF IInv, TypeOK, SchedulerTypeOK
    <3> QED
      BY <2>1, <3>2, <3>5, PowerOutcome DEF IInv, TypeOK, VolitionTypeOK, Phases
  <2>5. KmsInv'
    <3>1. ~rebased /\ ~rebased'
      BY <2>1 DEF IInv, KmsInv, RecoveryQuiesces
    <3>2. \A o \in Outputs : Flips(o)' = Flips(o) /\ Flips(o) \in Nat
      BY <2>1, FlipsType DEF Flips
    <3>3. \A o \in Outputs : ready'[o] = IF o \in os THEN NoSlot ELSE ready[o]
      BY <2>1 DEF DiscardReady
    <3>4. \A o \in Outputs :
            /\ front'[o] # NoSlot => front'[o] \in {scanning'[o], inFlight'[o]}
            /\ flip'[o] # NoSlot => flip'[o] = inFlight'[o] /\ Flips(o)' = 0
            /\ Flips(o)' > 0 /\ ~rebased' =>
                Flips(o)' = 1 /\ inFlight'[o] # NoSlot /\ front'[o] = inFlight'[o]
            /\ o \notin powered' => inFlight'[o] = NoSlot /\ ready'[o] = NoSlot
      <4> SUFFICES ASSUME NEW o \in Outputs
                   PROVE  /\ front'[o] # NoSlot => front'[o] \in {scanning'[o], inFlight'[o]}
                          /\ flip'[o] # NoSlot => flip'[o] = inFlight'[o] /\ Flips(o)' = 0
                          /\ Flips(o)' > 0 /\ ~rebased' =>
                              /\ Flips(o)' = 1 /\ inFlight'[o] # NoSlot
                              /\ front'[o] = inFlight'[o]
                          /\ o \notin powered' => inFlight'[o] = NoSlot /\ ready'[o] = NoSlot
        OBVIOUS
      <4>1. /\ front'[o] = front[o] \/ front'[o] \in {NoSlot, scanning[o]}
            /\ front'[o] # front[o] => inFlight[o] = NoSlot
            /\ o \notin powered' => o \notin powered \/ (o \in Off /\ inFlight[o] = NoSlot)
        BY <2>1, PowerOutcome
      <4>2. /\ front[o] # NoSlot => front[o] \in {scanning[o], inFlight[o]}
            /\ flip[o] # NoSlot => flip[o] = inFlight[o] /\ Flips(o) = 0
            /\ Flips(o) > 0 =>
                Flips(o) = 1 /\ inFlight[o] # NoSlot /\ front[o] = inFlight[o]
            /\ o \notin powered => inFlight[o] = NoSlot /\ ready[o] = NoSlot
        BY <3>1 DEF IInv, KmsInv, FlightsTracked
      <4>3. UNCHANGED <<scanning, inFlight, flip>>
        BY <2>1
      <4> QED
        BY <2>2, <3>2, <3>3, <4>1, <4>2, <4>3
    <3>5. \A j \in jobs : j.output \in Outputs
      BY DEF IInv, TypeOK, VolitionTypeOK, Jobs
    <3>6. UNCHANGED <<jobs, inFlight, flip>>
      BY <2>1
    <3>7. FlightsTracked'
      BY <3>2, <3>4, <3>5, <3>6 DEF IInv, KmsInv, FlightsTracked
    <3> QED
      BY <2>1, <3>1, <3>7 DEF KmsInv, RecoveryQuiesces
  <2> QED
    BY <2>3, <2>4, <2>5 DEF IInv
<1> QED
  BY <1>1, <1>2

-----------------------------------------------------------------------------
(* The theorems. *)

\* The initial states satisfy the inductive invariant.
LEMMA InitIInv == Init => IInv
<1> SUFFICES ASSUME Init PROVE IInv
  OBVIOUS
<1>0. 0 \in Slots
  BY SlotCountAssumption DEF Slots
<1>1. TypeOK
  <2>1. stream \in [Outputs -> Int]
    BY PositionType DEF Init, SchedulerInit
  <2>2. BrokerTypeOK
    BY DEF Init, BrokerInit, BrokerTypeOK, BufferStates, Serials
  <2>3. VolitionTypeOK
    BY DEF Init, VolitionInit, VolitionTypeOK
  <2>4. SchedulerTypeOK
    BY <1>0, <2>1 DEF Init, SchedulerInit, SchedulerTypeOK, OptionalSlots, WakeStates, FenceStates
  <2>5. interruptions \in 0 .. MaxInterruptions
    BY PresentationAssumption DEF Init
  <2>6. /\ leases \in [Outputs -> [Slots -> Nat]]
        /\ gpuBusy \in [Outputs -> [Slots -> BOOLEAN]]
    BY DEF Init
  <2> QED
    BY <1>0, <2>2, <2>3, <2>4, <2>5, <2>6 DEF Init, TypeOK, Phases, OptionalSlots
<1>2. BufferInv
  BY <1>0 DEF Init, BrokerInit, SchedulerInit, BufferInv, RefsExact, Held, ClaimsDisjoint,
              ProductionUnreferenced, FencesGuard, Slots, NoSlot
<1>3. GpuInv
  BY DEF Init, BrokerInit, SchedulerInit, GpuInv, GpuWorkGuarded, SignalsTrue,
         DrawingInTransaction
<1>4. KmsInv
  BY DEF Init, VolitionInit, SchedulerInit, KmsInv, FlightsTracked, Flips, RecoveryQuiesces
<1> QED
  BY <1>1, <1>2, <1>3, <1>4 DEF IInv

\* Every step preserves the inductive invariant.
LEMMA NextIInv == IInv /\ [Next]_vars => IInv'
<1> SUFFICES ASSUME IInv, [Next]_vars PROVE IInv'
  OBVIOUS
<1>1. CASE UNCHANGED vars
  <2>1. TypeOK'
    BY <1>1 DEF vars, IInv, TypeOK, BrokerTypeOK, VolitionTypeOK, SchedulerTypeOK
  <2> QED
    BY <1>1, <2>1, BufferFrame, GpuFrame, KmsFrame DEF vars, IInv
<1>2. CASE MainStep
  BY <1>1, <1>2, DispatchIInv, AckFenceIInv, AckVolitionIInv, RecoveriesIInv, RebuildIInv,
     HandleCompletionIInv, SubmitReadyIInv, SubmitWakeIInv, SubmitWakeFailedIInv,
     PublishIInv, AuthorizeIInv, AuthorizeFailedIInv, ApplyPowerIInv, NextPhaseIInv
  DEF MainStep, Terminated
<1>3. CASE RasterStep
  BY <1>3, StartRasterIInv, AcquireViewIInv, SkipViewIInv, PresentViewIInv,
     AbandonViewIInv, FinishRasterIInv
  DEF RasterStep
<1>4. CASE EnvironmentStep
  BY <1>4, RecoveriesIInv, NewDamageIInv, RetainForCaptureIInv, RequestPowerIInv,
     WithholdFlipIInv, KmsRefuseIInv
  DEF EnvironmentStep
<1>5. CASE \E o \in Outputs : \/ WorkerStep(o)
                              \/ Vblank(o)
                              \/ WakeRetryDue(o)
                              \/ \E i \in Slots : GpuComplete(o, i) \/ DropLease(o, i)
  BY <1>5, KmsAcceptIInv, KmsReportIInv, VblankIInv, WakeRetryDueIInv, GpuCompleteIInv,
     DropLeaseIInv
  DEF WorkerStep
<1> QED
  BY <1>1, <1>2, <1>3, <1>4, <1>5 DEF Next

\* The inductive invariant holds in every reachable state.
THEOREM Invariance == Spec => []IInv
BY InitIInv, NextIInv, PTL DEF Spec

\* Type correctness of the composition, for any number of outputs, buffers,
\* captures and failures.
THEOREM TypeCorrect == Spec => []TypeOK
<1>1. IInv => TypeOK
  BY DEF IInv
<1> QED
  BY <1>1, Invariance, PTL

\* output_refs counts exactly the claims of the scheduler and the captures, so
\* no framebuffer is ever leaked or freed under a reader.
THEOREM ReferencesExact == Spec => []RefsExact
<1>1. IInv => RefsExact
  BY DEF IInv, BufferInv
<1> QED
  BY <1>1, Invariance, PTL

\* KMS never shows, and is never about to show, a framebuffer that the raster
\* thread may write or whose rendering has not finished.
THEOREM ScanoutIsSafe == Spec => []ScanoutSafe
<1>1. IInv => ScanoutSafe
  <2> SUFFICES ASSUME IInv, NEW o \in Outputs, NEW i \in Slots, Scanned(o, i)
               PROVE  bufferState[o][i] = "Free" /\ ~gpuBusy[o][i]
    BY DEF ScanoutSafe
  <2>1. i = scanning[o] \/ i = inFlight[o]
    <3>1. i # NoSlot
      BY SlotCountAssumption DEF Slots, NoSlot
    <3> QED
      BY <3>1 DEF Scanned, IInv, KmsInv, FlightsTracked
  <2>2. bufferState[o][i] = "Free"
    <3>1. Held(o, i) /\ leases[o][i] \in Nat /\ outputRefs[o][i] \in Nat
      BY <2>1 DEF Held, IInv, TypeOK, BrokerTypeOK
    <3>2. outputRefs[o][i] > 0
      BY <3>1 DEF IInv, BufferInv, RefsExact
    <3> QED
      BY <3>2 DEF IInv, BufferInv, ProductionUnreferenced
  <2>3. fenceState[o][i] \notin {"pending", "discard"}
    <3>1. i # NoSlot
      BY SlotCountAssumption DEF Slots, NoSlot
    <3> QED
      BY <2>1, <3>1 DEF IInv, BufferInv, ClaimsDisjoint, FencesGuard
  <2> QED
    BY <2>2, <2>3 DEF IInv, GpuInv, GpuWorkGuarded
<1> QED
  BY <1>1, Invariance, PTL

\* A slot that acquire may claim is read by nobody and has no GPU work left.
LEMMA ClaimableIdle ==
    ASSUME IInv, NEW o \in Outputs, NEW i \in Slots, Claimable(o, i)
    PROVE  ~Scanned(o, i) /\ ~gpuBusy[o][i] /\ leases[o][i] = 0
<1>1. bufferState[o][i] = "Free" /\ outputRefs[o][i] = 0 /\ leases[o][i] \in Nat
  BY DEF Claimable, IInv, TypeOK
<1>2. leases[o][i] = 0 /\ ~Held(o, i)
  BY <1>1 DEF IInv, BufferInv, RefsExact
<1>3. ~Scanned(o, i)
  <2>1. i # NoSlot
    BY SlotCountAssumption DEF Slots, NoSlot
  <2> QED
    BY <1>2, <2>1 DEF Held, Scanned, IInv, KmsInv, FlightsTracked
<1>4. ~gpuBusy[o][i]
  BY <1>1, SlotUnfenced DEF IInv, GpuInv, GpuWorkGuarded
<1> QED
  BY <1>2, <1>3, <1>4

\* Only acquire makes a slot Rendering.
LEMMA OnlyAcquireRenders ==
    ASSUME TypeOK, [Next]_vars,
           NEW o \in Outputs, NEW i \in Slots,
           bufferState'[o][i] = "Rendering", bufferState[o][i] # "Rendering"
    PROVE  Claimable(o, i)
<1>0. bufferState \in [Outputs -> [Slots -> BufferStates]]
  BY DEF TypeOK, BrokerTypeOK
<1>1. CASE UNCHANGED vars
  BY <1>1 DEF vars
<1>2. CASE RasterStep
  <2>1. CASE StartRaster
    BY <1>0, <2>1 DEF StartRaster, BeginTransaction
  <2>2. CASE FinishRaster
    BY <1>0, <2>2 DEF FinishRaster, FinishTransaction
  <2>3. CASE \E p \in Outputs : AcquireView(p)
    BY <1>0, <2>3 DEF AcquireView, Acquire
  <2>4. CASE \E p \in Outputs : PresentView(p)
    BY <1>0, <2>4 DEF PresentView, MarkReady
  <2>5. CASE \E p \in Outputs : SkipView(p) \/ AbandonView(p)
    BY <2>5 DEF SkipView, AbandonView
  <2> QED
    BY <1>2, <2>1, <2>2, <2>3, <2>4, <2>5 DEF RasterStep
<1>3. CASE MainStep
  <2>1. CASE \E p \in Outputs, k \in Slots : Publish(p, k)
    <3>1. PICK p \in Outputs, k \in Slots :
            \/ bufferState' = [bufferState EXCEPT ![p][k] = "Free"]
            \/ UNCHANGED bufferState
      BY <2>1 DEF Publish, PublishReady, Exit, GoTo
    <3> QED
      BY <1>0, <3>1
  <2>2. CASE Rebuild
    BY <1>0, <2>2 DEF Rebuild
  <2>3. CASE UNCHANGED bufferState
    BY <2>3
  <2>4. ASSUME \/ Dispatch \/ RecoverRequested \/ RecoverStall \/ ApplyPower \/ NextPhase
               \/ Terminated
               \/ \E s \in fenceSignals : AckFence(s)
               \/ \E e \in delivered : AckVolition(e)
        PROVE  UNCHANGED bufferState
    BY <2>4 DEF Dispatch, RecoverRequested, RecoverStall, Recover, ApplyPower, NextPhase,
         Advance, Exit, Terminate, GoTo, Terminated, vars, AckFence, AcknowledgeReadyFence,
         AckVolition, AcknowledgeVolition
  <2>5. ASSUME \E p \in Outputs : \/ HandleCompletion(p) \/ SubmitReady(p)
                                  \/ SubmitWake(p) \/ SubmitWakeFailed(p)
        PROVE  UNCHANGED bufferState
    <3>1. CASE \E p \in Outputs : HandleCompletion(p)
      BY <3>1 DEF HandleCompletion, RetireCompletion, Exit, GoTo, brokerVars
    <3>2. CASE \E p \in Outputs : SubmitReady(p) \/ SubmitWake(p)
      BY <3>2 DEF SubmitReady, ScheduleReady, SubmitWake, WakeReady, TakeReady, brokerVars
    <3>3. CASE \E p \in Outputs : SubmitWakeFailed(p)
      BY <3>3 DEF SubmitWakeFailed, WakeFails, brokerVars
    <3> QED
      BY <2>5, <3>1, <3>2, <3>3
  <2>6. ASSUME \E ticks \in SUBSET Outputs : Authorize(ticks) \/ AuthorizeFailed(ticks)
        PROVE  UNCHANGED bufferState
    BY <2>6 DEF Authorize, ExpireAndAuthorize, AuthorizeFailed
  <2> QED
    BY <1>3, <2>1, <2>2, <2>3, <2>4, <2>5, <2>6 DEF MainStep
<1>4. CASE EnvironmentStep
  BY <1>4 DEF EnvironmentStep, RecoverWatchdog, Recover, NewDamage, RetainForCapture, Exit,
       GoTo, RequestPower, WithholdFlip, KmsRefuse
<1>5. CASE \E p \in Outputs : \/ WorkerStep(p)
                              \/ Vblank(p)
                              \/ WakeRetryDue(p)
                              \/ \E k \in Slots : GpuComplete(p, k) \/ DropLease(p, k)
  BY <1>5 DEF WorkerStep, KmsAccept, KmsReport, Vblank, WakeRetryDue, GpuComplete, DropLease
<1> QED
  BY <1>1, <1>2, <1>3, <1>4, <1>5 DEF Next

\* The raster thread never starts to draw into a framebuffer that is on screen,
\* on its way there, being captured, or still being drawn by the GPU.
THEOREM TargetsAreIdle == Spec => RenderTargetsAreIdle
<1>1. IInv /\ [Next]_vars => [NewTargetsIdle]_vars
  <2> SUFFICES ASSUME IInv, [Next]_vars PROVE NewTargetsIdle
    OBVIOUS
  <2>1. TypeOK
    BY DEF IInv
  <2> QED
    BY <2>1, OnlyAcquireRenders, ClaimableIdle DEF NewTargetsIdle
<1> QED
  BY <1>1, Invariance, PTL DEF Spec, RenderTargetsAreIdle

=============================================================================
