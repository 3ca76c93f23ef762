----------------------------- MODULE Presentation -----------------------------
(***************************************************************************)
(* The presentation path of the compositor as its threads run it: the      *)
(* main loop of flutter_event_loop.rs (one iteration is one pass through   *)
(* the phases below), Flutter's raster thread inside the renderer          *)
(* callbacks, the Volition worker, and, as environment, the GPU and KMS.   *)
(*                                                                         *)
(* Each step of the main loop handles one signal, event, completion,       *)
(* pipeline or frame, so the other threads interleave inside a pass.       *)
(***************************************************************************)
EXTENDS OutputScheduler

CONSTANTS
    Interruptions,      \* the failures and races this instance may meet
    MaxInterruptions,   \* how many of them one behaviour may meet
    Animated,           \* outputs whose content changes after the first frame
    PowerRequests,      \* <<output, "on" or "off">>: the power requests clients make
    MaxLeases           \* screen captures that hold a buffer at a time

InterruptionKinds ==
    {"expiry", "render_error", "blit_failure", "missed_edge", "kms_stall",
     "kms_failure", "withheld_flip", "early_watchdog", "wake_failure",
     "clear_failure", "cancelled_power_off"}

ASSUME PresentationAssumption ==
    /\ IsFiniteSet(Outputs) /\ Outputs \subseteq Nat
    /\ Interruptions \subseteq InterruptionKinds
    /\ MaxInterruptions \in Nat
    /\ Animated \subseteq Outputs
    /\ PowerRequests \subseteq Outputs \X {"on", "off"}
    /\ MaxLeases \in Nat

Phases == {"fences", "volition", "rebuild", "completions", "submit", "publish",
           "authorize", "resubmit", "power", "dispatch", "exited",
           "terminated"}

VARIABLES
    phase,               \* where the main loop is
    rebased,             \* RuntimeState::scanout_rebased
    recoveryRequested,   \* RuntimeState::kms_presentation_recovery_requested
    delivered,           \* RuntimeState::volition_events
    completed,           \* RuntimeState::completed_page_flips, per output
    powerRequests,       \* RuntimeState::output_power_requests
    leases,              \* OutputBufferLease objects per slot
    rasterizing,         \* a raster transaction is open
    requested,           \* outputs of the raster tasks queued in the engine
    views,               \* outputs the open transaction has yet to acquire
    drawing,             \* slot each output is being drawn into
    gpuBusy,             \* slots with unfinished GPU work
    front,               \* slot KMS scans out, NoSlot when the CRTC is off
    flip,                \* slot of the accepted commit that has not flipped
    flipEvents,          \* page-flip events in the DRM fd, per output
    withheld,            \* outputs whose accepted commit will never flip
    interruptions        \* interruptions met so far

loopVars == <<phase, rebased, recoveryRequested, delivered, completed, powerRequests>>
rasterVars == <<rasterizing, requested, views, drawing>>
kmsVars == <<front, flip, flipEvents, withheld>>
schedulerVars == <<frameVars, powerVars, fenceVars, dirty>>
vars == <<brokerVars, volitionVars, schedulerVars, loopVars, rasterVars,
          kmsVars, leases, gpuBusy, interruptions>>

\* The types of all state the composition keeps.
TypeOK ==
    /\ BrokerTypeOK
    /\ VolitionTypeOK
    /\ SchedulerTypeOK
    /\ phase \in Phases
    /\ rebased \in BOOLEAN
    /\ recoveryRequested \in BOOLEAN
    /\ delivered \subseteq Events
    /\ completed \in [Outputs -> Nat]
    /\ powerRequests \in [Outputs -> {"none", "on", "off"}]
    /\ leases \in [Outputs -> [Slots -> Nat]]
    /\ rasterizing \in BOOLEAN
    /\ requested \subseteq Outputs
    /\ views \subseteq Outputs
    /\ drawing \in [Outputs -> OptionalSlots]
    /\ gpuBusy \in [Outputs -> [Slots -> BOOLEAN]]
    /\ front \in [Outputs -> OptionalSlots]
    /\ flip \in [Outputs -> OptionalSlots]
    /\ flipEvents \in [Outputs -> Nat]
    /\ withheld \subseteq Outputs
    /\ interruptions \in 0 .. MaxInterruptions

Init ==
    /\ BrokerInit
    /\ VolitionInit
    /\ SchedulerInit(Outputs)
    /\ phase = "fences"
    /\ rebased = FALSE
    /\ recoveryRequested = FALSE
    /\ delivered = {}
    /\ completed = [o \in Outputs |-> 0]
    /\ powerRequests = [o \in Outputs |-> "none"]
    /\ leases = [o \in Outputs |-> [i \in Slots |-> 0]]
    /\ rasterizing = FALSE
    /\ requested = {}
    /\ views = {}
    /\ drawing = [o \in Outputs |-> NoSlot]
    /\ gpuBusy = [o \in Outputs |-> [i \in Slots |-> FALSE]]
    /\ front = [o \in Outputs |-> 0]
    /\ flip = [o \in Outputs |-> NoSlot]
    /\ flipEvents = [o \in Outputs |-> 0]
    /\ withheld = {}
    /\ interruptions = 0

\* An interruption of the given kind happens in this step.
Interrupt(kind) ==
    /\ kind \in Interruptions
    /\ interruptions < MaxInterruptions
    /\ interruptions' = interruptions + 1

\* The main loop moves on; the step changes nothing else.
GoTo(next) ==
    /\ phase' = next
    /\ UNCHANGED <<brokerVars, volitionVars, schedulerVars, rebased,
                   recoveryRequested, delivered, completed, powerRequests,
                   rasterVars, kmsVars, leases, gpuBusy, interruptions>>

\* An error return of the main loop ends the session: an internal check found
\* a state it does not expect, or KMS reported an error it cannot recover.
Exit == GoTo("exited")
Terminate == GoTo("terminated")

-----------------------------------------------------------------------------
(* The raster thread. *)

\* make_current of a raster task: the producer arbiter opens a transaction.
StartRaster ==
    /\ ~rasterizing
    /\ \E vs \in SUBSET requested :
        /\ vs # {}
        /\ views' = vs
        /\ requested' = requested \ vs
    /\ rasterizing' = TRUE
    /\ BeginTransaction
    /\ UNCHANGED <<volitionVars, schedulerVars, loopVars, drawing, kmsVars,
                   leases, gpuBusy, interruptions>>

\* create_backing_store: the view gets a slot, or Flutter skips it.
AcquireView(o) ==
    /\ rasterizing /\ o \in views
    /\ \A p \in Outputs : drawing[p] = NoSlot
    /\ \E i \in Slots :
        /\ Acquire(o, i)
        /\ drawing' = [drawing EXCEPT ![o] = i]
        /\ gpuBusy' = [gpuBusy EXCEPT ![o][i] = TRUE]
    /\ views' = views \ {o}
    /\ UNCHANGED <<volitionVars, schedulerVars, loopVars, rasterizing, requested,
                   kmsVars, leases, interruptions>>

SkipView(o) ==
    /\ rasterizing /\ o \in views
    /\ \A p \in Outputs : drawing[p] = NoSlot
    /\ AcquireBlocked(o)
    /\ views' = views \ {o}
    /\ UNCHANGED <<brokerVars, volitionVars, schedulerVars, loopVars,
                   rasterizing, requested, drawing, kmsVars, leases, gpuBusy,
                   interruptions>>

\* present: the slot is ready, behind its render fence.
PresentView(o) ==
    /\ rasterizing /\ drawing[o] # NoSlot
    /\ MarkReady(o, drawing[o])
    /\ drawing' = [drawing EXCEPT ![o] = NoSlot]
    /\ UNCHANGED <<volitionVars, schedulerVars, loopVars, rasterizing, requested,
                   views, kmsVars, leases, gpuBusy, interruptions>>

\* present whose copy to the scanout buffer fails: glFinish, and the slot
\* stays Rendering.  A render fence that cannot be made or exported leaves the
\* slot in the same state and sends FatalRender, which ends the session: a
\* session that ends so is not modelled.
AbandonView(o) ==
    /\ rasterizing /\ drawing[o] # NoSlot
    /\ Interrupt("blit_failure")
    /\ drawing' = [drawing EXCEPT ![o] = NoSlot]
    /\ gpuBusy' = [gpuBusy EXCEPT ![o][drawing[o]] = FALSE]
    /\ UNCHANGED <<brokerVars, volitionVars, schedulerVars, loopVars,
                   rasterizing, requested, views, kmsVars, leases>>

\* raster_idle, the sentinel behind the raster task.
FinishRaster ==
    /\ rasterizing /\ views = {}
    /\ \A o \in Outputs : drawing[o] = NoSlot
    /\ rasterizing' = FALSE
    /\ FinishTransaction
    /\ UNCHANGED <<volitionVars, schedulerVars, loopVars, requested, views,
                   drawing, kmsVars, leases, gpuBusy, interruptions>>

RasterStep ==
    \/ StartRaster
    \/ FinishRaster
    \/ \E o \in Outputs :
        AcquireView(o) \/ SkipView(o) \/ PresentView(o) \/ AbandonView(o)

\* The GPU finishes the commands of a presented slot.
GpuComplete(o, i) ==
    /\ gpuBusy[o][i] /\ drawing[o] # i
    /\ gpuBusy' = [gpuBusy EXCEPT ![o][i] = FALSE]
    /\ UNCHANGED <<brokerVars, volitionVars, schedulerVars, loopVars, rasterVars,
                   kmsVars, leases, interruptions>>

-----------------------------------------------------------------------------
(* The Volition worker and KMS. *)

\* A nonblocking commit is refused (EBUSY) while the previous one of the CRTC
\* has not flipped.
KmsAccept(j) ==
    /\ AcceptJob(j)
    /\ flip[j.output] = NoSlot
    /\ flip' = [flip EXCEPT ![j.output] = j.slot]
    /\ UNCHANGED <<brokerVars, schedulerVars, loopVars, rasterVars, front,
                   flipEvents, withheld, leases, gpuBusy, interruptions>>

KmsReport(j) ==
    /\ ReportSubmitted(j)
    /\ UNCHANGED <<brokerVars, schedulerVars, loopVars, rasterVars, kmsVars,
                   leases, gpuBusy, interruptions>>

KmsRefuse(j) ==
    /\ \/ RefuseJob(j, "Stalled") /\ Interrupt("kms_stall")
       \/ RefuseJob(j, "Failed") /\ Interrupt("kms_failure")
    /\ UNCHANGED <<brokerVars, schedulerVars, loopVars, rasterVars, kmsVars,
                   leases, gpuBusy>>

\* The edge: the accepted slot is on screen, and its event is readable.
Vblank(o) ==
    /\ flip[o] # NoSlot /\ o \notin withheld
    /\ front' = [front EXCEPT ![o] = flip[o]]
    /\ flip' = [flip EXCEPT ![o] = NoSlot]
    /\ flipEvents' = [flipEvents EXCEPT ![o] = @ + 1]
    /\ UNCHANGED <<brokerVars, volitionVars, schedulerVars, loopVars, rasterVars,
                   withheld, leases, gpuBusy, interruptions>>

\* A link that is still training accepts a commit and withholds its flip.
WithholdFlip(o) ==
    /\ flip[o] # NoSlot /\ o \notin withheld
    /\ Interrupt("withheld_flip")
    /\ withheld' = withheld \union {o}
    /\ UNCHANGED <<brokerVars, volitionVars, schedulerVars, loopVars, rasterVars,
                   front, flip, flipEvents, leases, gpuBusy>>

-----------------------------------------------------------------------------
(* The main loop: acknowledgements. *)

\* event_loop.dispatch: the fences that signaled, the outcomes that Volition
\* reported and the page flips that happened reach the queues of the loop.  A
\* watch of a replaced scheduler may signal late.
Dispatch ==
    /\ phase = "dispatch"
    /\ \E late \in SUBSET {w \in watches : fenceToken[w.output][w.slot] # w.token} :
        LET fired == late \union
                {w \in watches : /\ fenceToken[w.output][w.slot] = w.token
                                 /\ ~gpuBusy[w.output][w.slot]}
        IN /\ fenceSignals' = fenceSignals \union fired
           /\ watches' = watches \ fired
    /\ delivered' = delivered \union volitionEvents
    /\ volitionEvents' = {}
    /\ completed' = [o \in Outputs |-> completed[o] + flipEvents[o]]
    /\ flipEvents' = [o \in Outputs |-> 0]
    /\ phase' = "fences"
    /\ UNCHANGED <<brokerVars, jobs, instance, frameVars, powerVars, fenceState,
                   fenceToken, dirty, rebased, recoveryRequested, powerRequests,
                   rasterVars, front, flip, withheld, leases, gpuBusy,
                   interruptions>>

AckFence(s) ==
    /\ phase = "fences" /\ ~recoveryRequested /\ s \in fenceSignals
    /\ \/ AcknowledgeReadyFence(s)
          /\ UNCHANGED <<loopVars, rasterVars, kmsVars, leases, gpuBusy,
                         interruptions>>
       \/ AcknowledgeFails(s) /\ Exit

\* Mutant: a stall is read and forgotten.
Stalls_Forgotten == {}

\* The stalls that the pass over the events has met.
Stalls == {e \in delivered : Owns(e) /\ e.kind = "Stalled"}

AckVolition(e) ==
    /\ phase = "volition" /\ e \in delivered \ Stalls
    /\ \/ AcknowledgeVolition(e)
          /\ delivered' = delivered \ {e}
          /\ UNCHANGED <<phase, rebased, recoveryRequested, completed,
                         powerRequests, rasterVars, kmsVars, leases, gpuBusy,
                         interruptions>>
       \/ AcknowledgeVolitionFails(e) /\ Exit
       \/ KmsFailed(e) /\ Terminate

CompletionsHandled == \A o \in Outputs : completed[o] = 0 \/ Deferred(o)

\* shutdown_volition and recover_stalled_kms_presentation: the worker is
\* joined and every CRTC is disabled; the next pass rebuilds the topology.
\* unread is left of the queue of the loop.  A recovery that KMS refuses
\* dispatches the loop before it retries, which receives the worker's events.
Recover(unread) ==
    /\ \E received \in {{}, EventsAtShutdown} :
        /\ ShutdownVolition(EventsAtShutdown \ received)
        /\ delivered' = unread \union received
    /\ front' = [o \in Outputs |-> NoSlot]
    /\ flip' = [o \in Outputs |-> NoSlot]
    /\ withheld' = {}
    /\ completed' = [o \in Outputs |-> 0]
    /\ rebased' = TRUE
    /\ recoveryRequested' = FALSE
    /\ phase' = "fences"
    /\ UNCHANGED <<brokerVars, schedulerVars, powerRequests, rasterVars,
                   flipEvents, leases, gpuBusy>>

RecoverRequested ==
    /\ phase = "fences" /\ recoveryRequested
    /\ Recover(delivered)
    /\ UNCHANGED interruptions

RecoverStall ==
    /\ phase = "volition" /\ delivered = Stalls /\ Stalls # {}
    /\ Recover({})
    /\ UNCHANGED interruptions

\* presentation_stall: a submitted commit has not been retired for
\* PRESENTATION_STALL_TIMEOUT, because its flip is withheld or merely late.
RecoverWatchdog ==
    /\ phase = "completions" /\ CompletionsHandled
    /\ \E o \in powered : Submitted(o)
    /\ \/ (\E o \in powered : Submitted(o) /\ o \in withheld) /\ UNCHANGED interruptions
       \/ Interrupt("early_watchdog")
    /\ Recover(delivered)

\* The topology transaction after a recovery: new buffer pools, runtime and
\* scheduler.  Its own modeset waits for the page flips it asks for, which
\* empties the DRM fd; watches and Volition's events of the old scheduler
\* stay in their queues.
Rebuild ==
    /\ phase = "rebuild"
    /\ bufferState' = [o \in Outputs |-> [i \in Slots |-> "Free"]]
    /\ outputRefs' = [o \in Outputs |-> [i \in Slots |-> IF i = 0 THEN 1 ELSE 0]]
    /\ slotSerial' = [o \in Outputs |-> [i \in Slots |-> "superseded"]]
    /\ authorized' = [o \in Outputs |-> "none"]
    /\ instance' = instance + 1
    /\ stream' = [o \in Outputs |-> Position(o, powered)]
    /\ scanning' = [o \in Outputs |-> 0]
    /\ ready' = [o \in Outputs |-> NoSlot]
    /\ inFlight' = [o \in Outputs |-> NoSlot]
    /\ scheduled' = [o \in Outputs |-> NoCommit]
    /\ poweringOff' = {}
    /\ wakeModeset' = [o \in Outputs |-> "none"]
    /\ fenceState' = [o \in Outputs |-> [i \in Slots |-> "none"]]
    /\ fenceToken' = [o \in Outputs |-> [i \in Slots |-> NoToken]]
    /\ dirty' = powered
    /\ completed' = [o \in Outputs |-> 0]
    /\ flipEvents' = [o \in Outputs |-> 0]
    /\ front' = [o \in Outputs |-> IF o \in powered THEN 0 ELSE NoSlot]
    /\ leases' = [o \in Outputs |-> [i \in Slots |-> 0]]
    /\ gpuBusy' = [o \in Outputs |-> [i \in Slots |-> FALSE]]
    /\ rasterizing' = FALSE
    /\ requested' = {}
    /\ views' = {}
    /\ drawing' = [o \in Outputs |-> NoSlot]
    /\ rebased' = FALSE
    /\ phase' = "fences"
    /\ UNCHANGED <<jobs, volitionEvents, powered, watches, fenceSignals,
                   recoveryRequested, delivered, powerRequests, flip, withheld,
                   interruptions>>

-----------------------------------------------------------------------------
(* The main loop: completions, submission and publication. *)

HandleCompletion(o) ==
    /\ phase = "completions" /\ completed[o] > 0 /\ ~Deferred(o)
    /\ \/ /\ StaleCompletion(o)
          /\ completed' = [completed EXCEPT ![o] = @ - 1]
          /\ UNCHANGED <<brokerVars, volitionVars, schedulerVars, phase, rebased,
                         recoveryRequested, delivered, powerRequests, rasterVars,
                         kmsVars, leases, gpuBusy, interruptions>>
       \/ \E drop \in BOOLEAN :
            /\ RetireCompletion(o, drop)
            /\ IF drop THEN Interrupt("missed_edge") ELSE UNCHANGED interruptions
            /\ completed' = [completed EXCEPT ![o] = @ - 1]
            /\ UNCHANGED <<phase, rebased, recoveryRequested, delivered,
                           powerRequests, rasterVars, kmsVars, leases, gpuBusy>>
       \/ Submitted(o) /\ RetireFails(o, FALSE) /\ Exit

\* Both passes of submit_ready_frames over the pipelines.
SubmitPhase == phase \in {"submit", "resubmit"}

SubmitReady(o) ==
    /\ SubmitPhase
    /\ ScheduleReady(o)
    /\ UNCHANGED <<loopVars, rasterVars, kmsVars, leases, gpuBusy, interruptions>>

\* The enabling modeset puts the slot on screen; its flip event follows.
SubmitWake(o) ==
    /\ SubmitPhase
    /\ WakeReady(o)
    /\ flip' = [flip EXCEPT ![o] = ready[o]]
    /\ UNCHANGED <<loopVars, rasterVars, front, flipEvents, withheld, leases,
                   gpuBusy, interruptions>>

\* A repeated failure past DPMS_WAKE_RECOVERY_TIMEOUT asks for a recovery.
SubmitWakeFailed(o) ==
    /\ SubmitPhase
    /\ WakeFails(o)
    /\ Interrupt("wake_failure")
    /\ \/ UNCHANGED recoveryRequested
       \/ wakeModeset[o] = "retry" /\ recoveryRequested' = TRUE
    /\ UNCHANGED <<phase, rebased, delivered, completed, powerRequests,
                   rasterVars, kmsVars, leases, gpuBusy>>

\* retry_at passes.
WakeRetryDue(o) ==
    /\ wakeModeset[o] = "backoff"
    /\ wakeModeset' = [wakeModeset EXCEPT ![o] = "retry"]
    /\ UNCHANGED <<brokerVars, volitionVars, frameVars, powered, stream,
                   poweringOff, fenceVars, dirty, loopVars, rasterVars, kmsVars,
                   leases, gpuBusy, interruptions>>

\* take_ready_frame takes a queued frame whose output can hand it over.
Takeable(o, i) == bufferState[o][i] = "Pending" /\ ReadyHandoffAvailable(o)

Publish(o, i) ==
    /\ phase = "publish" /\ Takeable(o, i)
    /\ \/ PublishReady(o, i)
          /\ UNCHANGED <<loopVars, rasterVars, kmsVars, leases, gpuBusy,
                         interruptions>>
       \/ PublishFails(o, i) /\ Exit

-----------------------------------------------------------------------------
(* The main loop: damage, and the frame authorization of the timelines. *)

\* collect_flutter_output_damage, before the output ticks are consumed.
NewDamage(o) ==
    /\ phase = "authorize" /\ o \in Animated
    /\ Supersede({o})
    /\ UNCHANGED <<bufferState, outputRefs, volitionVars, frameVars, powerVars,
                   fenceVars, loopVars, rasterVars, kmsVars, leases, gpuBusy,
                   interruptions>>

\* The outputs that the step may render: a tick of their timeline is due, they
\* are dirty, and both the pipeline and the broker have room.
Renderable(expired) ==
    {o \in dirty \intersect powered : RenderAvailable(o) /\ TargetAvailable(o, expired)}

\* with_frame_readiness, step_with_output_availability and
\* render_authorized_outputs.
Authorize(ticks) ==
    /\ phase = "authorize"
    /\ \E expired \in SUBSET {o \in Outputs : authorized[o] # "none"} :
        LET due == ticks \intersect Renderable(expired) IN
        /\ IF expired = {} THEN UNCHANGED interruptions ELSE Interrupt("expiry")
        /\ ExpireAndAuthorize(expired, due)
        /\ requested' = requested \union due
    /\ phase' = "resubmit"
    /\ UNCHANGED <<volitionVars, schedulerVars, rebased, recoveryRequested,
                   delivered, completed, powerRequests, rasterizing, views, drawing,
                   kmsVars, leases, gpuBusy>>

\* The engine refuses render_outputs, or there is no baton for it: the
\* authorizations are cancelled, every powered output is dirty again, and the
\* loop starts over.  When it is on_vsync that fails, render_outputs has been
\* accepted and the views stay requested without an authorization.
AuthorizeFailed(ticks) ==
    /\ phase = "authorize"
    /\ ticks \intersect Renderable({}) # {}
    /\ Interrupt("render_error")
    /\ Supersede(powered)
    /\ requested' \in {requested, requested \union (ticks \intersect Renderable({}))}
    /\ phase' = "fences"
    /\ UNCHANGED <<bufferState, outputRefs, volitionVars, frameVars, powerVars,
                   fenceVars, rebased, recoveryRequested, delivered, completed,
                   powerRequests, rasterizing, views, drawing, kmsVars, leases,
                   gpuBusy>>

-----------------------------------------------------------------------------
(* The main loop: screen capture and output power. *)

\* process_screencopies_at_tick retains the scanning slot for a capture.
RetainForCapture(o) ==
    /\ phase = "power"
    /\ o \in powered \ poweringOff
    /\ \/ /\ Retainable(o, scanning[o])
          /\ leases[o][scanning[o]] < MaxLeases
          /\ outputRefs' = [outputRefs EXCEPT ![o][scanning[o]] = @ + 1]
          /\ leases' = [leases EXCEPT ![o][scanning[o]] = @ + 1]
          /\ UNCHANGED <<bufferState, slotSerial, authorized, volitionVars,
                         schedulerVars, loopVars, rasterVars, kmsVars, gpuBusy,
                         interruptions>>
       \/ MaxLeases > 0 /\ ~Retainable(o, scanning[o]) /\ Exit

\* Drop of an OutputBufferLease when the copy has finished.
DropLease(o, i) ==
    /\ leases[o][i] > 0
    /\ outputRefs[o][i] > 0
    /\ outputRefs' = [outputRefs EXCEPT ![o][i] = @ - 1]
    /\ leases' = [leases EXCEPT ![o][i] = @ - 1]
    /\ UNCHANGED <<bufferState, slotSerial, authorized, volitionVars,
                   schedulerVars, loopVars, rasterVars, kmsVars, gpuBusy,
                   interruptions>>

\* A power request replaces a pending one of the same output.
RequestPower(o, power) ==
    /\ phase = "power" /\ <<o, power>> \in PowerRequests
    /\ powerRequests[o] # power
    /\ power = "on" <=> o \notin powered \/ powerRequests[o] = "off"
    /\ IF power = "on" /\ o \in powered
       THEN Interrupt("cancelled_power_off") ELSE UNCHANGED interruptions
    /\ powerRequests' = [powerRequests EXCEPT ![o] = power]
    /\ UNCHANGED <<brokerVars, volitionVars, schedulerVars, phase, rebased,
                   recoveryRequested, delivered, completed, rasterVars, kmsVars,
                   leases, gpuBusy>>

Off == {o \in powered : powerRequests[o] = "off"}
On == {o \in Outputs \ powered : powerRequests[o] = "on"}
Cancelled == {o \in powered : powerRequests[o] = "on"}

\* Mutant: pipelines are removed with their frames in flight.
PowerOffWaits_Never == FALSE

\* A frame of the batch is still in Volition or KMS.
PowerOffWaits == \E o \in Off : inFlight[o] # NoSlot

\* begin_power_off stops the pipelines of the batch and discards their ready
\* frames; a request for an output that is already on resumes its pipeline.
DiscardedByPowerOff == {o \in Off : ready[o] # NoSlot}

\* Mutant: the requests of a waiting batch are not queued again.
DeferPowerOff_Forgotten ==
    /\ PowerOffWaits
    /\ poweringOff' = (poweringOff \ Cancelled) \union Off
    /\ powerRequests' = [o \in Outputs |-> "none"]
    /\ UNCHANGED <<front, recoveryRequested, interruptions>>

\* The batch waits for its frames in flight: the requests stay queued.
DeferPowerOff ==
    /\ PowerOffWaits
    /\ poweringOff' = (poweringOff \ Cancelled) \union Off
    /\ powerRequests' = [o \in Outputs |-> IF o \in Off THEN "off" ELSE "none"]
    /\ UNCHANGED <<front, recoveryRequested, interruptions>>

\* Every CRTC of the batch is cleared and power_off parks the scanning slots.
CommitPowerOff ==
    /\ ~PowerOffWaits
    /\ poweringOff' = (poweringOff \ Cancelled) \ Off
    /\ powerRequests' = [o \in Outputs |-> "none"]
    /\ front' = [o \in Outputs |-> IF o \in Off THEN NoSlot ELSE front[o]]
    /\ UNCHANGED <<recoveryRequested, interruptions>>

\* Mutant: the CRTCs already cleared are left dark.
AbortPowerOff_NoRestore ==
    /\ ~PowerOffWaits
    /\ Interrupt("clear_failure")
    /\ poweringOff' = (poweringOff \ Cancelled) \ Off
    /\ powerRequests' = [o \in Outputs |-> "none"]
    /\ \E cleared \in SUBSET Off :
        /\ cleared # Off
        /\ front' = [o \in Outputs |-> IF o \in cleared THEN NoSlot ELSE front[o]]
    /\ UNCHANGED recoveryRequested

\* Clearing one CRTC fails: those already cleared show their scanning slot
\* again, and the batch is cancelled.  A failed restore asks for a recovery.
AbortPowerOff ==
    /\ ~PowerOffWaits
    /\ Interrupt("clear_failure")
    /\ poweringOff' = (poweringOff \ Cancelled) \ Off
    /\ powerRequests' = [o \in Outputs |-> "none"]
    /\ \E cleared \in SUBSET Off : \E dark \in SUBSET cleared :
        /\ cleared # Off
        /\ front' = [o \in Outputs |-> IF o \in dark THEN NoSlot
                                       ELSE IF o \in cleared THEN scanning[o]
                                       ELSE front[o]]
        /\ recoveryRequested' = (recoveryRequested \/ dark # {})

\* Mutant: a woken pipeline forgets that its CRTC is off.
Pipelines_NoWake(gone) ==
    /\ powered' = (powered \ gone) \union On
    /\ stream' = [o \in Outputs |->
            IF o \in On THEN Cardinality(powered \ gone) + Position(o, On)
            ELSE stream[o] - Cardinality({p \in gone : stream[p] < stream[o]})]
    /\ wakeModeset' = [o \in Outputs |-> "none"]

\* The pipelines after the batch: those of gone are removed, which moves the
\* later ones down, and power_on appends the parked outputs asked for.
Pipelines(gone) ==
    /\ powered' = (powered \ gone) \union On
    /\ stream' = [o \in Outputs |->
            IF o \in On THEN Cardinality(powered \ gone) + Position(o, On)
            ELSE stream[o] - Cardinality({p \in gone : stream[p] < stream[o]})]
    /\ wakeModeset' = [o \in Outputs |->
            IF o \in On THEN "fresh"
            ELSE IF o \in gone THEN "none" ELSE wakeModeset[o]]

\* apply_output_power_requests, and the timeline reconfiguration after it,
\* which makes the woken outputs dirty.  A change of power is published by
\* another pass, before the next dispatch.  The error returns of power_off and
\* power_on repeat conditions the same call has selected the output by (nothing
\* in flight, a framebuffer parked), with no other actor in between, so the one
\* error that ends the session here is a failed discard.
ApplyPower ==
    /\ phase = "power" /\ \E o \in Outputs : powerRequests[o] # "none"
    /\ \/ DiscardFails(DiscardedByPowerOff) /\ Exit
       \/ /\ ~DiscardFails(DiscardedByPowerOff)
          /\ DiscardReady(DiscardedByPowerOff)
          /\ outputRefs' = RefsAfterDiscard(DiscardedByPowerOff)
          /\ \/ DeferPowerOff /\ Pipelines({})
             \/ CommitPowerOff /\ Pipelines(Off)
             \/ AbortPowerOff /\ Pipelines({})
          /\ Supersede(On)
          /\ phase' = IF powered' = powered THEN "dispatch" ELSE "fences"
          /\ UNCHANGED <<bufferState, volitionVars, scanning, inFlight, scheduled,
                         watches, fenceSignals, rebased, delivered, completed,
                         rasterVars, flip, flipEvents, withheld, leases, gpuBusy>>

-----------------------------------------------------------------------------
(* The main loop: the order of the phases. *)

NothingToSubmit ==
    \A o \in Outputs : Submittable(o) =>
        \/ wakeModeset[o] = "backoff"
        \/ wakeModeset[o] = "none" /\ Backpressured

Advance(done, next) == done /\ GoTo(next)

NextPhase ==
    \/ /\ phase = "fences" /\ ~recoveryRequested
       /\ Advance(fenceSignals = {}, "volition")
    \/ /\ phase = "volition"
       /\ Advance(delivered = {}, IF rebased THEN "rebuild" ELSE "completions")
    \/ phase = "completions" /\ Advance(CompletionsHandled, "submit")
    \/ phase = "submit" /\ Advance(NothingToSubmit, "publish")
    \/ /\ phase = "publish"
       /\ Advance(\A o \in Outputs, i \in Slots : ~Takeable(o, i), "authorize")
    \/ phase = "resubmit" /\ Advance(NothingToSubmit, "power")
    \/ /\ phase = "power"
       /\ Advance(\A o \in Outputs : powerRequests[o] = "none", "dispatch")

\* The session is over.
Terminated == phase = "terminated" /\ UNCHANGED vars

MainStep ==
    \/ Dispatch
    \/ \E s \in fenceSignals : AckFence(s)
    \/ \E e \in delivered : AckVolition(e)
    \/ RecoverRequested
    \/ RecoverStall
    \/ Rebuild
    \/ \E o \in Outputs : \/ HandleCompletion(o)
                          \/ SubmitReady(o)
                          \/ SubmitWake(o)
                          \/ SubmitWakeFailed(o)
                          \/ \E i \in Slots : Publish(o, i)
    \/ \E ticks \in SUBSET Outputs : Authorize(ticks) \/ AuthorizeFailed(ticks)
    \/ ApplyPower
    \/ NextPhase
    \/ Terminated

\* What the compositor's clients and the hardware may do at any time.
EnvironmentStep ==
    \/ RecoverWatchdog
    \/ \E o \in Outputs : \/ NewDamage(o)
                          \/ RetainForCapture(o)
                          \/ \E power \in {"on", "off"} : RequestPower(o, power)
                          \/ WithholdFlip(o)
    \/ \E j \in jobs : KmsRefuse(j)

WorkerStep(o) ==
    \E j \in jobs : j.output = o /\ (KmsAccept(j) \/ KmsReport(j))

Next ==
    \/ MainStep
    \/ RasterStep
    \/ EnvironmentStep
    \/ \E o \in Outputs : \/ WorkerStep(o)
                          \/ Vblank(o)
                          \/ WakeRetryDue(o)
                          \/ \E i \in Slots : GpuComplete(o, i) \/ DropLease(o, i)

Spec == Init /\ [][Next]_vars

\* Every tick of a timeline is served within one interval: an output that stays
\* renderable is authorized.
AuthorizeOutput(o) ==
    \E ticks \in SUBSET Outputs :
        o \in ticks \intersect Renderable({}) /\ Authorize(ticks)

\* The watchdog timer of a withheld flip fires.
WatchdogFires ==
    (\E o \in powered : Submitted(o) /\ o \in withheld) /\ RecoverWatchdog

\* The main loop always returns from dispatch, because a timeline deadline
\* bounds its timeout; every thread runs; the GPU, the captures and the CRTCs
\* that are not withheld make progress.
Fairness ==
    /\ WF_vars(MainStep)
    /\ WF_vars(RasterStep)
    /\ SF_vars(WatchdogFires)
    /\ \A o \in Outputs :
        /\ SF_vars(AuthorizeOutput(o))
        /\ WF_vars(WorkerStep(o))
        /\ WF_vars(Vblank(o))
        /\ WF_vars(WakeRetryDue(o))
        /\ WF_vars(\E i \in Slots : GpuComplete(o, i))
        /\ WF_vars(\E i \in Slots : DropLease(o, i))

FairSpec == Spec /\ Fairness

-----------------------------------------------------------------------------
(* Safety. *)

\* The scanout hardware reads slot i of o, or is about to: KMS shows it, has
\* accepted it, or Volition is about to commit it.
Scanned(o, i) ==
    \/ front[o] = i
    \/ flip[o] = i
    \/ \E j \in jobs : j.output = o /\ j.slot = i /\ ~j.accepted

\* No slot that KMS shows, has accepted, or will be given by Volition is in
\* production by the raster thread, or still has unfinished GPU work: pages
\* never flip to an incomplete frame and never change while they are shown.
ScanoutSafe ==
    \A o \in Outputs, i \in Slots :
        Scanned(o, i) => bufferState[o][i] = "Free" /\ ~gpuBusy[o][i]

\* The scheduler's claims on slot i of o: on screen or parked, in Volition or
\* KMS, ready, or discarded while its fence is pending.
Held(o, i) ==
    \/ scanning[o] = i
    \/ inFlight[o] = i
    \/ ready[o] = i
    \/ fenceState[o][i] = "discard"

\* output_refs counts exactly the scheduler's claim and the capture leases,
\* so no slot leaks and none is freed while it is claimed.
RefsExact ==
    \A o \in Outputs, i \in Slots :
        outputRefs[o][i] = leases[o][i] + (IF Held(o, i) THEN 1 ELSE 0)

\* The main loop never takes one of its error returns: every publication,
\* release, retain and acknowledgement finds the state it requires.
SessionSurvives == phase # "exited"

\* Outside a recovery, an output with nothing in flight shows the slot that
\* its pipeline believes is scanning, and KMS has no flip of its own left.
SchedulerAgreesWithKms ==
    rebased \/ recoveryRequested \/ \A o \in powered :
        inFlight[o] = NoSlot =>
            /\ flip[o] = NoSlot
            /\ wakeModeset[o] = "none" => front[o] = scanning[o]

\* The slots that this step makes render targets are idle.
NewTargetsIdle ==
    \A o \in Outputs, i \in Slots :
        bufferState'[o][i] = "Rendering" /\ bufferState[o][i] # "Rendering" =>
            /\ ~Scanned(o, i)
            /\ ~gpuBusy[o][i]
            /\ leases[o][i] = 0

\* A slot becomes a render target only when KMS, Volition and the captures do
\* not read it and its earlier GPU work is over.
RenderTargetsAreIdle == [][NewTargetsIdle]_vars

-----------------------------------------------------------------------------
(* Liveness, under Fairness. *)

\* The screen of o shows its latest damage.
UpToDate(o) == front[o] # NoSlot /\ slotSerial[o][front[o]] = "latest"

\* Once the damage and the power requests of an output stop, its latest
\* content reaches the screen, or the output is off.
ScreenCatchesUp ==
    \A o \in Outputs :
        \/ []<>(UpToDate(o) \/ o \notin powered)
        \/ []<><<NewDamage(o)>>_vars
        \/ []<><<\E power \in {"on", "off"} : RequestPower(o, power)>>_vars

\* No frame stays in Volition or KMS for ever: it is retired by its flip, or
\* a stall or withheld flip ends in a rebuilt scheduler.
FramesRetire == \A o \in Outputs : inFlight[o] # NoSlot ~> inFlight[o] = NoSlot

\* A power-off that waits for frames in flight is neither forgotten nor starved
\* by new frames: the output goes off, unless it is asked to stay on.  (The
\* instance has no CRTC that fails to clear.)
PowerOffCompletes ==
    \A o \in Outputs :
        powerRequests[o] = "off" ~> o \notin powered \/ powerRequests[o] = "on"

=============================================================================
