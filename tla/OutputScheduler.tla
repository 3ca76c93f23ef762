--------------------------- MODULE OutputScheduler ---------------------------
(***************************************************************************)
(* The per-output presentation pipelines of the compositor thread          *)
(* (compositor output_scheduler.rs): which slot of each output is          *)
(* scanning, which is in Volition or KMS, which is ready behind it, and    *)
(* the render fence that guards each published slot.                       *)
(*                                                                         *)
(* A pipeline exists exactly for the powered outputs; the position of a    *)
(* pipeline in the vector is stream[o].  Operators ending in "Fails" are   *)
(* the error returns, which end the session.                               *)
(***************************************************************************)
EXTENDS Volition

CONSTANT Tokens        \* identities of render-fence watches; 0 is none

ASSUME TokensAssumption == Tokens \subseteq Nat \ {0}

NoSlot == -1
NoCommit == [stream |-> 0, frame |-> NoSlot]
NoToken == 0

OptionalSlots == Slots \union {NoSlot}

\* ReadyFenceSlot: unclaimed, waiting for the GPU, signaled, or waiting for
\* the GPU with its only user already discarded (discard_users_on_signal).
FenceStates == {"none", "pending", "signaled", "discard"}

\* wake_modeset: absent, not attempted yet, waiting for retry_at after a
\* failure, or due again after a failure.
WakeStates == {"none", "fresh", "backoff", "retry"}

Signals == [output : Outputs, slot : Slots, token : Tokens]

VARIABLES
    powered,        \* the outputs with a pipeline; the others are parked
    stream,         \* position of a pipeline in OutputScheduler::pipelines
    scanning,       \* slot on screen, or parked
    ready,          \* OutputPipelineFrames::ready
    inFlight,       \* slot of OutputPipelineFrames::in_flight
    scheduled,      \* commit of an InFlightFrame::Scheduled, NoCommit otherwise
    poweringOff,    \* pipelines stopped for power-off
    wakeModeset,    \* OutputPipeline::wake_modeset
    fenceState,     \* ready_fences
    fenceToken,     \* ReadyFenceSlot::token
    watches,        \* fence fds registered with the event loop
    fenceSignals,   \* RuntimeState::ready_fence_signals
    dirty           \* FrameScheduler::dirty_outputs

fenceVars == <<fenceState, fenceToken, watches, fenceSignals>>

frameVars == <<scanning, ready, inFlight, scheduled>>

powerVars == <<powered, stream, poweringOff, wakeModeset>>

SchedulerTypeOK ==
    /\ powered \subseteq Outputs
    /\ stream \in [Outputs -> Int]
    /\ scanning \in [Outputs -> Slots]
    /\ ready \in [Outputs -> OptionalSlots]
    /\ inFlight \in [Outputs -> OptionalSlots]
    /\ scheduled \in [Outputs -> CommitIds \union {NoCommit}]
    /\ poweringOff \subseteq Outputs
    /\ wakeModeset \in [Outputs -> WakeStates]
    /\ fenceState \in [Outputs -> [Slots -> FenceStates]]
    /\ fenceToken \in [Outputs -> [Slots -> Tokens \union {NoToken}]]
    /\ watches \subseteq Signals
    /\ fenceSignals \subseteq Signals
    /\ dirty \subseteq Outputs


\* The position of output o among the outputs of the set ps.
Position(o, ps) == Cardinality({p \in ps : p < o})

\* OutputScheduler::new for the outputs ps: slot 0 of each pool is its current
\* framebuffer, and every powered output is due for a first frame
\* (FrameScheduler::new).
SchedulerInit(ps) ==
    /\ powered = ps
    /\ stream = [o \in Outputs |-> Position(o, ps)]
    /\ scanning = [o \in Outputs |-> 0]
    /\ ready = [o \in Outputs |-> NoSlot]
    /\ inFlight = [o \in Outputs |-> NoSlot]
    /\ scheduled = [o \in Outputs |-> NoCommit]
    /\ poweringOff = {}
    /\ wakeModeset = [o \in Outputs |-> "none"]
    /\ fenceState = [o \in Outputs |-> [i \in Slots |-> "none"]]
    /\ fenceToken = [o \in Outputs |-> [i \in Slots |-> NoToken]]
    /\ watches = {}
    /\ fenceSignals = {}
    /\ dirty = ps

-----------------------------------------------------------------------------
(* Frame readiness. *)

RenderAvailable(o) == o \in powered /\ o \notin poweringOff /\ ready[o] = NoSlot

ReadyHandoffAvailable(o) == o \in powered => o \in poweringOff \/ ready[o] = NoSlot

\* New damage on the outputs os: their latest serial moves on, so no request
\* and no slot carries it.
Supersede(os) ==
    /\ slotSerial' = [o \in Outputs |-> [i \in Slots |->
            IF o \in os THEN "superseded" ELSE slotSerial[o][i]]]
    /\ authorized' = [o \in Outputs |->
            IF o \in os /\ authorized[o] = "latest" THEN "superseded" ELSE authorized[o]]
    /\ dirty' = dirty \union os

-----------------------------------------------------------------------------
(* publish_ready, and complete_render right after it in the main loop. *)

\* next_ready_fence_token.  Tokens are compared only for one slot, so a token
\* that no watch, signal or fence of the slot carries stands for a new one.
UsedTokens(o, i) ==
    {w.token : w \in {v \in watches \union fenceSignals : v.output = o /\ v.slot = i}}
    \union {fenceToken[o][i]}

FreshToken(o, i) == CHOOSE t \in Tokens : t \notin UsedTokens(o, i)

\* Mutant: a publication completes whatever damage the output has by now.
CompleteRender_AnySerial(o, serial) == dirty \ {o}

\* complete_render clears the damage that the frame was rendered for.
CompleteRender(o, serial) == IF serial = "latest" THEN dirty \ {o} ELSE dirty

PublishFails(o, i) ==
    \/ fenceState[o][i] # "none"
    \/ o \in powered /\ ready[o] # NoSlot
    \/ ~Publishable(o, i)

PublishReady(o, i) ==
    /\ ~PublishFails(o, i)
    /\ \E t \in Tokens : t \notin UsedTokens(o, i)
    /\ bufferState' = [bufferState EXCEPT ![o][i] = "Free"]
    /\ outputRefs' = [outputRefs EXCEPT ![o][i] = 1]
    /\ fenceToken' = [fenceToken EXCEPT ![o][i] = FreshToken(o, i)]
    /\ watches' = watches \union {[output |-> o, slot |-> i, token |-> FreshToken(o, i)]}
    /\ IF o \in powered /\ o \notin poweringOff
       THEN /\ ready' = [ready EXCEPT ![o] = i]
            /\ fenceState' = [fenceState EXCEPT ![o][i] = "pending"]
       ELSE /\ fenceState' = [fenceState EXCEPT ![o][i] = "discard"]
            /\ UNCHANGED ready
    /\ dirty' = CompleteRender(o, slotSerial[o][i])
    /\ UNCHANGED <<slotSerial, authorized, scanning, inFlight, scheduled,
                   powerVars, fenceSignals, volitionVars>>

-----------------------------------------------------------------------------
(* acknowledge_ready_fences, one signal. *)

SignalMatches(s) ==
    /\ fenceState[s.output][s.slot] # "none"
    /\ fenceToken[s.output][s.slot] = s.token

\* Mutant: discard_users_on_signal is never consumed.
DiscardsOn_Never(s) == FALSE

DiscardsOn(s) == SignalMatches(s) /\ fenceState[s.output][s.slot] = "discard"

AcknowledgeFails(s) == DiscardsOn(s) /\ ~Releasable(s.output, s.slot)

AcknowledgeReadyFence(s) ==
    /\ ~AcknowledgeFails(s)
    /\ fenceSignals' = fenceSignals \ {s}
    /\ IF DiscardsOn(s)
       THEN /\ outputRefs' = [outputRefs EXCEPT ![s.output][s.slot] = @ - 1]
            /\ fenceState' = [fenceState EXCEPT ![s.output][s.slot] = "none"]
            /\ fenceToken' = [fenceToken EXCEPT ![s.output][s.slot] = NoToken]
       ELSE /\ fenceState' = IF SignalMatches(s)
                             THEN [fenceState EXCEPT ![s.output][s.slot] = "signaled"]
                             ELSE fenceState
            /\ UNCHANGED <<outputRefs, fenceToken>>
    /\ UNCHANGED <<bufferState, slotSerial, authorized, frameVars, powerVars,
                   watches, dirty, volitionVars>>

-----------------------------------------------------------------------------
(* discard_ready_frame on the outputs os (all of them with a ready frame): *)
(* a signaled slot is released, an unsignaled one when its GPU work ends.  *)

Discarding(os, o, i) == o \in os /\ i = ready[o]

DiscardFails(os) ==
    \E o \in os : fenceState[o][ready[o]] = "signaled" /\ ~Releasable(o, ready[o])

\* Mutant: a signaled slot is released twice.
RefsAfterDiscard_Twice(os) ==
    [o \in Outputs |-> [i \in Slots |->
        IF Discarding(os, o, i) /\ fenceState[o][i] = "signaled"
        THEN outputRefs[o][i] - 2 ELSE outputRefs[o][i]]]

RefsAfterDiscard(os) ==
    [o \in Outputs |-> [i \in Slots |->
        IF Discarding(os, o, i) /\ fenceState[o][i] = "signaled"
        THEN outputRefs[o][i] - 1 ELSE outputRefs[o][i]]]

DiscardReady(os) ==
    /\ ready' = [o \in Outputs |-> IF o \in os THEN NoSlot ELSE ready[o]]
    /\ fenceState' = [o \in Outputs |-> [i \in Slots |->
            IF Discarding(os, o, i)
            THEN IF fenceState[o][i] = "signaled" THEN "none" ELSE "discard"
            ELSE fenceState[o][i]]]
    /\ fenceToken' = [o \in Outputs |-> [i \in Slots |->
            IF Discarding(os, o, i) /\ fenceState[o][i] = "signaled"
            THEN NoToken ELSE fenceToken[o][i]]]

-----------------------------------------------------------------------------
(* acknowledge_volition_events, one event. *)

\* Mutant: the pipeline is looked up by the position in the CommitId.
Awaiting_AtPosition(c) ==
    {o \in powered : stream[o] = c.stream /\ scheduled[o] # NoCommit}

\* The pipelines a Submitted event can acknowledge; the first one gets it.
Awaiting(c) == {o \in powered : scheduled[o] = c}

FirstAwaiting(c) ==
    CHOOSE o \in Awaiting(c) : \A p \in Awaiting(c) : stream[o] <= stream[p]

AcknowledgeVolitionFails(e) ==
    Owns(e) /\ e.kind = "Submitted" /\ Awaiting(e.commit) = {}

\* KMS refused the commit for good: the failure is returned.
KmsFailed(e) == Owns(e) /\ e.kind = "Failed"

AcknowledgeVolition(e) ==
    /\ ~AcknowledgeVolitionFails(e) /\ ~KmsFailed(e)
    /\ scheduled' = IF Owns(e) /\ e.kind = "Submitted"
                    THEN [scheduled EXCEPT ![FirstAwaiting(e.commit)] = NoCommit]
                    ELSE scheduled
    /\ UNCHANGED <<brokerVars, scanning, ready, inFlight, powerVars, fenceVars,
                   dirty, volitionVars>>

-----------------------------------------------------------------------------
(* submit_ready, one pipeline. *)

\* Mutant: the render fence is not waited for.
Submittable_Unfenced(o) ==
    /\ o \in powered \ poweringOff
    /\ inFlight[o] = NoSlot
    /\ ready[o] # NoSlot

Submittable(o) ==
    /\ o \in powered \ poweringOff
    /\ inFlight[o] = NoSlot
    /\ ready[o] # NoSlot
    /\ fenceState[o][ready[o]] = "signaled"

CommitOf(o) == [stream |-> stream[o], frame |-> ready[o]]

\* The frame moves to in_flight and its fence slot loses its only user.
TakeReady(o, commit) ==
    /\ inFlight' = [inFlight EXCEPT ![o] = ready[o]]
    /\ scheduled' = [scheduled EXCEPT ![o] = commit]
    /\ ready' = [ready EXCEPT ![o] = NoSlot]
    /\ fenceState' = [fenceState EXCEPT ![o][ready[o]] = "none"]
    /\ fenceToken' = [fenceToken EXCEPT ![o][ready[o]] = NoToken]
    /\ UNCHANGED <<brokerVars, scanning, powered, stream, poweringOff, watches,
                   fenceSignals, dirty>>

\* Steady state: hand the frame to Volition.
ScheduleReady(o) ==
    /\ Submittable(o) /\ wakeModeset[o] = "none"
    /\ SubmitForTarget(o, ready[o], CommitOf(o))
    /\ TakeReady(o, CommitOf(o))
    /\ UNCHANGED wakeModeset

\* Mutant: a wake that failed is not tried again.
WakeDue_Once(o) == Submittable(o) /\ wakeModeset[o] = "fresh"

\* The first frame after DPMS enables the CRTC with a synchronous modeset and
\* is Submitted at once.
WakeDue(o) == Submittable(o) /\ wakeModeset[o] \in {"fresh", "retry"}

WakeReady(o) ==
    /\ WakeDue(o)
    /\ TakeReady(o, NoCommit)
    /\ wakeModeset' = [wakeModeset EXCEPT ![o] = "none"]
    /\ UNCHANGED volitionVars

\* record_failure: the frame stays ready for retry_at.
WakeFails(o) ==
    /\ WakeDue(o)
    /\ wakeModeset' = [wakeModeset EXCEPT ![o] = "backoff"]
    /\ UNCHANGED <<brokerVars, frameVars, powered, stream, poweringOff,
                   fenceVars, dirty, volitionVars>>

-----------------------------------------------------------------------------
(* handle_completions, one page flip of output o. *)

Submitted(o) == inFlight[o] # NoSlot /\ scheduled[o] = NoCommit

RetireFails(o, drop) ==
    \/ ~Releasable(o, scanning[o])
    \/ drop /\ DiscardFails({o})

\* The submitted frame is now scanning and the previous one is released.  With
\* drop, the ready successor targeted the edge that just completed.
RetireCompletion(o, drop) ==
    /\ o \in powered /\ Submitted(o)
    /\ drop => ready[o] # NoSlot
    /\ ~RetireFails(o, drop)
    /\ scanning' = [scanning EXCEPT ![o] = inFlight[o]]
    /\ inFlight' = [inFlight EXCEPT ![o] = NoSlot]
    /\ LET os == IF drop THEN {o} ELSE {} IN
        /\ DiscardReady(os)
        /\ outputRefs' = [RefsAfterDiscard(os) EXCEPT ![o][scanning[o]] = @ - 1]
    /\ UNCHANGED <<bufferState, slotSerial, authorized, scheduled, powerVars,
                   watches, fenceSignals, dirty, volitionVars>>

\* A completion with no submitted frame to retire is dropped, unless a commit
\* is still Scheduled: then it waits for Volition's acknowledgement.
Deferred(o) == o \in powered /\ scheduled[o] # NoCommit

StaleCompletion(o) == o \notin powered \/ inFlight[o] = NoSlot

=============================================================================
