----------------------------- MODULE DisplayPower -----------------------------
(***************************************************************************)
(* Who may turn an output off and on, and how it is done: the power        *)
(* section of the main loop (flutter_event_loop.rs), dpms.rs, the output   *)
(* power protocol and the power key, composed with IdlePolicy and          *)
(* DpmsTopologyGuard.                                                      *)
(*                                                                         *)
(* Five parties ask: the idle policy, the user (power key, screen-off of   *)
(* the shell), clients of wlr-output-power, an output configuration and    *)
(* its rollback.  All write one queue in which the last word counts.       *)
(* Presentation.tla has how a pipeline stops and starts, Reconfiguration   *)
(* how the outputs themselves change; here a frame is in flight or not and *)
(* a rebuild takes one step.                                               *)
(***************************************************************************)
EXTENDS IdlePolicy, DpmsTopologyGuard

CONSTANT MaxEvents    \* bound on what users, clients, monitors and the seat do
                      \* and on the power-offs KMS refuses, together

ASSUME PowerAssumption == MaxEvents \in Nat

VARIABLES
    connected,        \* the connectors a scan finds
    scanouts,         \* the outputs driven
    powered,          \* Scanout.powered
    flying,           \* outputs that stop with a frame still in flight
    stopping,         \* OutputPipeline.powering_off
    pending,          \* what clients asked, not yet collected
    requests,         \* output_power_requests
    rollback,         \* rollback_power of a configuration on trial, or Nothing
    inhibitor,        \* a client inhibits idling
    toggle,           \* PowerButton.toggle_pending
    rescan,           \* topology_dirty, or an explicit reconfiguration
    rebase,           \* a rebase waits for the next pass
    rebased,          \* scanout_rebased of this pass
    disconnected,     \* outputs_disconnected
    pc,               \* the next step of the pass
    source,           \* who turned an output off, or is about to
    events            \* so far

kmsVars == <<scanouts, powered, flying, stopping>>
askVars == <<pending, requests, source>>
userVars == <<inhibitor, toggle>>
loopVars == <<rebase, rebased, disconnected>>
vars == <<policyVars, guardVars, connected, kmsVars, askVars, rollback, userVars, rescan, loopVars,
          pc, events>>

Asked == {"none", "on", "off"}
Nothing == [output \in Outputs |-> "none"]

\* Types.  An output that stops, or has its last frame in flight, is one that
\* is driven and on: begin_power_off and power_off of the scheduler.
TypeOK ==
    /\ PolicyTypeOK /\ GuardTypeOK(Outputs)
    /\ connected \subseteq Outputs /\ scanouts \subseteq Outputs
    /\ powered \subseteq scanouts /\ stopping \subseteq powered /\ flying \subseteq powered
    /\ pending \in [Outputs -> Asked] /\ requests \in [Outputs -> Asked]
    /\ rollback \in [Outputs -> Asked]
    /\ {inhibitor, toggle, rebase, rebased, disconnected} \subseteq BOOLEAN
    /\ rescan \in {"no", "dirty", "explicit"}
    /\ pc \in {"top", "idle", "button", "apply", "applyControl", "rest", "background", "dispatch"}
    /\ source \in [Outputs -> {"none", "idle", "user", "client", "control"}]
    /\ events \in 0..MaxEvents

Init ==
    /\ PolicyInit /\ GuardInit
    /\ connected = Outputs /\ scanouts = Outputs /\ powered = Outputs
    /\ flying = {} /\ stopping = {}
    /\ pending = Nothing /\ requests = Nothing /\ rollback = Nothing
    /\ inhibitor = FALSE /\ toggle = FALSE
    /\ rescan = "no" /\ rebase = FALSE /\ rebased = FALSE /\ disconnected = FALSE
    /\ pc = "top" /\ source = [output \in Outputs |-> "none"]
    /\ events = 0

At(step) == pc = step
GoTo(step) == pc' = step
Sooner(current, wanted) == IF current = "explicit" THEN current ELSE wanted
Event == events < MaxEvents /\ events' = events + 1

\* The queue with `off' turned off and `on' turned on, and with it who is
\* behind an output that is off.  An inhibitor is not entitled to turn on
\* what the user turned off.
Queued(asked, on, off) ==
    [output \in Outputs |-> CASE output \in on -> "on"
                              [] output \in off -> "off"
                              [] OTHER -> asked[output]]

Attributed(on, off, party) ==
    [output \in Outputs |-> CASE output \in off -> party
                              [] output \in on /\ party # "inhibitor" -> "none"
                              [] output \in on /\ source[output] # "user" -> "none"
                              [] OTHER -> source[output]]

Queue(on, off, party) ==
    /\ requests' = Queued(requests, on, off)
    /\ source' = Attributed(on, off, party)
    /\ UNCHANGED pending

-------------------------------------------------------------------------------
(***************************************************************************)
(* What happens in a dispatch: at the end of a pass ("background", where   *)
(* the shell's own requests have just been served) or inside one.          *)
(***************************************************************************)
Dispatching == pc \in {"background", "dispatch"} /\ GoTo("dispatch")

\* note_user_activity, of any input but the power key.
Activity ==
    /\ Dispatching /\ Event
    /\ NoteActivity /\ Queue(blanked, {}, "user")
    /\ UNCHANGED <<guardVars, connected, kmsVars, rollback, userVars, rescan, loopVars>>

\* PowerButton.note_key of a press; the release, and a press of a key that
\* is held already, change nothing.
PowerKey ==
    /\ Dispatching /\ Event
    /\ toggle' = ~toggle
    /\ UNCHANGED <<policyVars, guardVars, connected, kmsVars, askVars, rollback, inhibitor, rescan,
                   loopVars>>

Inhibit ==
    /\ Dispatching /\ Event
    /\ inhibitor' = ~inhibitor
    /\ UNCHANGED <<policyVars, guardVars, connected, kmsVars, askVars, rollback, toggle, rescan,
                   loopVars>>

\* queue_output_power of the client that controls an output.
ClientAsks ==
    /\ Dispatching /\ Event
    /\ \E output \in scanouts, asked \in {"on", "off"} :
           pending' = [pending EXCEPT ![output] = asked]
    /\ UNCHANGED <<policyVars, guardVars, connected, kmsVars, requests, source, rollback, userVars,
                   rescan, loopVars>>

\* A monitor is plugged in or out, or sleeps and wakes; udev reports it.
Replug ==
    /\ Dispatching /\ Event
    /\ \E output \in Outputs :
           connected' = IF output \in connected THEN connected \ {output}
                                                ELSE connected \cup {output}
    /\ rescan' = Sooner(rescan, "dirty")
    /\ UNCHANGED <<policyVars, guardVars, kmsVars, askVars, rollback, userVars, loopVars>>

\* The seat left, which forgets the power key, and has returned; or KMS was
\* recovered.
Rebases ==
    /\ Dispatching /\ Event
    /\ rebase' = TRUE
    /\ toggle' = FALSE \/ UNCHANGED toggle
    /\ UNCHANGED <<policyVars, guardVars, connected, kmsVars, askVars, rollback, inhibitor, rescan,
                   rebased, disconnected>>

TimePasses ==
    /\ Dispatching
    /\ \/ Elapses /\ UNCHANGED guardVars
       \/ GracePasses /\ UNCHANGED policyVars
    /\ UNCHANGED <<connected, kmsVars, askVars, rollback, userVars, rescan, loopVars, events>>

\* The last frame of an output that stops is presented.
FlipArrives ==
    /\ Dispatching
    /\ \E output \in flying : flying' = flying \ {output}
    /\ UNCHANGED <<policyVars, guardVars, connected, scanouts, powered, stopping, askVars, rollback,
                   userVars, rescan, loopVars, events>>

Callback ==
    \/ Activity \/ PowerKey \/ Inhibit \/ ClientAsks \/ Replug \/ Rebases \/ TimePasses
    \/ FlipArrives

-------------------------------------------------------------------------------
(***************************************************************************)
(* A pass of the loop up to the power section.                             *)
(***************************************************************************)

\* collect_output_power_requests.
Collect ==
    LET asked == {output \in Outputs : pending[output] # "none"}
        on == {output \in asked : pending[output] = "on"}
    IN /\ Forget(asked)
       /\ requests' = Queued(requests, on, asked \ on)
       /\ source' = Attributed(on, asked \ on, "client")
       /\ pending' = Nothing

\* The head of a pass; clients are heard if the services are due.  Without
\* a monitor nothing is presented, as after a rebase.
Top ==
    /\ pc \in {"top", "background", "dispatch"} /\ GoTo("idle")
    /\ ServiceDeadline
    /\ rescan' = IF RemovalDue THEN Sooner(rescan, "dirty") ELSE rescan
    /\ rebased' = (rebase \/ (disconnected /\ powered # {}))
    /\ rebase' = FALSE
    /\ Collect \/ UNCHANGED <<policyVars, askVars>>
    /\ UNCHANGED <<connected, kmsVars, rollback, userVars, disconnected, events>>

\* The power button has its turn if it was pressed; then the queue, unless
\* the scheduler is to be rebuilt first.
AfterButton == IF rebased \/ requests' = Nothing THEN "rest" ELSE "apply"
AfterIdle == IF toggle THEN "button" ELSE AfterButton

\* synchronize_idle_dpms, when maintenance is due.
Idle ==
    /\ At("idle")
    /\ IF inhibitor
       THEN EvaluateInhibited /\ Queue(InhibitedWake, {}, "inhibitor")
       ELSE Evaluate(scanouts, powered) /\ Queue({}, IdleOff(scanouts, powered), "idle")
    /\ GoTo(AfterIdle)
    /\ UNCHANGED <<guardVars, connected, kmsVars, rollback, userVars, rescan, loopVars, events>>

IdleLater ==
    /\ At("idle") /\ ~DeadlinePassed
    /\ UNCHANGED <<policyVars, askVars>>
    /\ GoTo(AfterIdle)
    /\ UNCHANGED <<guardVars, connected, kmsVars, rollback, userVars, rescan, loopVars, events>>

\* synchronize_power_button.  A queued request is the state of its output.
Effective ==
    {output \in scanouts :
        requests[output] = "on" \/ (requests[output] = "none" /\ output \in powered)}

Button ==
    /\ At("button")
    /\ toggle' = FALSE
    /\ IF Effective # {}
       THEN ToggleOff(Effective) /\ Queue({}, NewlyBlanked(Effective), "user")
       ELSE ToggleOn /\ Queue(scanouts, {}, "user")
    /\ GoTo(AfterButton)
    /\ UNCHANGED <<guardVars, connected, kmsVars, rollback, inhibitor, rescan, loopVars,
                   events>>

-------------------------------------------------------------------------------
(***************************************************************************)
(* apply_output_power_requests, of the power section ("apply") or of an    *)
(* accepted configuration ("applyControl").                                *)
(***************************************************************************)
Wanting(asked) == {output \in scanouts : requests[output] = asked}
Unknown == {output \in Outputs \ scanouts : requests[output] # "none"}
TurnOff == Wanting("off") \cap powered
TurnOn == Wanting("on") \ powered
StaysOn == Wanting("on") \cap powered

Applying == pc \in {"apply", "applyControl"}

\* A pass that changed something publishes it before it goes on.
Applied(changed) == GoTo(IF changed \/ At("applyControl") THEN "top" ELSE "rest")

PowerChanges(off) ==
    /\ powered' = (powered \ off) \cup TurnOn
    /\ rescan' = IF TurnOn # {} THEN Sooner(rescan, "dirty") ELSE rescan
    /\ NotePower(off, TurnOn)
    /\ Applied(off \cup TurnOn # {})

\* note_power_failure and fail_output_power.
Failed(outputs) ==
    /\ Forget(outputs)
    /\ pending' = [output \in Outputs |-> IF output \in outputs THEN "none" ELSE pending[output]]
    /\ source' = [output \in Outputs |-> IF output \in outputs THEN "none" ELSE source[output]]

\* Mutant: begin_power_off does not set powering_off, so frames keep coming.
PowerOffWaits_KeepsGoing ==
    /\ Applying
    /\ stopping' = stopping \ StaysOn
    /\ \E busy \in SUBSET (TurnOff \ stopping) : flying' = (flying \ StaysOn) \cup busy
    /\ TurnOff \cap flying' # {}
    /\ requests' = Queued(Nothing, {}, TurnOff)
    /\ PowerChanges({}) /\ Failed(Unknown)
    /\ UNCHANGED <<connected, scanouts, rollback, userVars, loopVars, events>>

\* begin_power_off, which stops the outputs and finds that some have a frame
\* in flight: the whole batch waits.  cancel_power_off of the outputs that
\* are to stay on.
PowerOffWaits ==
    /\ Applying
    /\ stopping' = (stopping \ StaysOn) \cup TurnOff
    /\ \E busy \in SUBSET (TurnOff \ stopping) : flying' = (flying \ StaysOn) \cup busy
    /\ TurnOff \cap flying' # {}
    /\ requests' = Queued(Nothing, {}, TurnOff)
    /\ PowerChanges({}) /\ Failed(Unknown)
    /\ UNCHANGED <<connected, scanouts, rollback, userVars, loopVars, events>>

\* KMS refuses to clear an output of the batch; the others are restored, by
\* a recovery if need be.
PowerOffFails ==
    /\ Applying /\ Event
    /\ TurnOff # {} /\ TurnOff \cap flying = {}
    /\ stopping' = stopping \ (StaysOn \cup TurnOff) /\ flying' = flying \ StaysOn
    /\ requests' = Nothing
    /\ PowerChanges({}) /\ Failed(Unknown \cup TurnOff)
    /\ rebase' = TRUE \/ UNCHANGED rebase
    /\ UNCHANGED <<connected, scanouts, rollback, userVars, rebased, disconnected>>

PowerApplied ==
    /\ Applying
    /\ TurnOff \cap flying = {}
    /\ stopping' = stopping \ (StaysOn \cup TurnOff) /\ flying' = flying \ StaysOn
    /\ requests' = Nothing
    /\ PowerChanges(TurnOff) /\ Failed(Unknown)
    /\ UNCHANGED <<connected, scanouts, rollback, userVars, loopVars, events>>

-------------------------------------------------------------------------------
(***************************************************************************)
(* The rest of the pass: output control, the rescan and the shell.         *)
(***************************************************************************)

\* A configuration is accepted: it names the power of every output.  It may
\* rebuild the pipelines, and may be on trial.
ControlApply ==
    /\ At("rest") /\ events + 2 <= MaxEvents /\ events' = events + 2
    /\ connected = scanouts /\ rollback = Nothing
    /\ \E on \in SUBSET scanouts : Queue(on, scanouts \ on, "control")
    /\ \/ UNCHANGED rollback
       \/ rollback' = Queued(Nothing, powered, scanouts \ powered)
    /\ \/ ~rebased /\ UNCHANGED <<flying, stopping>>
       \/ (rebased \/ flying = {}) /\ flying' = {} /\ stopping' = {}
    /\ GoTo("applyControl")
    /\ UNCHANGED <<policyVars, guardVars, connected, scanouts, powered, userVars, rescan, loopVars>>

\* The trial ends: the configuration is kept, or it and the power it found
\* are restored.
TrialEnds ==
    /\ At("rest") /\ rollback # Nothing
    /\ rollback' = Nothing
    /\ \/ UNCHANGED <<askVars, rescan>>
       \/ LET on == {output \in Outputs : rollback[output] = "on"}
              off == {output \in Outputs : rollback[output] = "off"}
          IN Queue(on, off, "control") /\ rescan' = "explicit"
    /\ GoTo("top")
    /\ UNCHANGED <<policyVars, guardVars, connected, kmsVars, userVars, loopVars, events>>

NoRescan ==
    /\ At("rest") /\ ~rebased /\ rescan = "no"
    /\ GoTo("background")
    /\ UNCHANGED <<policyVars, guardVars, connected, kmsVars, askVars, rollback, userVars, rescan,
                   loopVars, events>>

\* The rescan.  A new output, a rebase or an explicit reconfiguration sets
\* the guard aside.
Missing == scanouts \ connected
Bypassed == rebased \/ rescan = "explicit" \/ connected \ scanouts # {}
Deferred == ~Bypassed /\ Excused(Missing)
Changed == connected # scanouts

Rescan ==
    /\ At("rest") /\ (rebased \/ rescan # "no")
    /\ IF Bypassed THEN Cancel ELSE DeferMissing(Missing)
    /\ UNCHANGED <<policyVars, connected, requests, rollback, userVars, rebase, rebased, events>>

Defer ==
    /\ Rescan /\ Deferred
    /\ rescan' = "no"
    /\ GoTo("background")
    /\ UNCHANGED <<kmsVars, pending, source, disconnected>>

NothingConnected ==
    /\ Rescan /\ ~Deferred /\ connected = {}
    /\ rescan' = "dirty" /\ disconnected' = TRUE
    /\ GoTo("dispatch")
    /\ UNCHANGED <<kmsVars, pending, source>>

\* The frames of the old topology come first, if there are any.
Drain ==
    /\ Rescan /\ ~Deferred /\ connected # {}
    /\ Changed /\ ~rebased /\ powered # {}
    /\ rescan' = Sooner(rescan, "dirty") /\ disconnected' = FALSE
    /\ GoTo("dispatch")
    /\ UNCHANGED <<kmsVars, pending, source>>

\* The outputs and the scheduler's pipelines are made anew: an output that
\* stays keeps its power, a new one is on.
Rebuild ==
    /\ Rescan /\ ~Deferred /\ connected # {}
    /\ rebased \/ (Changed /\ flying = {})
    /\ scanouts' = connected
    /\ powered' = connected \ (scanouts \ powered)
    /\ flying' = {} /\ stopping' = {}
    /\ pending' = [output \in Outputs |-> IF output \in Missing THEN "none" ELSE pending[output]]
    /\ source' = [output \in Outputs |-> IF output \in connected \cap scanouts
                                         THEN source[output] ELSE "none"]
    /\ rescan' = "no" /\ disconnected' = FALSE
    /\ GoTo("top")

NothingChanged ==
    /\ Rescan /\ ~Deferred /\ connected # {}
    /\ ~Changed /\ ~rebased
    /\ rescan' = "no" /\ disconnected' = FALSE
    /\ GoTo("background")
    /\ UNCHANGED <<kmsVars, pending, source>>

\* synchronize_idle_dpms_configuration and synchronize_requested_dpms_off,
\* with what the shell has sent.
ShellConfigures ==
    /\ At("background") /\ Event
    /\ \E new \in Policies :
           /\ Configure(new)
           /\ Queue(IF new["dpms"] = Never THEN blanked ELSE {}, {}, "user")
    /\ GoTo("dispatch")
    /\ UNCHANGED <<guardVars, connected, kmsVars, rollback, userVars, rescan, loopVars>>

ShellBlanks ==
    /\ At("background") /\ Event
    /\ BlankNow(powered) /\ UNCHANGED <<policy, idle, inhibited, triggered>>
    /\ Queue({}, NewlyBlanked(powered), "user")
    /\ GoTo("dispatch")
    /\ UNCHANGED <<guardVars, connected, kmsVars, rollback, userVars, rescan, loopVars>>

Pass ==
    \/ Top \/ Idle \/ IdleLater \/ Button
    \/ PowerOffWaits \/ PowerOffFails \/ PowerApplied
    \/ ControlApply \/ TrialEnds \/ NoRescan
    \/ Defer \/ NothingConnected \/ Drain \/ Rebuild \/ NothingChanged
    \/ ShellConfigures \/ ShellBlanks

Next == Callback \/ Pass

Spec == Init /\ [][Next]_vars

\* The loop runs, time passes, the last frames of outputs that stop are
\* presented, and a rescan in the end finds no frame in flight.
Fairness ==
    /\ WF_vars(Pass)
    /\ SF_vars(FlipArrives)
    /\ SF_vars(TimePasses)
    /\ SF_vars(Rebuild)

FairSpec == Spec /\ Fairness

-------------------------------------------------------------------------------
\* An output that evaluate, the power button or the shell's screen-off turned
\* off, or is about to, is one that the next note_activity turns on again.
BlankIsRemembered ==
    \A output \in scanouts :
        (source[output] \in {"idle", "user"}
            /\ (output \notin powered \/ requests[output] = "off")) => output \in blanked

\* What the user turned off (toggle_now, blank_now) stays off until the user,
\* a client or a configuration asks for it: an inhibitor does not undo it.
UserOffIsKept ==
    \A output \in scanouts :
        source[output] = "user" => /\ requests[output] # "on"
                                   /\ output \in powered => requests[output] = "off"

\* The queue of requests is worked off in the end (apply_output_power_requests
\* may put a batch off while a frame is in flight), unless every monitor is
\* gone.
RequestsApplied == requests # Nothing ~> requests = Nothing \/ disconnected

\* An output that is on without a monitor is given up in the end: neither the
\* grace of DpmsTopologyGuard nor its expiry inside another call loses the
\* removal that was put off.
MissingIsRemoved == powered \ connected # {} ~> powered \subseteq connected \/ disconnected
===============================================================================
