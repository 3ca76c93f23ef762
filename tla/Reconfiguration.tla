---------------------------- MODULE Reconfiguration ---------------------------
(***************************************************************************)
(* The main loop of flutter_event_loop.rs as far as it changes which       *)
(* outputs are driven and how: the seat, KMS recovery, output control, the *)
(* topology rescan and bundle reload, composed with SessionLifecycle,      *)
(* OutputControl and HotplugTransaction.                                   *)
(*                                                                         *)
(* A pass runs from "top" to the next dispatch without interruption; the   *)
(* callbacks of the event loop run only inside a dispatch, of which there  *)
(* are four: at the end of a pass, while the seat is inactive, between two *)
(* recovery attempts, and inside a transaction that waits for its flips.   *)
(* Presentation.tla has the details of what is here one `work' of the      *)
(* scheduler; DisplayPower.tla has the powered-off outputs.                *)
(***************************************************************************)
EXTENDS HotplugTransaction

CONSTANTS
    MaxIncidents,     \* VT switches, replugged monitors, signals and
                      \* faults (refused commits, withheld flips, ...)
    MaxEvents         \* incidents and apply requests together

VARIABLES
    pc,               \* the step of the pass that runs next
    after,            \* where a dispatch returns to
    flags,            \* the request flags of RuntimeState that are set
    rebased,          \* scanout_rebased of this pass
    disconnected,     \* outputs_disconnected
    handled,          \* output_confirmation_handled
    forgotten,        \* history: a rebased pass ended before its rebuild
    scheduler,        \* "live", "stale" after a rebase, "shut" with Volition
    work,             \* the scheduler's frame
    end,              \* how the session ended
    incidents         \* of them so far

passVars == <<rebased, disconnected, handled, forgotten>>
loopVars == <<pc, after, passVars, end>>
engineVars == <<scheduler, work>>
vars == <<lifecycleVars, controlVars, hotplugVars, loopVars, engineVars, flags, incidents>>

Flags == {"scanout_rebased", "topology_dirty", "kms_reconfigure", "resident_geometry",
          "output_control_dirty", "kms_presentation_recovery", "flutter_reload"}

\* Types, among them: a success is owed (pending_output_success) only to a
\* request that has no reply yet.
TypeOK ==
    /\ LifecycleTypeOK /\ ControlTypeOK /\ HotplugTypeOK
    /\ pc \in {"top", "recover", "boundary", "frames", "answers", "requests", "topology",
               "background", "commit", "wait", "replace", "abort", "dispatch", "ended"}
    /\ after \in {"top", "recover", "wait"}
    /\ flags \subseteq Flags
    /\ {rebased, disconnected, handled, forgotten} \subseteq BOOLEAN
    /\ scheduler \in {"live", "stale", "shut"}
    /\ work \in {"none", "drawing", "ready", "flying", "lost"}
    /\ end \in {"running", "logout", "scan", "hotplug", "flutter", "broken_pipe"}
    /\ incidents \in 0..MaxIncidents

\* What output_control_state describes.
Snapshot == [scanned |-> scanned, scanouts |-> scanouts, config |-> config,
             waiting |-> confirming # None]

Init ==
    /\ LifecycleInit /\ ControlInit /\ HotplugInit
    /\ published = Snapshot
    /\ pc = "top" /\ after = "top"
    /\ flags = {} /\ rebased = FALSE /\ disconnected = FALSE /\ handled = FALSE
    /\ forgotten = FALSE
    /\ scheduler = "live" /\ work = "none" /\ end = "running"
    /\ incidents = 0

-----------------------------------------------------------------------------
(* Building blocks of the steps.                                           *)

At(step) == pc = step
GoTo(step) == pc' = step /\ after' = "top"
Dispatch(return) == pc' = "dispatch" /\ after' = return
EndSession(cause) == GoTo("ended") /\ end' = cause

Raise(new) == flags' = flags \cup new

\* One of the incidents happens, or none does.
Incident ==
    /\ incidents < MaxIncidents /\ incidents + sent < MaxEvents
    /\ incidents' = incidents + 1
NoIncident == UNCHANGED incidents

\* OutputScheduler::has_pending_scanout_work.
HasPendingWork == work \in {"ready", "flying", "lost"}

\* RuntimeState::pending is cleared: the scheduler will hear no more of it.
LoseFlips == work' = IF work = "flying" THEN "lost" ELSE work

\* submit_ready_frames: a ready frame goes to Volition.
Submitted == IF work = "ready" THEN "flying" ELSE work

\* Where the requests of a pass begin.
FirstRequest == IF answers = <<>> THEN "requests" ELSE "answers"

\* OutputScheduler::new.
RebuildScheduler == scheduler' = "live" /\ work' = "none"

-----------------------------------------------------------------------------
(* Callbacks of a dispatch.                                                *)

Seat ==
    /\ At("dispatch")
    /\ \/ (PauseSession \/ RequestShutdown) /\ Incident /\ UNCHANGED hardware
       \/ ActivateSession /\ NoIncident /\ ProgrammedByOthers
    /\ UNCHANGED <<controlVars, connected, scanned, scanouts, txn, loopVars, engineVars,
                   flags>>

Client ==
    /\ At("dispatch")
    /\ \/ \E layout \in Layouts, confirm \in BOOLEAN, persist \in Persistent :
             incidents + sent < MaxEvents /\ RequestApply(layout, confirm, persist)
       \/ \E action \in {"keep", "rollback"} : RequestAnswer(action)
       \/ ConfirmationExpires
    /\ UNCHANGED <<lifecycleVars, hotplugVars, loopVars, engineVars, flags, incidents>>

\* UdevEvent::Changed.
Replug ==
    /\ At("dispatch") /\ Incident
    /\ connected' \in SUBSET Outputs /\ connected' # connected
    /\ Raise({"topology_dirty"})
    /\ UNCHANGED <<lifecycleVars, controlVars, scanned, hardware, scanouts, txn, loopVars,
                   engineVars>>

\* SIGUSR1 asks for a new bundle, SIGUSR2 for a new KMS configuration.
UserSignal ==
    /\ At("dispatch") /\ Incident
    /\ \/ Raise({"flutter_reload"})
       \/ Raise({"kms_reconfigure", "topology_dirty"})
    /\ UNCHANGED <<lifecycleVars, controlVars, hotplugVars, loopVars, engineVars>>

\* The raster thread finishes, a page flip arrives, or KMS withholds it.
FrameProgress ==
    /\ At("dispatch")
    /\ \/ work = "drawing" /\ work' = "ready" /\ NoIncident
       \/ work = "flying" /\ work' = "none" /\ NoIncident
       \/ work = "flying" /\ work' = "lost" /\ Incident
    /\ UNCHANGED <<lifecycleVars, controlVars, hotplugVars, loopVars, scheduler, flags>>

\* The page flips of a transaction arrive.
TransactionFlips ==
    /\ At("dispatch") /\ txn # None /\ txn.pending
    /\ txn' = [txn EXCEPT !.pending = FALSE]
    /\ UNCHANGED <<lifecycleVars, controlVars, connected, scanned, hardware, scanouts,
                   loopVars, engineVars, flags, incidents>>

\* EventLoop::dispatch returns.
Return ==
    /\ At("dispatch")
    /\ GoTo(after)
    /\ UNCHANGED <<lifecycleVars, controlVars, hotplugVars, passVars, end, engineVars,
                   flags, incidents>>

-----------------------------------------------------------------------------
(* The seat, and recovery: the head of a pass.                             *)

\* take_pause_pending in the two loops of kms_session.rs and in a transaction.
ServicePause ==
    /\ pc \in {"top", "recover", "wait"}
    /\ TakePause
    /\ LoseFlips
    /\ txn' = IF txn = None THEN None ELSE [txn EXCEPT !.pending = FALSE]
    /\ UNCHANGED <<controlVars, connected, scanned, hardware, scanouts, loopVars, scheduler,
                   flags, incidents>>

\* The service loop and the recovery loop sleep until the seat is back.
AwaitSeat ==
    /\ pc \in {"top", "recover", "wait"} /\ MustWait
    /\ Dispatch(pc)
    /\ UNCHANGED <<lifecycleVars, controlVars, hotplugVars, passVars, end, engineVars,
                   flags, incidents>>

\* rebase_kms_scanouts commits what the loop, or the transaction, drives.
ResumeSession ==
    /\ pc \in {"top", "wait"} /\ MustResume
    /\ Regain
    /\ hardware' = IF txn = None THEN Committed(scanouts, DOMAIN scanouts)
                                 ELSE Committed(txn.target, DOMAIN txn.target)
    /\ Raise({"scanout_rebased", "topology_dirty"})
    /\ scheduler' = IF scheduler = "live" THEN "stale" ELSE scheduler
    /\ UNCHANGED <<controlVars, connected, scanned, scanouts, txn, loopVars, work,
                   incidents>>

\* A rejected pre-pause state is answered by a recovery.
ResumeRejected ==
    /\ At("top") /\ MustResume /\ Incident
    /\ ResumeFails
    /\ flags' = flags \ {"kms_presentation_recovery"}
    /\ scheduler' = "shut"
    /\ GoTo("recover")
    /\ UNCHANGED <<controlVars, hotplugVars, passVars, end, work>>

\* The seat needs no service, or no more of it.
SeatServed == ~pause_pending /\ (shutdown \/ (seat_active /\ drm_active))

\* kms_presentation_recovery_requested.
BeginRecovery ==
    /\ At("top") /\ SeatServed
    /\ "kms_presentation_recovery" \in flags
    /\ flags' = flags \ {"kms_presentation_recovery"}
    /\ scheduler' = "shut"
    /\ GoTo("recover")
    /\ UNCHANGED <<lifecycleVars, controlVars, hotplugVars, passVars, end, work, incidents>>

\* recover_stalled_kms_presentation resets every CRTC, or fails and tries again.
Recover ==
    /\ At("recover") /\ ~shutdown /\ ~pause_pending /\ seat_active
    /\ LoseFlips
    /\ \/ /\ Regain /\ NoIncident
          /\ hardware' = [o \in Outputs |-> Off]
          /\ Raise({"scanout_rebased", "topology_dirty"})
          /\ GoTo("top")
       \/ /\ drm_active' = FALSE /\ Incident
          /\ UNCHANGED <<seat_active, pause_pending, shutdown, owned, hardware, flags>>
          /\ Dispatch("recover")
    /\ UNCHANGED <<controlVars, connected, scanned, scanouts, txn, passVars, end,
                   scheduler>>

RecoveryInterrupted ==
    /\ At("recover") /\ shutdown
    /\ GoTo("top")
    /\ UNCHANGED <<lifecycleVars, controlVars, hotplugVars, passVars, end, engineVars,
                   flags, incidents>>

-----------------------------------------------------------------------------
(* The boundary: confirmation deadline, publication, end of the session.   *)

\* Mutant: the configuration goes back and no rescan is asked for.
ExpireConfirmation_NoRescan ==
    /\ At("top") /\ SeatServed /\ "kms_presentation_recovery" \notin flags
    /\ IF confirming # None /\ confirming.expired
         THEN /\ RollBack
              /\ answers' = OutdatedAll(answers)
              /\ Raise({"output_control_dirty"})
         ELSE UNCHANGED <<config, confirming, answers, flags>>
    /\ GoTo("boundary")
    /\ UNCHANGED <<lifecycleVars, applies, ready, succeeded, open, file, clientVars,
                   published, hotplugVars, passVars, end, engineVars, incidents>>

\* An expired confirmation is taken back.
ExpireConfirmation ==
    /\ At("top") /\ SeatServed /\ "kms_presentation_recovery" \notin flags
    /\ IF confirming # None /\ confirming.expired
         THEN /\ RollBack
              /\ answers' = OutdatedAll(answers)
              /\ Raise({"resident_geometry", "output_control_dirty"})
         ELSE UNCHANGED <<config, confirming, answers, flags>>
    /\ GoTo("boundary")
    /\ UNCHANGED <<lifecycleVars, applies, ready, succeeded, open, file, clientVars,
                   published, hotplugVars, passVars, end, engineVars, incidents>>

\* Publication, the replies that waited for it, and the scanout_rebased edge.
Boundary ==
    /\ At("boundary")
    /\ IF "output_control_dirty" \in flags THEN Publish(Snapshot)
                                           ELSE UNCHANGED <<published, applies, ready>>
    /\ AnswerSucceeded
    /\ flags' = flags \ {"output_control_dirty", "scanout_rebased"}
    /\ rebased' = ("scanout_rebased" \in flags \/ (disconnected /\ DOMAIN scanouts # {}))
    /\ IF shutdown THEN EndSession("logout")
       ELSE /\ GoTo(IF rebased' THEN FirstRequest ELSE "frames")
            /\ UNCHANGED end
    /\ UNCHANGED <<lifecycleVars, answers, configVars, clientVars, hotplugVars,
                   disconnected, handled, forgotten, engineVars, incidents>>

-----------------------------------------------------------------------------
(* The frame lane, skipped by a pass that found the scanouts rebased.      *)

\* The watchdog, or Volition, reports that KMS stopped presenting.
Stall ==
    /\ At("frames") /\ drm_active
    /\ \/ work = "lost" /\ NoIncident /\ UNCHANGED work
       \/ work = "flying" /\ Incident /\ work' = "lost"
    /\ scheduler' = "shut"
    /\ GoTo("recover")
    /\ UNCHANGED <<lifecycleVars, controlVars, hotplugVars, passVars, end, flags>>

\* Volition has been shut down: submit_for_target fails, and so does the loop.
SubmitToClosedQueue ==
    /\ At("frames") /\ work = "ready" /\ scheduler = "shut"
    /\ EndSession("broken_pipe")
    /\ UNCHANGED <<lifecycleVars, controlVars, hotplugVars, passVars, engineVars, flags,
                   incidents>>

\* Mutant: waiting requests do not hold back new frames.
Frames_NoBarrier ==
    /\ At("frames") /\ ~(work = "ready" /\ scheduler = "shut")
    /\ work' \in {IF work = "none" THEN "drawing" ELSE Submitted}
    /\ GoTo(FirstRequest)
    /\ UNCHANGED <<lifecycleVars, controlVars, hotplugVars, passVars, end, scheduler, flags,
                   incidents>>

\* A ready frame is submitted; a new one starts unless a request waits.
Frames ==
    /\ At("frames") /\ ~(work = "ready" /\ scheduler = "shut")
    /\ work' \in {Submitted} \cup IF work = "none" /\ ready = None /\ applies = <<>>
                                    THEN {"drawing"} ELSE {}
    /\ GoTo(FirstRequest)
    /\ UNCHANGED <<lifecycleVars, controlVars, hotplugVars, passVars, end, scheduler, flags,
                   incidents>>

-----------------------------------------------------------------------------
(* Confirm and rollback requests.                                          *)

\* After the last request, the pass goes on unless it ended a confirmation.
AnswerDone(any) ==
    IF Len(answers) > 1
      THEN handled' = any /\ UNCHANGED <<pc, after, rebased, forgotten>>
      ELSE /\ handled' = FALSE
           /\ GoTo(IF any THEN "top" ELSE "requests")
           /\ rebased' = (rebased /\ ~any)
           /\ forgotten' = (forgotten \/ (rebased /\ any))

\* One request of pending_output_confirmations.  A pass that ended a
\* confirmation starts again afterwards, rebased or not.
Answer ==
    /\ At("answers") /\ answers # <<>>
    /\ LET request == Head(answers) IN
       IF ~request.fresh
         THEN /\ answers' = Tail(answers)
              /\ Refuse(request) /\ NoIncident
              /\ AnswerDone(handled)
              /\ UNCHANGED <<configVars, succeeded, flags>>
         ELSE /\ answers' = OutdatedAll(Tail(answers))
              /\ AnswerDone(TRUE)
              /\ \/ /\ request.action = "keep" /\ NoIncident
                    /\ Keep /\ Persist(confirming.persist, config)
                    /\ Raise({"output_control_dirty"})
                    /\ succeeded' = succeeded \cup {request.id} /\ UNCHANGED open
                 \/ /\ request.action = "keep" /\ confirming.persist /\ Incident
                    /\ RollBack /\ PersistFails(config)
                    /\ Raise({"resident_geometry", "output_control_dirty"})
                    /\ Refuse(request) /\ UNCHANGED succeeded
                 \/ /\ request.action = "rollback" /\ NoIncident
                    /\ RollBack /\ UNCHANGED file
                    /\ Raise({"resident_geometry", "output_control_dirty"})
                    /\ succeeded' = succeeded \cup {request.id} /\ UNCHANGED open
    /\ UNCHANGED <<lifecycleVars, applies, ready, clientVars, published, hotplugVars,
                   disconnected, end, engineVars>>

-----------------------------------------------------------------------------
(* Apply requests.                                                         *)

\* Every error path that leaves the configuration alone.
Reject(request, new) ==
    /\ Refuse(request)
    /\ Raise(new)
    /\ GoTo("top")
    /\ UNCHANGED <<answers, succeeded, configVars, clientVars, published, hotplugVars>>

\* Why this pass rescans.
RescanFlags == {"topology_dirty", "kms_reconfigure", "resident_geometry"}
MustRescan == rebased \/ flags \cap RescanFlags # {}

\* No request, or a rebased pass, which puts a prepared one back.
NoRequest ==
    /\ At("requests") /\ (rebased \/ (ready = None /\ applies = <<>>))
    /\ applies' = IF ready = None THEN applies ELSE <<ready>> \o applies
    /\ ready' = None
    /\ GoTo(IF MustRescan THEN "topology" ELSE "background")
    /\ UNCHANGED <<lifecycleVars, answers, succeeded, open, configVars, clientVars,
                   published, hotplugVars, passVars, end, engineVars, flags, incidents>>

\* Mutant: the scan is not published before the serial is compared.
ScanRequest_Unpublished ==
    /\ At("requests") /\ ~rebased /\ ready = None /\ applies # <<>>
    /\ MayStage /\ ~HasPendingWork
    /\ scanned' = connected
    /\ ready' = Head(applies)
    /\ applies' = Tail(applies)
    /\ GoTo("top")
    /\ UNCHANGED <<lifecycleVars, answers, succeeded, open, configVars, clientVars,
                   published, connected, hardware, scanouts, txn, passVars, end, engineVars,
                   flags, incidents>>

\* The first request is taken, and the connectors are scanned for it.
ScanRequest ==
    /\ At("requests") /\ ~rebased /\ ready = None /\ applies # <<>>
    /\ MayStage /\ ~HasPendingWork
    /\ scanned' = connected
    /\ ready' = Head(applies)
    /\ applies' = Tail(applies)
    /\ Raise({"output_control_dirty"})
    /\ GoTo("top")
    /\ UNCHANGED <<lifecycleVars, answers, succeeded, open, configVars, clientVars,
                   published, connected, hardware, scanouts, txn, passVars, end, engineVars,
                   incidents>>

\* Another configuration awaits its confirmation, or the scan fails.
RejectUnscanned ==
    /\ At("requests") /\ ~rebased /\ ready = None /\ applies # <<>>
    /\ applies' = Tail(applies)
    /\ \/ ~MayStage /\ NoIncident /\ Reject(Head(applies), {})
       \/ MayStage /\ ~HasPendingWork /\ Incident /\ Reject(Head(applies), {"topology_dirty"})
    /\ UNCHANGED <<lifecycleVars, ready, passVars, end, engineVars>>

\* The last frame of the old geometry is still being drawn or presented.
DrainFrames ==
    /\ At("requests") /\ ~rebased
    /\ \/ ready = None /\ applies # <<>> /\ MayStage /\ HasPendingWork
       \/ ready # None /\ work # "none"
    /\ work' = Submitted
    /\ Dispatch("top")
    /\ UNCHANGED <<lifecycleVars, controlVars, hotplugVars, passVars, end, scheduler, flags,
                   incidents>>

\* The request whose turn it is, with nothing in flight.
ApplyTurn == At("requests") /\ ~rebased /\ ready # None /\ work = "none"

\* stale_configuration, invalid_configuration, or nowhere to persist it.
RejectReady ==
    /\ ApplyTurn
    /\ ready' = None
    /\ \/ ~ready.fresh /\ NoIncident /\ Reject(ready, {"topology_dirty"})
       \/ ready.fresh /\ ~ValidRequest(ready, scanned) /\ NoIncident /\ Reject(ready, {})
       \/ ready.fresh /\ ready.persist /\ Incident /\ Reject(ready, {})
    /\ UNCHANGED <<lifecycleVars, applies, passVars, end, engineVars>>

\* The scanouts of the request, which has passed every check.
Wanted == Target(Staged(ready), scanned)
Applicable == ApplyTurn /\ ready.fresh /\ ValidRequest(ready, scanned)

\* The same hardware: Flutter and Wayland take the new geometry, or keep the
\* old one and the request fails.
ApplyResident ==
    /\ Applicable /\ ~HardwareDiffers(Wanted)
    /\ ready' = None
    /\ \/ /\ \/ Accept(ready) /\ NoIncident
             \/ AcceptUnpersisted(ready) /\ Incident
          /\ scanouts' = Wanted
          /\ Raise({"output_control_dirty"})
          /\ GoTo("top")
          /\ UNCHANGED <<answers, clientVars, published, connected, scanned, hardware, txn>>
       \/ /\ Wanted # scanouts /\ Incident
          /\ Reject(ready, {"output_control_dirty"})
    /\ UNCHANGED <<lifecycleVars, applies, passVars, end, engineVars>>

\* Other hardware: a transaction.
ApplyHardware ==
    /\ Applicable /\ HardwareDiffers(Wanted)
    /\ txn' = Begin("control", Wanted)
    /\ GoTo("commit")
    /\ UNCHANGED <<lifecycleVars, controlVars, connected, scanned, hardware, scanouts,
                   passVars, end, engineVars, flags, incidents>>

-----------------------------------------------------------------------------
(* The topology rescan.                                                    *)

\* What a rescan finds.
Found == Target(config, connected)

\* The connectors cannot be read, or one has no usable mode.
ScanFails ==
    /\ At("topology") /\ Incident
    /\ flags' = flags \ RescanFlags
    /\ EndSession("scan")
    /\ UNCHANGED <<lifecycleVars, controlVars, hotplugVars, passVars, engineVars>>

\* No connector of the configuration has a monitor: the session waits.
NothingConnected ==
    /\ At("topology") /\ DOMAIN Found = {}
    /\ scanned' = connected
    /\ disconnected' = TRUE /\ rebased' = FALSE
    /\ flags' = (flags \ RescanFlags) \cup {"topology_dirty"} \cup
                 IF disconnected THEN {} ELSE {"output_control_dirty"}
    /\ Dispatch("top")
    /\ UNCHANGED <<lifecycleVars, controlVars, connected, hardware, scanouts, txn, handled,
                   forgotten, end, engineVars, incidents>>

\* Rescans that must wait for the frames of the old topology.
MustRebuild == rebased \/ "kms_reconfigure" \in flags \/ HardwareDiffers(Found)
MustDrain ==
    /\ ~rebased
    /\ MustRebuild \/ "resident_geometry" \in flags
    /\ HasPendingWork \/ (~MustRebuild /\ work = "drawing")

DrainForRescan ==
    /\ At("topology") /\ DOMAIN Found # {} /\ MustDrain
    /\ scanned' = connected /\ disconnected' = FALSE
    /\ Raise({"topology_dirty", "output_control_dirty"})
    /\ work' = Submitted
    /\ Dispatch("top")
    /\ UNCHANGED <<lifecycleVars, controlVars, connected, hardware, scanouts, txn, rebased,
                   handled, forgotten, end, scheduler, incidents>>

\* The geometry alone goes back to the configuration, if Flutter takes it.
RestoreGeometry ==
    /\ At("topology") /\ DOMAIN Found # {} /\ ~MustDrain /\ ~MustRebuild
    /\ "resident_geometry" \in flags
    /\ scanned' = connected /\ disconnected' = FALSE
    /\ \/ /\ scanouts' = Found /\ NoIncident
          /\ flags' = (flags \ (RescanFlags \cup {"scanout_rebased"}))
                         \cup {"output_control_dirty"}
       \/ /\ UNCHANGED scanouts /\ Incident
          /\ flags' = (flags \ RescanFlags) \cup {"topology_dirty", "output_control_dirty"}
    /\ GoTo("top")
    /\ UNCHANGED <<lifecycleVars, controlVars, connected, hardware, txn, rebased, handled,
                   forgotten, end, engineVars>>

\* Everything is rebuilt.
Rebuild ==
    /\ At("topology") /\ DOMAIN Found # {} /\ ~MustDrain /\ MustRebuild
    /\ scanned' = connected /\ disconnected' = FALSE
    /\ flags' = (flags \ RescanFlags) \cup {"output_control_dirty"}
    /\ txn' = Begin("topology", Found)
    /\ GoTo("commit")
    /\ UNCHANGED <<lifecycleVars, controlVars, connected, hardware, scanouts, rebased,
                   handled, forgotten, end, engineVars, incidents>>

\* The rescan found what is driven already.
NothingChanged ==
    /\ At("topology") /\ DOMAIN Found # {} /\ ~MustRebuild /\ "resident_geometry" \notin flags
    /\ scanned' = connected /\ disconnected' = FALSE
    /\ flags' = (flags \ RescanFlags) \cup {"output_control_dirty"}
    /\ GoTo("background")
    /\ UNCHANGED <<lifecycleVars, controlVars, connected, hardware, scanouts, txn, rebased,
                   handled, forgotten, end, engineVars, incidents>>

\* The rest of the pass: bundle reload, then background work and a dispatch.
Background ==
    /\ At("background")
    /\ \/ /\ "output_control_dirty" \in flags
          /\ GoTo("top") /\ NoIncident
          /\ UNCHANGED <<end, engineVars, flags>>
       \/ /\ "output_control_dirty" \notin flags
          /\ "flutter_reload" \notin flags \/ HasPendingWork
          /\ Dispatch("top") /\ NoIncident
          /\ work' = IF "flutter_reload" \in flags THEN Submitted ELSE work
          /\ UNCHANGED <<end, scheduler, flags>>
       \/ /\ "output_control_dirty" \notin flags
          /\ "flutter_reload" \in flags /\ ~HasPendingWork
          /\ \/ GoTo("top") /\ RebuildScheduler /\ flags' = flags \ {"flutter_reload"}
                /\ NoIncident /\ UNCHANGED end
             \/ EndSession("flutter") /\ Incident /\ UNCHANGED <<engineVars, flags>>
    /\ UNCHANGED <<lifecycleVars, controlVars, hotplugVars, passVars>>

-----------------------------------------------------------------------------
(* apply_hotplug_topology.                                                 *)

\* A CRTC that is needed is in foreign use, or staging fails otherwise: the
\* journal was not begun.
StagingFails ==
    /\ At("commit")
    /\ IF Stageable THEN Incident ELSE NoIncident
    /\ GoTo("abort")
    /\ UNCHANGED <<lifecycleVars, controlVars, hotplugVars, passVars, end, engineVars, flags>>

\* Allocation or TEST_ONLY fails, or KMS accepts the outputs in `done' and
\* refuses another.
CommitFails ==
    /\ At("commit") /\ Stageable /\ Incident
    /\ \E done \in SUBSET DOMAIN txn.target :
          /\ done # DOMAIN txn.target
          /\ hardware' = Committed(txn.target, done)
          /\ txn' = [txn EXCEPT !.created = New, !.committed = (done # {})]
    /\ GoTo("abort")
    /\ UNCHANGED <<lifecycleVars, controlVars, connected, scanned, scanouts, passVars, end,
                   engineVars, flags>>

\* Every output is committed, and the wait for the page flips begins.
Commit ==
    /\ At("commit") /\ Stageable
    /\ hardware' = Committed(txn.target, DOMAIN txn.target)
    /\ txn' = [txn EXCEPT !.created = New, !.committed = TRUE, !.pending = TRUE]
    /\ Dispatch("wait")
    /\ UNCHANGED <<lifecycleVars, controlVars, connected, scanned, scanouts, passVars, end,
                   engineVars, flags, incidents>>

\* wait_for_page_flips after a dispatch, the seat being served: wait on, or
\* go on when nothing is outstanding.  A pause has emptied `pending'.
WaitForFlips ==
    /\ At("wait") /\ ~pause_pending /\ ~MustResume
    /\ \/ txn.pending /\ Dispatch("wait")
       \/ ~txn.pending /\ GoTo("replace")
    /\ UNCHANGED <<lifecycleVars, controlVars, hotplugVars, passVars, end, engineVars,
                   flags, incidents>>

\* The deadline passes, or the seat comes back to a state KMS rejects.
WaitFails ==
    /\ At("wait") /\ ~pause_pending /\ Incident
    /\ \/ txn.pending /\ ~MustResume /\ UNCHANGED lifecycleVars
       \/ MustResume /\ ResumeFails
    /\ GoTo("abort")
    /\ UNCHANGED <<controlVars, hotplugVars, passVars, end, engineVars, flags>>

\* The old engine does not drain or stop, a retired CRTC cannot be cleared
\* (none can while the device is paused), Wayland rejects the topology or
\* the new engine does not start; then the old one starts again, or not.
ReplaceFails ==
    /\ At("replace")
    /\ IF Retired # {} /\ ~drm_active THEN NoIncident ELSE Incident
    /\ \E cleared \in SUBSET Retired :
          /\ ~drm_active => cleared = {}
          /\ hardware' = [o \in Outputs |-> IF o \in cleared THEN Off ELSE hardware[o]]
    /\ \E alive \in BOOLEAN : txn' = [txn EXCEPT !.alive = alive]
    /\ GoTo("abort")
    /\ UNCHANGED <<lifecycleVars, controlVars, connected, scanned, scanouts, passVars, end,
                   engineVars, flags>>

\* The rollback, and what the caller makes of the error.
Abort ==
    /\ At("abort")
    /\ \E bad \in SUBSET Compensated :
          /\ IF drm_active THEN IF bad = {} THEN NoIncident ELSE Incident
                           ELSE bad = Compensated /\ NoIncident
          /\ Restore(bad)
          /\ owned' = (owned \/ (drm_active /\ RollbackRequired /\ bad = {}))
          /\ LET recovery == IF bad = {} THEN {} ELSE {"kms_presentation_recovery"} IN
             \/ /\ txn.origin = "control"
                /\ Refuse(ready) /\ ready' = None
                /\ Raise(recovery \cup {"output_control_dirty"})
                /\ IF txn.alive
                     THEN RebuildScheduler /\ GoTo("top") /\ UNCHANGED end
                     ELSE EndSession("flutter") /\ UNCHANGED engineVars
             \/ /\ txn.origin = "topology"
                /\ UNCHANGED <<open, ready, engineVars>>
                /\ IF rebased /\ txn.alive
                     THEN /\ Raise(recovery \cup {"scanout_rebased", "topology_dirty"})
                          /\ Dispatch("top") /\ UNCHANGED end
                     ELSE Raise(recovery) /\ EndSession("hotplug")
    /\ txn' = None /\ rebased' = FALSE
    /\ UNCHANGED <<seat_active, pause_pending, shutdown, drm_active, applies, answers,
                   succeeded, configVars, clientVars, published, connected, scanned,
                   disconnected, handled, forgotten>>

\* The new scanouts, engine and scheduler take over.
Finish ==
    /\ At("replace") /\ (Retired = {} \/ drm_active)
    /\ Install
    /\ RebuildScheduler
    /\ txn' = None /\ rebased' = FALSE /\ forgotten' = FALSE
    /\ \/ /\ txn.origin = "control"
          /\ \/ Accept(ready) /\ NoIncident
             \/ AcceptUnpersisted(ready) /\ Incident
          /\ ready' = None
          /\ flags' = (flags \ {"scanout_rebased"}) \cup {"output_control_dirty"}
       \/ /\ txn.origin = "topology" /\ NoIncident
          /\ UNCHANGED <<configVars, ready, succeeded, open>>
          /\ flags' = (flags \ {"scanout_rebased", "flutter_reload"})
                         \cup {"output_control_dirty"}
    /\ GoTo("top")
    /\ UNCHANGED <<lifecycleVars, applies, answers, clientVars, published, connected,
                   scanned, disconnected, handled, end>>

-----------------------------------------------------------------------------
\* A session that has ended.
Ended == At("ended") /\ UNCHANGED vars

Callback == Seat \/ Client \/ Replug \/ UserSignal \/ FrameProgress \/ TransactionFlips

Pass ==
    \/ Return \/ ServicePause \/ AwaitSeat \/ ResumeSession \/ ResumeRejected
    \/ BeginRecovery \/ Recover \/ RecoveryInterrupted
    \/ ExpireConfirmation \/ Boundary \/ Stall \/ SubmitToClosedQueue \/ Frames
    \/ Answer
    \/ NoRequest \/ ScanRequest \/ RejectUnscanned \/ DrainFrames
    \/ RejectReady \/ ApplyResident \/ ApplyHardware
    \/ ScanFails \/ NothingConnected \/ DrainForRescan \/ RestoreGeometry \/ Rebuild \/ NothingChanged
    \/ Background
    \/ StagingFails \/ CommitFails \/ Commit \/ WaitForFlips \/ WaitFails \/ ReplaceFails
    \/ Abort \/ Finish

Next == Callback \/ Pass \/ Ended

Spec == Init /\ [][Next]_vars

\* The loop keeps running.  Frames are drawn and presented, flips of a
\* transaction arrive and the watchdog fires, each in time, though a pass
\* may come before it: the dispatch or the check in question recurs.
Fairness ==
    /\ WF_vars(Pass)
    /\ SF_vars(FrameProgress /\ NoIncident)
    /\ SF_vars(TransactionFlips)
    /\ SF_vars(Stall /\ NoIncident)

FairSpec == Spec /\ Fairness

-----------------------------------------------------------------------------
(* Properties.                                                             *)

\* Once a pass is past its service of the seat, no other session has
\* programmed KMS since this one last established its state: a VT switch
\* away and back within one dispatch is noticed.
KmsIsOurs ==
    pc \in {"frames", "answers", "requests", "topology", "background", "commit"} =>
        drm_active /\ owned

\* Every output this session drives scans out what the scanout vector says,
\* and no other output is left in a mode of this session, whatever was
\* interrupted, refused or rolled back: an output it does not drive is off,
\* or lit by another session that had the seat (resuming leaves such a CRTC
\* alone).  The exceptions: a recovery is due, is under way or was
\* forgotten.  A pass that ends a confirmation drops its rebuild, and
\* RecoveryKeepsSession is about what that leads to.
HardwareMatchesScanouts ==
    \/ scheduler = "shut" \/ "kms_presentation_recovery" \in flags \/ forgotten
    \/ txn # None \/ ~drm_active \/ ~owned
    \/ \A o \in Outputs : IF o \in DOMAIN scanouts THEN hardware[o] = scanouts[o].hw
                                               ELSE hardware[o] \in {Off, Foreign}

\* A request that passes for current is judged against the state its client
\* was shown: no connector, scanout or configuration changed unpublished.
SnapshotIsCurrent == ApplyTurn /\ ready.fresh => published = Snapshot

\* A loop that has nothing left to do drives the configuration's outputs in
\* the configuration's modes.
ConfigurationIsApplied ==
    At("dispatch") /\ after = "top" /\ flags = {} =>
        Driving(scanouts) = Driving(Target(config, scanned))

\* Requests, answers, deadlines, persistence failures, VT switches and
\* recoveries together implement the trial of a configuration: a rollback
\* returns to the configuration before the trial, never to another trial,
\* and an unconfirmed configuration is not what a restart reads.
Trial == INSTANCE ConfigurationTrial WITH
    final <- IF confirming = None THEN config ELSE confirming.rollback,
    trial <- IF confirming = None THEN None ELSE config,
    saved <- file

ImplementsTrial == Trial!Spec

\* Every client is answered, while there is a seat and a monitor.  The
\* exception is a rescan that needs a CRTC another session left lit: a
\* rebased pass is refused that transaction and tries again for ever, and
\* leaves the requests in their queue.
RequestsAnswered ==
    []<>(\/ open = {} \/ pc = "ended" \/ ~seat_active \/ DOMAIN Found = {}
         \/ \E o \in DOMAIN Found \ DOMAIN scanouts : hardware[o] = Foreign)

\* recover_stalled_kms_presentation keeps the session.
RecoveryKeepsSession == end # "broken_pipe"

=============================================================================
