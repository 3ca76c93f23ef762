# A TLA+ verification of the Denial compositor

Denial is a Wayland compositor in Rust (`src/compositor`) whose desktop is drawn
by a Flutter engine. This directory holds TLA+ models of its components, the
TLC configurations that check them on small instances, and proofs that TLAPS
checks for every instance.

    tlc -workers 2 -config Presentation_single.cfg MCPresentation
    tlc -workers 2 -config Authentication_checks.cfg Authentication
    tlc -workers 2 -config Reconfiguration_session.cfg MCReconfiguration
    tlc -workers 2 -config DisplayPower_session.cfg MCDisplayPower
    tlc -workers 2 -config Clipboard_session.cfg Clipboard
    tlc -workers 2 -config Keyboard_session.cfg MCKeyboard
    tlapm PresentationProofs.tla
    tlapm PresentationSessionProofs.tla
    tlapm AuthenticationProofs.tla
    tlapm ReconfigurationProofs.tla
    tlapm DisplayPowerProofs.tla
    tlapm ClipboardProofs.tla
    tlapm KeyboardProofs.tla

`PROJECT.json` lists the runs, the source lines behind every definition, the
mutants that show each property can fail, the findings, the hazards and the
theorems.

## The system

Paths are relative to `src/compositor/src/bin/deniald/` unless they start with
`src/`.

| Component | State | Operations | Hard part | What makes it correct |
|---|---|---|---|---|
| Output buffer broker, `flutter_runtime/output_pipeline.rs` | per output: state and reference count of each slot, the authorized frame request | authorize, acquire, mark ready, publish, retain, release, expire | called by the loop, the raster thread and lease drops under one mutex | no slot is written while anything reads it; counts are exact |
| Output scheduler, `output_scheduler.rs` | per output: scanning, ready and in-flight frame, render fences, wake modeset | publish, acknowledge fences and Volition, submit, retire flips, power off and on | fences, commits and flips finish in any order; late signals | the scheduler agrees with KMS; no error return |
| Volition, `src/compositor/src/volition/mod.rs` | queued commits, instance number | submit, attempt, report, shut down | its own thread; retries; events of a replaced worker | every commit ends in one event, taken by its owner |
| Main loop, `flutter_event_loop.rs` | pending flips, recovery and topology flags | one pass over all services | the order of the passes; early `continue`; recovery in mid-flight | content reaches the screen; frames retire |
| Frame scheduler, `frame_scheduler.rs` | dirty outputs and serials, timelines | mark dirty, step, complete | damage that arrives during a render | the newest damage is always rendered |
| Raster callbacks, `flutter_runtime/renderer/handler*` | open transaction, sampled buffers | make current, create backing store, present, raster idle | a copy that fails; late raster tasks | a claimed slot is published or recycled |
| Display power, `dpms.rs` | queued requests, wake grace | apply a batch, roll back | waits for frames in flight; partial failure | a batch is applied or undone, and ends |
| KMS recovery, hotplug, lifecycle, `kms_session.rs`, `hotplug_transaction.rs`, `lifecycle.rs`, `session_activation.rs` | pause edges, transaction journal | pause, resume, recover, commit, roll back | hardware that fails half way | rollback exactly when something was committed |
| Output control, `output_control.rs` | pending configuration and its deadline | apply, confirm, revert | timeout against a late confirmation | a configuration is kept or reverted once |
| Idle policy, `idle_policy.rs` | activity, inhibitors, deadlines, outputs it blanked | activity, tick, power results | clients, users, timers and hotplug change one output | what was blanked can be woken; what the user turned off stays off |
| Authentication, `authentication.rs` | lock flag, gate, attempt, generation, prompt | lock, begin, respond, cancel, worker result | worker thread against lock and cancel; prompt timeout | only a current attempt unlocks |
| Settings, `settings.rs`, `flutter_settings_sync.rs` | document, revision, bytes on disk | prepare, commit, reload | external writers; crash around a rename | memory and file agree; no lost update |
| Clipboard, `clipboard.rs`, `wayland_frontend/clipboard.rs` | history, current selection, capture epoch, lock, queued seat actions | observe, capture, finish, pin, delete, pause, lock | late data for an old epoch; actions lost at a lock | only current data is recorded; the seat offers what is current |
| Keyboard routing, `native_shortcut.rs`, `wayland_frontend/input.rs` | modifiers, captured, active and retired keys | press, release, virtual taps, reset, new engine | the route changes while keys are down | every press is released to whoever saw it |
| Engine plumbing, `flutter_runtime/event_pipeline.rs`, `renderer/texture.rs` | armed flags, inboxes, producer state | push, take, request, begin, time out | lost wakeups; timeout against a late start | no item without a wakeup; one producer |
| Wayland frontend, `wayland_frontend/` | protocol objects, focus, captures, input methods | client requests | client order and disconnects | protocol rules |
| Window logic, `window_grab.rs`, `window_layout.rs`, `src/compositor/src/topology.rs` | grabs, geometry | pure functions | edge cases of geometry | results inside their bounds |
| Portal, notifications, tray, system controls, UI development | sockets and services | messages | mostly I/O | – |
| Dart shell, settings application, protocol, tools, packaging | user interface, generated code, scripts | – | – | not modelled |

### How the presentation path works

The compositor thread runs `run_flutter_event_loop`. A pass acknowledges render
fences and Volition's events, retires page flips, submits ready frames,
publishes finished frames, authorizes outputs whose timeline tick is due, submits
again, serves captures and power requests, and then blocks in `dispatch`. Flutter's
raster thread acquires a slot of an authorized output, draws, and marks it ready
behind a GPU fence. A published slot waits for that fence, then goes to Volition,
a worker thread that performs the nonblocking atomic commit and reports
`Submitted`, `Stalled` or `Failed`. The kernel's page-flip event retires the
frame and releases the previous slot. A stall, a withheld flip or a failed wake
leads to a recovery: the worker is joined, every CRTC is disabled, and the
topology transaction builds new pools and a new scheduler.

### How the outputs are reconfigured

Four parties change the outputs: the seat (VT switches), the kernel (hotplug), the
settings client (apply requests and their confirmation) and the display itself
(recoveries). They meet in the second half of a pass of the same loop, in the order
lifecycle, recovery, confirmation, apply request, topology branch, and nearly every
one of them may `continue` and so skip the rest. A topology change is a transaction:
commit the changed CRTCs, wait for their page flips, replace the renderer; when a
step fails, what was committed is rolled back. A configuration is tried first and
kept or reverted by a confirmation or its deadline; only then is it written down.

Power is decided elsewhere: the idle policy, clients of the power protocol, the
power key and configurations queue requests, of which the last one for an output
counts, and a pass applies them as one batch. A monitor that is asleep may drop off
the bus, so `DpmsTopologyGuard` delays what its connector reports.

## Modules

| Module | Models | State and actions |
|---|---|---|
| `OutputBufferBroker` | the broker | `bufferState`, `outputRefs`, `slotSerial`, `authorized`; guards and updates of its methods as operators |
| `Volition` | the commit worker | `jobs`, `volitionEvents`, `instance`; `SubmitForTarget`, `AcceptJob`, `ReportSubmitted`, `RefuseJob`, `ShutdownVolition` |
| `OutputScheduler` | pipelines, fences and the dirty set | `scanning`, `ready`, `inFlight`, `scheduled`, the fence and power variables; `PublishReady`, `AcknowledgeReadyFence`, `AcknowledgeVolition`, `ScheduleReady`, `WakeReady`, `RetireCompletion`, `DiscardReady` |
| `Presentation` | the composition: main loop, raster thread, worker, GPU and KMS | `phase` is where the loop is; one action per handled signal, event, flip, pipeline or frame, so other threads interleave inside a pass; the properties |
| `MCPresentation` | – | the power requests of the checked instances |
| `PresentationProofs` | – | the inductive invariant and the theorems about buffers |
| `PresentationSessionProofs` | – | on top of it, the theorems about events, ids and KMS |
| `Authentication` | the session lock: controller, PAM worker, event queue, and the boundary of the main loop | the fields of `AuthenticationState`, `locked`, `gate`, `applied`, `events`; one action per critical section or queue operation |
| `AuthenticationProofs` | – | its inductive invariant and theorems |
| `SessionLifecycle` | seat pauses and activations, shutdown, KMS mastership | `PauseSession`, `ActivateSession`, `TakePause`, `Regain`, `ResumeFails` |
| `OutputControl` | apply requests, snapshots, confirmations, the saved file | `RequestApply`, `RequestAnswer`, answers and rejections |
| `HotplugTransaction` | a topology change: journal of committed CRTCs, flips awaited, rollback | `Begin`, `Committed`, `Compensated`, `Restore`, `Install` |
| `ConfigurationTrial` | abstract specification of configuring | `Change`, `Try`, `Keep`, `Undo` on the kept, the tried and the saved configuration |
| `Reconfiguration` (`MCReconfiguration`) | the composition: one pass from the seat to the topology branch | one action per section of the pass, each with its early returns; the refinement of `ConfigurationTrial` |
| `ReconfigurationProofs` | – | its invariants, layer by layer, and the refinement, step by step |
| `IdlePolicy` | timers, inhibitors, blanked outputs | operators that name the outputs to turn on or off |
| `DpmsTopologyGuard` | the delayed view of sleeping connectors | `NotePower`, `Excused`, `DeferMissing`, `RemovalDue`, `Cancel` |
| `DisplayPower` (`MCDisplayPower`) | the composition: who asks for power, which request wins, what a pass applies, defers or rolls back | one action per source of requests and per section of the pass |
| `DisplayPowerProofs` | – | its inductive invariant and theorems |
| `ClipboardState` | the state under the clipboard's mutex | one operator per method of `ClipboardManager`, on a record |
| `Clipboard` | its callers: selections, pipe readers, shell commands, the seat | one action per callback; reader and loop interleave |
| `ClipboardProofs` | – | what every method keeps, and the theorems |
| `ShortcutEngine` | chords, captured keys, the owner of the switcher | `Observe` on a record, with its cases |
| `Keyboard` (`MCKeyboard`) | the route of a key transition and what changes it | `Press`, `Release`, `ShellTap`, `ShellPress`, `ShellRelease`, `SynchronizeBoundary`, `ReplaceFlutter`, ... |
| `KeyboardProofs` | – | what the shortcut engine answers, the inductive invariants and theorems |

The four modules of the presentation path extend one another in this order, because the broker's
references are changed by the scheduler, and Volition's queue by both.

`Reconfiguration` extends `HotplugTransaction`, which extends `SessionLifecycle` and
`OutputControl`; `DisplayPower` extends `IdlePolicy` and `DpmsTopologyGuard`;
`Clipboard` extends `ClipboardState`, `Keyboard` extends `ShortcutEngine`. The three
views of the main loop overlap on purpose. `Presentation` has every buffer and
reduces reconfiguration to a recovery; `Reconfiguration` has every request and
failure and reduces the frames in flight to one piece of work; `DisplayPower` has
every request for power and reduces a rebuild to one step.

`Authentication` stands alone: the presentation path does not read the lock. A main
thread action is one `handle_packet` command, a drop, a `try_event`, or one half of
`synchronize_authentication_boundary`; a worker action is one critical section of
`run_authentication_worker` or `converse`. Events built under the state mutex and
pushed after it are kept in `push`, so the other thread can push first.

Abstractions:

* A frame's content is its serial, and all that matters of a serial is whether it
  is the output's latest: `slotSerial` is `"latest"` or `"superseded"`, and new
  damage supersedes every slot and request of the output.
* Time is abstracted. Deadlines decide when a timer or an attempt happens, so a
  due tick, a retry, an expired authorization or the watchdog may happen at any
  moment the code can be waiting for it. A ready frame whose edge has passed is
  the nondeterministic `drop` of `HandleCompletion`.
* Render-fence tokens are 64-bit counters in the code and compared for one slot
  only; a token is fresh when no watch, signal or fence of the slot carries it.
* A refused commit that Volition retries is a stutter; only its last refusal is a step.
* Failures are named interruptions: `Interruptions` says which an instance may
  meet, `MaxInterruptions` how many one behaviour meets.
* Error returns end the session. Those of internal checks lead to the phase
  `exited`, which `SessionSurvives` says is unreachable; a commit that KMS refuses
  with an unrecoverable error leads to `terminated`, as the code intends.
* External parts are the GPU (`GpuComplete`), the page flip (`Vblank`), a link
  that withholds one (`WithholdFlip`) and the clients.
* Left out of `Presentation`: a render fence that cannot be made or exported, which
  treats the slot as a failed copy does and then ends the session (`FatalRender`);
  and the error returns of `power_off` and `power_on` (`output_scheduler.rs:1646`,
  `:1705`). They repeat what `apply_output_power_requests` has selected the output by
  in the same call: nothing in flight, a parked framebuffer, a pool whose `current`
  moves with `scanning`. No other actor runs in between. The one error of a batch
  that depends on other threads, a discard of a ready frame, ends the session in the
  model too.
* `Rebuild` is the successful topology transaction after a recovery. It waits for
  its own page flips on the same DRM fd, so no older flip event is left in it.
  Transactions that fail and are retried are in `Reconfiguration`.
* In `Authentication` an event is the code that built it and its two flags, an answer
  the attempt and prompt it was typed for. Waits on the condition variable are
  guards, since every section that can end a wait notifies. PAM may put prompts,
  fail or succeed as it likes, even after a prompt was refused. Cooldowns and the
  prompt timeout may end at any time. The shell may send any command at any time,
  late and wrong ones included, which is more than the Dart code does; commands that
  are ignored are stutters. `lock` is called on the main thread only, so the
  re-check in `acknowledge_unlocked_boundary` is one step.
* In `Reconfiguration` an output's state is a mode or off, and a place. Frames are
  one flag, idle, drawn or in flight. A commit, a persist, a resume and a renderer
  replacement may each fail, as `MaxIncidents` allows, and so may a scan, which ends
  the session. Deadlines may pass at any time. A CRTC is identified with its output.
  When the seat comes back, `ProgrammedByOthers` leaves each output off or `Foreign`,
  as another session pleased; resuming commits the scanouts and does not touch the
  other outputs, and `Stageable` refuses a transaction that would create a scanout on
  a foreign CRTC. The journal of a transaction remembers the outputs it created, since
  those are the ones a rollback clears. Left out: display power, rotation by the sensor, removal of the device,
  screenshots, UI development, frame limits and the limit on outputs.
* In `DisplayPower` time counts idle steps. Rebases, rebuilds, hotplug, failed
  batches and withheld flips are events. Locking and suspending leave no state here,
  only that the timer has fired. Left out: reports to clients, changes of mode in
  the guard, and configuration requests while the connectors differ from the
  scanouts.
* In `Clipboard` a content is a model value with the kinds it is offered in; the
  history has a count limit only. The deque of the history is a set: ids are given
  out in order, new items enter at the front, and one that repeats the front keeps
  its id, so the order of the deque is that of the ids. A lock is what `synchronize_clipboard` reads,
  without the delay of `gate_reopens`. Wayland and X11 owners of the seat's selection
  are not told apart: another owner than the epoch's has begun a newer epoch, which a
  capture checks first. Left out: a timer that the event loop refuses after the reader
  was added (`clipboard.rs:399`), after which that reader has no timeout; bytes and their limits, the packet
  encoding, sending retained data, the effect of a drag.
* In `Keyboard` a transition is one step, since every call runs on the loop's
  thread; what is concurrent is the order of sources and route changes. Smithay's
  seat is external: a set of pressed keys and what the filter passes on. The shell's
  capture may change at any time; an input method's grab ends it. The physical
  keyboards are one. The model is of the Flutter loop, which sets `flutter_active`
  before its first pass (`flutter_event_loop.rs:186`) and never clears it; the branches
  of `process_keyboard_transition` for the other loop (`input.rs:971`) are not part of
  it. Replacing the shortcuts installs any file of `Shortcuts`. `stray` is a history
  variable: the keys of the two exceptions of `KeysComeUp`, each until nobody
  remembers its press. Left out: gesture
  shortcuts, key repeat, keymaps and compose, keys returned by an input method,
  focus changes, pointers and touch.

## Properties

* `TypeOK`: types.
* `ScanoutSafe`: a slot that KMS shows, has accepted, or that Volition holds is
  `Free` in the broker and has no unfinished GPU work.
* `RefsExact`: `output_refs` is the scheduler's claim plus the capture leases.
* `SessionSurvives`: no internal error return is reachable.
* `SchedulerAgreesWithKms`: outside a recovery, an output with nothing in flight
  shows what its pipeline believes, and no flip of its own is left in KMS.
* `RenderTargetsAreIdle`: a slot becomes a render target only when KMS, Volition,
  captures and the GPU are done with it.
* `ScreenCatchesUp`: once damage and power requests stop, the latest content is on
  screen or the output is off.
* `FramesRetire`: no frame stays in flight for ever.
* `PowerOffCompletes`: a waiting power-off is not starved.

`Authentication`:

* `UnlockIsCurrent`: an attempt that a lock, a cancellation, a prompt timeout or the
  shutdown has overtaken never unlocks. `validFrom` records the oldest attempt that
  nothing has overtaken, independently of `busy` and of generations.
* `GateOpensAfterBoundary`: the gate is open only while the session is unlocked and
  the loop has applied that.
* `ResponseMatchesPrompt`: PAM gets the answer to the prompt it waits on.
* `NewestEventIsCurrent`: with nothing left to push, the newest event shows the lock
  and busy flags as they are. Answers to `Synchronize` are excepted: no
  `publish_state` follows them, so an unlock between snapshot and push leaves a
  stale one last.
* `AttemptsEnd`, `ShutdownCompletes`: no attempt stays busy, and no drop hangs.
* `GateReopens`: an unlocked session opens its gate (violated, see the findings).

`Reconfiguration`:

* `KmsIsOurs`: past the service of the seat, no other session has programmed KMS
  since this one last did: a VT switch away and back within one dispatch is noticed.
* `HardwareMatchesScanouts`: every output this session drives scans out what the
  scanout vector says, and no other output is left in a mode of this session, whatever
  was refused or rolled back, unless a recovery is due, is under way, or was
  forgotten. An output it does not drive may be lit by another session that had the
  seat. The history variable `forgotten` is set when a pass ends a confirmation
  and with it drops the rebuild of its recovery, the third finding; until the next
  transaction installs its outputs, vector and kernel may differ.
* `SnapshotIsCurrent`: a request that passes for current is judged against the state
  its client was shown.
* `ConfigurationIsApplied`: whenever a pass ends with no flag raised, the scanouts are
  the configuration's outputs in the configuration's modes.
* `ImplementsTrial`: the refinement. `final` is the configuration in memory or, while
  one is confirmed, its rollback, `trial` the one on trial, `saved` the file. Every
  step is one of `ConfigurationTrial` or a stutter: a rollback never returns to
  another trial, and an unconfirmed configuration is not what a restart reads.
* `RequestsAnswered`: every client is answered, while there is a seat and a monitor,
  and no output that is to be driven is on a CRTC another session left lit.
* `RecoveryKeepsSession`: a recovery does not end the session (violated).

`DisplayPower`:

* `BlankIsRemembered`: an output that a timer or the user turned off, or is about to,
  is one that the next activity turns on again.
* `UserOffIsKept`: what the user turned off stays off until the user, a client or a
  configuration asks for it; an inhibitor does not undo it.
* `RequestsApplied`: the queue of requests is worked off, also when frames in flight
  put a batch off.
* `MissingIsRemoved`: an output that is on without a monitor is given up in the end,
  also when the guard put its removal off.

`Clipboard`:

* `TypeOK`: types, and the limit of the history.
* `CurrentIsRetained`: the current selection is backed by what is retained, after
  pins, deletions, evictions and clears alike.
* `OvertakenIsNotRecorded`: a capture that a lock, a pause, a clear or a newer
  selection has overtaken is not recorded, however late its data comes.
* `CapturesEnd`: a capture that has started ends.
* `OwedIsOffered`: an item that the clipboard owes the seat, after a command or an
  unlock, is offered, unless the selection is another's by then.

`Keyboard`:

* `KeysComeUp`: what a client or Flutter believes is down is held down. Excepted
  (`stray`) are a key pressed on a keyboard while the seat has it down from the
  on-screen one, and a modifier other than SUPER whose release ends the switcher in a
  locked session; see the observations.
* `FlutterKeysMatch`: the router and Flutter agree on Flutter's keys.
* `RetiredAreDown`: a key is retired, and so ignored, only while it is down, with the
  same exceptions and that of a key the on-screen keyboard held at a reset.

## Runs

| Run | Instance | Shows |
|---|---|---|
| `presentation_single` | one output, damage, power off and on, two of all interruptions but `kms_failure` | the safety properties under every pair of failures |
| `presentation_pair` | two outputs, one capture each, power-off batches, one failed copy, commit or CRTC clear | `SessionSurvives` and `SchedulerAgreesWithKms` when outputs share the raster transaction, Volition and a batch; the theorems cover any number of outputs |
| `presentation_live` | one output, damage, one expiry, stall or withheld flip | `ScreenCatchesUp`, `FramesRetire` |
| `presentation_power` | one output, damage, power off and on, one failed wake | `ScreenCatchesUp`, `PowerOffCompletes` |
| `missed_edge` | one output, one missed edge | violation: first finding |
| `authentication` | two attempts, two prompts, two further commands, a queue of two | all properties of `Authentication` but `GateReopens` |
| `gate_reopens` | one attempt, one prompt, one command | violation: second finding |
| `reconfiguration` | two outputs, two apply requests, one answer, two incidents, three events in all | all properties of `Reconfiguration` but the last; 683,917 states |
| `recovery_rebuild` | the same model with one request and its answer | violation: third finding |
| `display_power` | two outputs, one idle step, three events | all properties of `DisplayPower`; 153,473 states |
| `clipboard` | one content, a history of two, four events, two locks | all properties of `Clipboard`; 119,123 states |
| `keyboard` | SUPER, SHIFT and two keys, two shortcut files that replace each other, one of the keys also on the on-screen keyboard and possibly held on both | all properties of `Keyboard`; no bound; 990,236 states |

Bounds. Three slots per output are the code's own pool size: one scanning, one in
flight, one to draw into. Three tokens let a slot have a current watch, a late one
and a fresh one; a publication waits when there is no fresh token, which needs two
late watches of one slot and hence two recoveries. Two outputs are enough to share
the transaction, the worker and a power batch, and to move a pipeline's position.
Two interruptions let a failure hit
the handling of another. `MaxLeases = 1` lets a capture outlive its frame. Queues,
events and flips are bounded by the pipelines and have no bound of their own. The
first frame of every output is damage already, so an output that is not in
`Animated` still draws one frame.

In `authentication`, two attempts let a late result or answer meet the next attempt,
two prompts let an answer meet the next question of the same attempt, and two
commands let a lock and a cancellation or synchronisation overlap. A queue of two
overflows often; the code's 64 would not. The run allows the controller to shut down,
after which nothing happens, so deadlock is not checked.

In `reconfiguration`, two outputs let a transaction fail between its commits, two
requests let one outdate the other's snapshot, and two incidents let a failure hit
the handling of another; three events are enough for a request, its answer and an
incident in any order. In `display_power`, one idle step separates before and after
the timeout, and three events suffice for a request, what changes it and what fails.
Its invariants also hold with four events (968,458 states). In `clipboard`, a history
of two overflows, four events allow a selection, a capture, a command and a newer
selection, and two locks a lock during the handling of another. `keyboard` is finite
as it stands: two ordinary keys suffice, since the router treats keys apart and only
modifiers and the switcher relate them.

Fairness of `FairSpec` in `Presentation`: the loop, the raster thread and the worker are always
scheduled (weak fairness); the GPU finishes its work, CRTCs that are not withheld
flip, leases are dropped and retry deadlines pass (weak). Authorizing a renderable
output and the watchdog are enabled in one phase of each pass only, and the ticks
and timers behind them persist until they are served, hence strong fairness.
`dispatch` always returns because the next timeline deadline bounds its timeout.
Interruptions, damage and power requests are never assumed. The liveness runs that
pass leave out the two failures of the findings, and `clear_failure` and
`cancelled_power_off`, which discard a published frame in the same way.

Fairness in `Authentication`: both threads run, PAM returns, the prompt timeout
elapses, and the loop comes back to its event queue and to the boundary (weak
fairness of each). Commands are never assumed. That the loop comes back to the
boundary does not say that it sees every change of the lock: a pass that used up its
slice skips it (`flutter_event_loop.rs:1515`).

Fairness in `Reconfiguration` and `DisplayPower`: passes of the loop go on (weak). A
drawn frame flips and, without an incident, makes progress, the flips of a
transaction arrive, a withheld one is noticed by the watchdog, time passes, and a due
rebuild is reached (strong, since passes in between disable them). Requests and
incidents are never assumed. The topology branch has no barrier against new frames,
so that it is reached is an assumption on their rate. Fairness in `Clipboard`: the
loop synchronizes and applies actions, idle callbacks run, and a reader ends by data,
error or its timeout (weak).

## Findings

1. `missed_edge`. `complete_render` clears the damage when a frame is published
   (`flutter_event_loop.rs:509`). `handle_completions_inner` may then drop that
   frame because its edge has passed (`output_scheduler.rs:1431`), expecting the
   due tick to render again; but the output is clean, so a tick renders nothing.
   The newest content stays off screen until something else changes.
2. `gate_reopens`. `synchronize_authentication_boundary` does nothing when the lock
   equals `session_lock_applied`. When the session is locked and unlocked between
   two of its calls, it sees no change, `acknowledge_unlocked_boundary` is not
   called, and system commands stay rejected although the session is unlocked. It
   takes passes that overrun their slice and a quick PAM answer; the next lock and
   unlock repair it.
3. `recovery_rebuild`. `scanout_rebased` is taken into a local of the pass
   (`flutter_event_loop.rs:424`) for the topology branch further down. When the same
   pass handles a confirmation it continues before that branch (`:766`), and the
   flag is gone. The scheduler then keeps submitting to the Volition that the
   recovery has shut down, and the error return ends the session.

### Observations

Behaviour met while modelling that no run is spent on.

* A failed copy leaves its slot `Rendering` for "the next acquisition"
  (`open_gl.rs:294`), but `target_available` refuses an output with any slot that is
  not `Free`, so the output is not authorized again. Adding `"blit_failure"` to the
  interruptions of `Presentation_live.cfg` violates `ScreenCatchesUp`.
* `CommitId::stream` is a position in the pipeline vector (`output_scheduler.rs:1239`),
  and a power-off moves the later ones: with three outputs two outstanding commits
  may have one id. No wrong frame is retired, and `SessionIsKept` covers it.
* With the window switcher bound to ALT+TAB instead of the default, pressing it in a
  locked session leaves ALT down in Flutter and the seat: the release is
  `RequestWindowSwitcherEnd { forward: true }`, and the locked branch of
  `intercept_native_escape` swallows everything that is not `Forward`
  (`input.rs:1811`: "so releases stay balanced"). After the unlock ALT is retired
  though it is up, and its next press is ignored. The second file of `MCShortcuts`,
  with SHIFT+TAB, reaches this; without the exception `stray` TLC violates
  `KeysComeUp` and `RetiredAreDown` after three or four key events.
* A key held on the on-screen keyboard at a reset stays retired, because its release
  is refused: `RetiredAreDown` excepts it. The on-screen keyboard refuses a key that
  the seat has down; a keyboard does not refuse a key that the on-screen one holds.
  When the shell's capture changes in between, the second press goes to another
  route, and one of the two presses has no release: without the exception `stray` TLC
  violates `KeysComeUp` after such a press, its release and a reset.
* What another session lit on an output this layout does not drive stays lit after
  the return: `activate(false)` and the commits of the scanouts leave it alone
  (`kms_session.rs:85`). A layout that wants the output is refused ("assigned to an
  active foreign CRTC", `kms_pipeline.rs:437`). In a pass that follows a recovery the
  rebuild is retried for ever and requests wait in their queue; in any other pass the
  error return ends the session, although `flutter_event_loop.rs:277` says of
  assignments changed by another VT that they need "a fresh topology, not an exit".
* A reset or new shortcuts forget which keys were captured and that SUPER was part of
  a chord: a captured key's release then reaches the client without its press, a
  SUPER release may open the launcher, and an open switcher is not ended.
* A reset releases the keys an input method returned to Flutter only while the seat
  also has them pressed (`input.rs:1538`), so an input method that answers late may
  leave a key down in Flutter.
* A deleted clipboard item stays offered when a lock drops the queued `Clear`. A
  selection made in the moment of locking is not observed, and the unlock's `Publish`
  may replace it. When `start_capture` cannot make its pipe, the capture stays
  pending. The reset to `External` in `enforce_limits_to` is unreachable.
* When the geometry of a renderer that stays resident cannot be rolled back, only
  `topology_dirty` is set (`flutter_event_loop.rs:1362`), and the rescan finds nothing
  to do. `PreparedOutputConfig::commit` may report a failure after its rename.
* An output that a client turned off may be woken by activity when its off was
  deferred and the timeout came in between (`idle_policy.rs:494`). Turning on a
  blanked output by a configuration leaves it in `blanked_outputs`. A suspend may be
  requested while the batch that turns the displays off is deferred. A client is not
  told "on" when the scheduler is rebuilt while its wake is pending. `cancel` of the
  guard for one output drops the protection of the others.
* `apply_control_touchpad` and `apply_control_mouse` (`flutter_settings_sync.rs:873`)
  do not undo a partly applied setting, as the shell's own path does.

## Proofs

`PresentationProofs` proves, for any finite set of outputs, any number of slots,
tokens, leases and interruptions:

* `TypeCorrect`: `Spec => []TypeOK`
* `ReferencesExact`: `Spec => []RefsExact`
* `ScanoutIsSafe`: `Spec => []ScanoutSafe`
* `TargetsAreIdle`: `Spec => RenderTargetsAreIdle`

They follow from one invariant, `IInv`, with `Init => IInv` and
`IInv /\ [Next]_vars => IInv'`, one lemma per action:

* `TypeOK`;
* `BufferInv`: `RefsExact`; the scheduler's claims on different slots are
  disjoint; slots in production are unreferenced; a fence slot is in use exactly
  for ready and discarded frames;
* `GpuInv`: unfinished GPU work is in production or behind a pending fence whose
  token is watched; a signal with the current token is true; drawing happens inside
  a transaction;
* `KmsInv`: every flip, event and job belongs to the frame in flight of its output;
  between a recovery and the rebuild KMS and Volition are idle.

`ScanoutSafe` is not inductive. That the front buffer is not drawn into depends on
the reference that protects it, that the committed buffer is finished depends on the
fence and its token, and that a flip lands on the buffer the scheduler expects
depends on the tracking of flips. `TLC` checked `IInv` on the instances of the first
two runs before it was proved. The assumptions are `SlotCountAssumption`,
`TokensAssumption` and `PresentationAssumption`, which type the constants.

`AuthenticationProofs` proves, for any bounds:

* `AuthenticationTypes`: `Spec => []TypeOK`
* `GateIsSafe`: `Spec => []GateOpensAfterBoundary`
* `AnswersMatch`: `Spec => []ResponseMatchesPrompt`
* `OnlyCurrentUnlocks`: `Spec => UnlockIsCurrent`

Its invariant adds to the types: `OneAttempt`, the work in the mailbox or with the
worker is the active attempt and keeps the session busy; `Overtaken`, a busy session
whose attempt is not marked cancelled has a valid attempt (the mark lasts until the
worker books its result, since no attempt begins while busy); `Gate`, a reading of
"locked" still finds the gate closed when it is applied; `Conversation`, a question is
open only while the worker waits on it for a live attempt. `UnlockIsCurrent` alone
says nothing about how an overtaken attempt is recognised, and
`ResponseMatchesPrompt` nothing about when a question is withdrawn. The assumption is
`AuthenticationAssumption`.

A fifth theorem is about the order of events, for any length of the queue:

* `EventsAreCurrent`: `Spec => []NewestEventIsCurrent`

Both threads push after they have released the mutex, so a queue may hold events in
another order than they were built. The invariant `EventOrder` says what makes up for
it: while an event that was pushed, or is about to be, is stale or may become so, the
thread that made it stale has its State event still to publish.

`PresentationSessionProofs` proves, for any number of outputs, where the runs have
one or two:

* `SessionIsKept`: `Spec => []SessionSurvives`
* `PipelinesAgreeWithKms`: `Spec => []SchedulerAgreesWithKms`

An internal check ends the session when an acknowledgement of Volition finds no
pipeline that awaits it. With three outputs two outstanding commits may have one id
(see the observations), so "each id belongs to one pipeline" is not invariant.
`SessionInv` counts instead: for every id, the jobs, the reports in the channel and
the reports that were delivered and not yet handled are together no more than the
pipelines that await it. It also says that a pipeline that is powered off has no ready
frame, that only a frame in flight awaits a commit, and that events come from an
instance that exists. `PipelinesAgree` then follows what is in flight from commit to
flip.

`ReconfigurationProofs` proves, for any outputs, modes, layouts and numbers of
requests, failures and VT switches:

* `KmsStaysOurs`: `Spec => []KmsIsOurs`
* `HardwareAgrees`: `Spec => []HardwareMatchesScanouts`
* `SnapshotsAreCurrent`: `Spec => []SnapshotIsCurrent`
* `ConfigurationHolds`: `Spec => []ConfigurationIsApplied`
* `TrialImplemented`: `Spec => ImplementsTrial`

The invariant is built in layers, each proved from those below it: `Typed`; `Flow`,
what is staged, awaited and under way at each point of the pass; `KmsInv`, which adds
that a lost seat is regained before the pass goes on, and that KMS is not ours, and no
rollback runs, between a pause and its service; `HardwareInv`, which says what
the kernel drives in the middle of a transaction (outputs outside the scanouts and the
target are dark or foreign, and a transaction that waits for its flips drives its
target while KMS is ours);
`SnapshotInv`, nothing changes unpublished between the scan and the judgement of a
request; `AppliedInv`, a configuration that differs from the scanouts has left a flag
or a transaction behind that leads to a rescan. The refinement needs `Typed` and
`Flow` only: each action is shown to be `Change`, `Try`, `Keep` or `Undo` of
`ConfigurationTrial`, or to leave its three variables alone. The proof of
`HardwareAgrees` is what brought up `forgotten`: without it the invariant was not
inductive, and a larger instance showed the state.

`DisplayPowerProofs` proves, for any outputs and bounds:

* `BlankRemembered`: `Spec => []BlankIsRemembered`
* `UserOffKept`: `Spec => []UserOffIsKept`

Its invariant says per output who asked last and what is queued. `UserOffIsKept` needs
to know that what the user turned off is marked manual, which is what an inhibitor
checks.

`ClipboardProofs` proves, for any contents, limits and numbers of events:

* `ClipboardTypes`: `Spec => []TypeOK`
* `SelectionIsRetained`: `Spec => []CurrentIsRetained`
* `OvertakenStaysOut`: `Spec => OvertakenIsNotRecorded`

Every method of `ClipboardState` is shown to keep `Sound`: types, ids and epochs given
out before, the limit, the current selection backed by what is retained, and no
capture in progress while locked or paused. `Sound` together with `Counted` (every id
and epoch was paid for with an event; the capture in progress may take one more) and
`Untouched` (nothing has overtaken the capture in progress) is inductive. The limit
holds because an insertion exceeds it by one entry at most, which eviction removes
even when every entry is pinned.

`KeyboardProofs` proves, for any keys, modifiers and shortcuts:

* `FlutterAgrees`: `Spec => []FlutterKeysMatch`
* `NoKeySticks`: `Spec => []KeysComeUp`
* `NoStrokeSwallowed`: `Spec => []RetiredAreDown`

They hold for any set of shortcut files, replaced at any time, and for keys held on
both keyboards. The engine's answers are proved first: a release is kept from the
client only for SUPER, for a key whose press was captured, and, in a locked session,
for a modifier that ends the switcher. `Unstuck`, the inductive invariant, relates the
pressed keys of the seat, the client and Flutter, the retired and the captured keys to
those that are held: a retired key is captured as well only if its release was refused,
it strays, or it is held on both keyboards. `stray` is in the properties because the
code has these two cases. Nothing else adds a key to it, and `Settled` takes a key out
once nobody remembers its press.

The assumptions are the named `ASSUME`s of the modules. They type the constants;
`ControlNone`, `HotplugNone` and `ClipboardNone` say that `None` is not a value it is
told apart from, and `ForeignAssumption` that `Foreign` is not a mode of this session. TLC evaluates each of them in the passing runs.

Every invariant and action property that a run checks is now proved. Only
model-checked are the liveness properties (`ScreenCatchesUp`, `FramesRetire`,
`PowerOffCompletes`, `AttemptsEnd`, `ShutdownCompletes`, `RequestsAnswered`,
`RequestsApplied`, `MissingIsRemoved`, `CapturesEnd`, `OwedIsOffered`), which are out
of the prover's reach.

## Plan

1. More to prove: an abstract lock that `Authentication` implements and an abstract
   life cycle of a buffer that `Presentation` implements, each with its refinement.
2. The hand-offs between engine and loop: `CoalescedInbox`, `PendingVsyncBatons`, the
   producer arbiter, and the timelines of the frame scheduler.
3. `Settings`: compare-and-rename commits, external writers, a crash in between.
4. `Screencopy` and `InputMethod`: what a client's requests and disconnects leave.
5. Pure algorithms: topology layout, damage regions, window placement.

## Not modelled

The compositor has about a hundred thousand lines; the modules map those where
several actors change shared state. The rest is left out for a reason:

* generated code: the FlatBuffers protocol and the embedder's bindings;
* calls into libraries whose behaviour the code does not decide: GL, EGL, GBM, XKB;
* protocol objects of Wayland and X11, where the order of requests is checked by
  Smithay, and geometry of windows, which is computed in one step;
* services around the compositor (D-Bus, tray, notifications, sensors, portal):
  mostly I/O, with little state that another part reads;
* start-up, command line, build tool and packaging, which run once;
* the Dart shell and the settings application, which are other programs: what they
  may send is any command at any time.

`components` in `PROJECT.json` has the reason for each.
