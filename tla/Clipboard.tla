------------------------------- MODULE Clipboard -------------------------------
(***************************************************************************)
(* The clipboard at work: ClipboardState with the selection of the seat,   *)
(* the captures that wayland_frontend/clipboard.rs reads from the owner of *)
(* a selection, the commands of the shell, the session lock, and the       *)
(* screenshot worker, which sets an image from a thread of its own.        *)
(*                                                                         *)
(* The session is locked (`secure') before the clipboard is: the clipboard *)
(* learns of it with the next message of the shell or the next             *)
(* synchronize_clipboard.                                                  *)
(***************************************************************************)
EXTENDS ClipboardState

CONSTANTS
    MaxEvents,        \* bound on what clients, the shell, the user and the worker do
    MaxLocks          \* bound on locks and unlocks among them

ASSUME EventsAssumption == MaxEvents \in Nat /\ MaxLocks \in Nat

VARIABLES
    clip,             \* the ClipboardState
    seat,             \* who owns the selection of the seat
    scheduled,        \* captures that an idle callback is to start
    deferred,         \* clipboard_deferred_capture, or None
    readers,          \* representations that are being read
    taken,            \* actions that apply_clipboard_actions has still to do
    secure,           \* secure_session_locked
    recordable,       \* the first capture that nothing has overtaken
    unstarted,        \* the last capture whose pipe could not be set up, or 0
    events, locks     \* so far

captureVars == <<scheduled, deferred, readers, unstarted>>
vars == <<clip, seat, captureVars, taken, secure, recordable, events, locks>>

Sources == [by : {"wayland", "x11"}, content : Contents]
Retained(item) == [by |-> "history", item |-> item]
Unowned == [by |-> "nobody"]

Epochs == 1..(MaxEvents + 1)
ItemIds == 1..(MaxEvents + 1)
Entries == [id : ItemIds, content : Contents, mimes : SUBSET Mimes, pinned : BOOLEAN,
           from : 0..(MaxEvents + 1)]

\* Types; the history keeps to its limit (enforce_limits) and its ids differ.
TypeOK ==
    /\ clip.history \subseteq Entries /\ Cardinality(clip.history) <= MaxHistory
    /\ \A item, other \in clip.history : item.id = other.id => item = other
    /\ clip.managed \in Entries \cup {None}
    /\ {clip.locked, clip.paused, secure} \subseteq BOOLEAN
    /\ seat \in Sources \cup {Unowned} \cup {Retained(item) : item \in ItemIds}
    /\ scheduled \subseteq Epochs /\ deferred \in Epochs \cup {None}
    /\ readers \subseteq [epoch : Epochs, mime : Mimes, content : Contents]
    /\ unstarted \in Epochs \cup {0} /\ recordable \in Epochs
    /\ events \in 0..MaxEvents /\ locks \in 0..MaxLocks

Init ==
    /\ clip = Empty
    /\ seat = Unowned
    /\ scheduled = {} /\ deferred = None /\ readers = {} /\ unstarted = 0
    /\ taken = <<>>
    /\ secure = FALSE
    /\ recordable = 1
    /\ events = 0 /\ locks = 0

\* A step of the main thread, which is not in the middle of another.
Main == taken = <<>>
Event == events < MaxEvents /\ events' = events + 1
Overtakes == recordable' = clip.nextEpoch

-------------------------------------------------------------------------------
(***************************************************************************)
(* The owner of the selection changes.                                     *)
(***************************************************************************)

\* observe_selection: what is being read is given up, and what is offered is
\* captured, at once or, for an image of a certain client, when the pointer
\* or the focus has left it.
Observes(offered, mimes) ==
    /\ clip' = Observe(clip, offered, mimes)
    /\ readers' = {}
    /\ Overtakes
    /\ IF clip'.pending = None THEN deferred' = None /\ UNCHANGED scheduled
       ELSE \/ deferred' = None /\ scheduled' = scheduled \cup {clip.nextEpoch}
            \/ /\ "image" \in mimes /\ deferred' = clip.nextEpoch
               /\ UNCHANGED scheduled
    /\ UNCHANGED unstarted

\* A client of the seat sets or withdraws its selection.  The seat takes it,
\* and SelectionHandler::new_selection ignores it while the session is locked.
WaylandSelects ==
    /\ Main /\ Event
    /\ \E new \in {source \in Sources : source.by = "wayland"} \cup {Unowned}, mimes \in SUBSET Mimes :
           /\ new = Unowned => mimes = {}
           /\ seat' = new
           /\ IF secure THEN UNCHANGED <<clip, captureVars, recordable>>
              ELSE Observes(new # Unowned, mimes)
    /\ UNCHANGED <<taken, secure, locks>>

\* XwmHandler::new_selection and cleared_selection.
X11Selects ==
    /\ Main /\ Event /\ ~secure
    /\ \E content \in Contents, mimes \in SUBSET Mimes \ {{}} :
           Observes(TRUE, mimes) /\ seat' = [by |-> "x11", content |-> content]
    /\ deferred' = None
    /\ UNCHANGED <<taken, secure, locks>>

X11Clears ==
    /\ Main /\ Event /\ ~secure
    /\ seat.by = "x11"
    /\ Observes(FALSE, {}) /\ seat' = Unowned
    /\ UNCHANGED <<taken, secure, locks>>

-------------------------------------------------------------------------------
(***************************************************************************)
(* A capture.                                                              *)
(***************************************************************************)

\* release_deferred_clipboard_capture.
ReleaseDeferred ==
    /\ Main
    /\ deferred # None
    /\ scheduled' = scheduled \cup {deferred} /\ deferred' = None
    /\ UNCHANGED <<clip, seat, readers, unstarted, taken, secure, recordable, events, locks>>

\* start_capture: each representation is asked of the seat's owner.  One that
\* is not a client refuses, which ends the capture; a pipe that cannot be made
\* leaves its representation without a reader.  Wayland and X11 owners are not
\* told apart: an owner other than the epoch's has begun a newer epoch.  A timer
\* the event loop refuses, after which the reader has no timeout, is left out.
StartCapture ==
    /\ Main
    /\ \E epoch \in scheduled :
           /\ scheduled' = scheduled \ {epoch}
           /\ IF ~CaptureIsCurrent(clip, epoch)
              THEN UNCHANGED <<clip, readers, unstarted, events>>
              ELSE IF seat \notin Sources
              THEN /\ clip' = [clip EXCEPT !.pending = None]
                   /\ UNCHANGED <<readers, unstarted, events>>
              ELSE \E failing \in SUBSET clip.pending.remaining :
                      /\ readers' = readers \cup
                             [epoch : {epoch}, mime : clip.pending.remaining \ failing,
                              content : {seat.content}]
                      /\ IF failing = {} THEN UNCHANGED <<unstarted, events>>
                         ELSE unstarted' = epoch /\ Event
                      /\ UNCHANGED clip
    /\ UNCHANGED <<seat, deferred, taken, secure, recordable, locks>>

\* Mutant: a reader that times out is only removed.
Finished_TimeoutForgotten(reader, content) ==
    IF content = None THEN clip ELSE FinishCapture(clip, reader.epoch, reader.mime, content)

Finished(reader, content) == FinishCapture(clip, reader.epoch, reader.mime, content)

\* The owner closes the pipe after its data; or it fails, sends too much, or
\* is silent until CAPTURE_TIMEOUT.  The reader and the timer share a flag.
ReaderEnds ==
    /\ Main
    /\ \E reader \in readers :
           /\ readers' = readers \ {reader}
           /\ \E content \in {reader.content, None} : clip' = Finished(reader, content)
    /\ UNCHANGED <<seat, scheduled, deferred, unstarted, taken, secure, recordable, events, locks>>

-------------------------------------------------------------------------------
(***************************************************************************)
(* The shell, the screenshot worker and the lock.                          *)
(***************************************************************************)

\* handle_platform_message tells the clipboard of the lock first.
Told == SetLocked(clip, secure)

\* A command that overtakes the capture in progress, and one that does not.
Command(after, overtakes) ==
    /\ Main /\ Event
    /\ clip' = after
    /\ recordable' = IF (overtakes /\ ~secure) \/ clip.locked # secure
                     THEN after.nextEpoch ELSE recordable
    /\ UNCHANGED <<seat, captureVars, taken, secure, locks>>

ShellSetsText == \E content \in Contents : Command(SetManaged(Told, content, "text"), TRUE)
ShellActivates == \E id \in Ids(clip) : Command(Activate(Told, id), TRUE)
ShellPins == \E id \in Ids(clip), pinned \in BOOLEAN : Command(SetPinned(Told, id, pinned), FALSE)
ShellDeletes == \E id \in Ids(clip) : Command(Delete(Told, id), FALSE)
ShellClears == Command(ClearHistory(Told), TRUE)
ShellPauses == \E paused \in BOOLEAN : Command(SetPaused(Told, paused), paused)
ShellDrags == \E id \in Ids(clip) : Command(QueueDrag(Told, id), FALSE)

\* The worker saves a screenshot, also between two actions of the main thread.
WorkerSetsImage ==
    /\ Event
    /\ \E content \in Contents : clip' = SetManaged(clip, content, "image")
    /\ recordable' = IF clip.locked THEN recordable ELSE clip'.nextEpoch
    /\ UNCHANGED <<seat, captureVars, taken, secure, locks>>

Locks ==
    /\ Main
    /\ locks < MaxLocks /\ locks' = locks + 1
    /\ secure' = ~secure
    /\ UNCHANGED <<clip, seat, captureVars, taken, recordable, events>>

-------------------------------------------------------------------------------
(***************************************************************************)
(* synchronize_clipboard.                                                  *)
(***************************************************************************)
Synchronize ==
    /\ Main
    /\ clip' = [Told EXCEPT !.actions = <<>>]
    /\ taken' = IF secure THEN <<>> ELSE Told.actions
    /\ recordable' = IF clip.locked # secure THEN clip.nextEpoch ELSE recordable
    /\ IF secure \/ Told.pending = None
       THEN readers' = {} /\ deferred' = None
       ELSE UNCHANGED <<readers, deferred>>
    /\ UNCHANGED <<seat, scheduled, unstarted, secure, events, locks>>

\* apply_clipboard_actions, one action.  A drag that starts takes its data
\* along and leaves the clipboard as it is.
ApplyAction ==
    /\ taken # <<>>
    /\ taken' = Tail(taken)
    /\ LET action == Head(taken)
       IN seat' = CASE action.do = "publish" /\ MayPublish(clip, action) -> Retained(action.item)
                    [] action.do = "clear" /\ seat.by = "history" -> Unowned
                    [] OTHER -> seat
    /\ UNCHANGED <<clip, captureVars, secure, recordable, events, locks>>

Next ==
    \/ WaylandSelects \/ X11Selects \/ X11Clears
    \/ ReleaseDeferred \/ StartCapture \/ ReaderEnds
    \/ ShellSetsText \/ ShellActivates \/ ShellPins \/ ShellDeletes \/ ShellClears \/ ShellPauses
    \/ ShellDrags \/ WorkerSetsImage \/ Locks
    \/ Synchronize \/ ApplyAction

Spec == Init /\ [][Next]_vars

\* The loop runs idle callbacks and comes back to synchronize_clipboard, and a
\* reader ends by its timer if not before.
FairSpec ==
    /\ Spec
    /\ WF_vars(Synchronize) /\ WF_vars(ApplyAction)
    /\ WF_vars(StartCapture) /\ WF_vars(ReaderEnds)

-------------------------------------------------------------------------------
\* The current selection is backed by what is retained: a managed one by the
\* item that is offered, which agrees with its entry in the history even after
\* pins, deletions, evictions and clears, an external one by the entry of its
\* capture.  Nothing else is retained (current_text, retained_data).
CurrentIsRetained ==
    /\ IsManaged(clip) <=> clip.managed # None
    /\ IsManaged(clip) => /\ clip.managed.id = clip.current.item
                          /\ clip.current.item \in Ids(clip) =>
                                 HistoryItem(clip, clip.current.item) = clip.managed
    /\ IsExternal(clip) /\ clip.current.item # None => clip.current.item \in Ids(clip)

\* A capture that a lock, a pause, a clear, a newer selection or an item of the
\* clipboard's own has overtaken is not recorded, however late its data comes
\* (finish_capture, finalize_capture).
OvertakenIsNotRecorded ==
    [][\A item \in clip'.history :
           item.from \in {0} \cup {old.from : old \in clip.history}
                        \cup {e \in Epochs : e >= recordable}]_vars

\* A capture ends, by data, failure or timeout of each representation, unless
\* a pipe could not be made or it is put off (start_representation_capture).
Capturing ==
    clip.pending # None /\ clip.pending.epoch \notin {deferred, unstarted}

CapturesEnd == Capturing ~> ~Capturing

\* An item the clipboard owes to the seat (set_text, set_image_png, activate, or
\* an unlock) is offered by the seat, unless the selection is another's or the
\* session is locked by then.
Owed ==
    IsManaged(clip) /\ (clip.locked \/ \E n \in DOMAIN clip.actions : clip.actions[n].do = "publish")

OwedIsOffered ==
    Owed ~> ~IsManaged(clip) \/ seat = Retained(clip.current.item) \/ secure
===============================================================================
