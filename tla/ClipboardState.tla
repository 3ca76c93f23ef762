---------------------------- MODULE ClipboardState ----------------------------
(***************************************************************************)
(* ClipboardState of clipboard.rs: the history, the current selection, the *)
(* capture in progress and the actions owed to the seat, and what each     *)
(* method of ClipboardManager does to them under its mutex.  `c' is the    *)
(* state before a method, its value the state after.                       *)
(*                                                                         *)
(* An item is its content, the representations it has and whether it is    *)
(* pinned; `from' is the capture it was read by, or 0.  Of the limits the  *)
(* number of items is kept.                                                *)
(*                                                                         *)
(* The history is a set: ids are given out in order, an item enters at the *)
(* front, and one that replaces the front keeps its id, so the order of    *)
(* the deque is that of the ids, and its front the greatest.               *)
(***************************************************************************)
EXTENDS Naturals, Sequences, FiniteSets

CONSTANTS
    Contents,         \* what may be copied
    MaxHistory,       \* MAX_HISTORY_ITEMS
    None

Mimes == {"image", "text"}

\* What ClipboardItem and PendingCapture may hold.
AllItems == [id : Nat, content : Contents, mimes : SUBSET Mimes, pinned : BOOLEAN, from : Nat]
AllCaptures == [epoch : Nat, remaining : SUBSET Mimes, got : SUBSET Mimes,
                content : Contents \cup {None}]

ASSUME ClipboardAssumption == MaxHistory \in Nat \ {0}
ASSUME ClipboardNone == None \notin Contents \cup Nat \cup AllItems \cup AllCaptures

Nobody == [kind |-> "none"]
External(epoch, item) == [kind |-> "external", epoch |-> epoch, item |-> item]
Managed(epoch, item) == [kind |-> "managed", epoch |-> epoch, item |-> item]

Publish(epoch, item) == [do |-> "publish", epoch |-> epoch, item |-> item]
Clear == [do |-> "clear"]
StartDrag(item) == [do |-> "drag", item |-> item]

Empty == [history |-> {}, current |-> Nobody, managed |-> None, pending |-> None,
          actions |-> <<>>, paused |-> FALSE, locked |-> FALSE, nextItem |-> 1, nextEpoch |-> 1]

Ids(c) == {item.id : item \in c.history}
HistoryItem(c, id) == CHOOSE item \in c.history : item.id = id
IsManaged(c) == c.current.kind = "managed"
IsExternal(c) == c.current.kind = "external"

-------------------------------------------------------------------------------
(* The history.                                                            *)

\* The back of the deque, and its front.
Oldest(items) == CHOOSE item \in items : \A other \in items : item.id <= other.id
Newest(items) == CHOOSE item \in items : \A other \in items : other.id <= item.id

\* What an eviction chooses from: the entries that are not pinned, or all.
Evictable(items) ==
    LET loose == {item \in items : ~item.pinned} IN IF loose = {} THEN items ELSE loose

\* Mutant: one entry too many is kept.
EnforceLimits_OffByOne(items) ==
    IF Cardinality(items) <= MaxHistory + 1 THEN items ELSE items \ {Oldest(Evictable(items))}

\* The oldest entry that is not pinned goes, or the oldest.  An insertion
\* exceeds the limit by one entry.
EnforceLimits(items) ==
    IF Cardinality(items) <= MaxHistory THEN items ELSE items \ {Oldest(Evictable(items))}

\* same_content compares the representation of the highest priority.
Primary(item) == IF "image" \in item.mimes THEN "image" ELSE "text"
SameContent(item, other) == item.content = other.content /\ Primary(item) = Primary(other)

\* insert_history_item: a repetition of the newest entry replaces it and keeps
\* its id and pin.
Repeats(c, item) == c.history # {} /\ SameContent(Newest(c.history), item)
Renewed(c, item) ==
    IF Repeats(c, item)
    THEN [item EXCEPT !.id = Newest(c.history).id, !.pinned = Newest(c.history).pinned]
    ELSE item
Inserted(c, item) ==
    EnforceLimits({Renewed(c, item)} \cup
                  (IF Repeats(c, item) THEN c.history \ {Newest(c.history)} ELSE c.history))

NewItem(c, content, mimes, from) ==
    [id |-> c.nextItem, content |-> content, mimes |-> mimes, pinned |-> FALSE, from |-> from]

-------------------------------------------------------------------------------
(* Selections and captures.                                                *)

\* Mutant: after an unlock the retained selection is not offered again.
SetLocked_NoPublish(c, locked) ==
    IF locked = c.locked THEN c
    ELSE [c EXCEPT !.locked = locked, !.pending = None, !.actions = <<>>]

SetLocked(c, locked) ==
    IF locked = c.locked THEN c
    ELSE [c EXCEPT !.locked = locked, !.pending = None,
                   !.actions = IF ~locked /\ IsManaged(c)
                               THEN <<Publish(c.current.epoch, c.current.item)>> ELSE <<>>]

\* observe_external_selection; `mimes' are the representations worth
\* capturing among those offered, and `offered' says whether any was.
Observe(c, offered, mimes) ==
    [c EXCEPT !.nextEpoch = @ + 1, !.actions = <<>>, !.managed = None,
              !.current = IF offered THEN External(c.nextEpoch, None) ELSE Nobody,
              !.pending = IF offered /\ ~c.locked /\ ~c.paused /\ mimes # {}
                          THEN [epoch |-> c.nextEpoch, remaining |-> mimes, got |-> {},
                                content |-> None]
                          ELSE None]

CaptureIsCurrent(c, epoch) == c.pending # None /\ c.pending.epoch = epoch

\* finalize_capture.
Finalize(c, capture) ==
    IF c.locked \/ c.paused \/ ~IsExternal(c) \/ c.current.epoch # capture.epoch
       \/ capture.got = {}
    THEN c
    ELSE LET item == NewItem(c, capture.content, capture.got, capture.epoch)
             kept == Inserted(c, item)
             id == Renewed(c, item).id
             retained == \E entry \in kept : entry.id = id
         IN [c EXCEPT !.nextItem = @ + 1, !.history = kept,
                      !.current.item = IF retained THEN id ELSE None]

\* finish_capture of one representation, with the data that was read or None.
FinishCapture(c, epoch, mime, content) ==
    IF ~CaptureIsCurrent(c, epoch) \/ mime \notin c.pending.remaining THEN c
    ELSE LET read == content # None
             capture == [c.pending EXCEPT !.remaining = @ \ {mime},
                                          !.got = IF read THEN @ \cup {mime} ELSE @,
                                          !.content = IF read THEN content ELSE @]
         IN IF capture.remaining # {} THEN [c EXCEPT !.pending = capture]
            ELSE Finalize([c EXCEPT !.pending = None], capture)

\* The clipboard offers an item of its own.
Offer(c, item) ==
    [c EXCEPT !.nextEpoch = @ + 1, !.current = Managed(c.nextEpoch, item.id), !.managed = item,
              !.pending = None, !.actions = <<Publish(c.nextEpoch, item.id)>>]

\* set_managed_representation of set_text and set_image_png.
SetManaged(c, content, mime) ==
    IF c.locked THEN c
    ELSE LET item == NewItem(c, content, {mime}, 0)
             new == [c EXCEPT !.nextItem = @ + 1]
         IN IF c.paused THEN Offer(new, item)
            ELSE Offer([new EXCEPT !.history = Inserted(c, item)], Renewed(c, item))

-------------------------------------------------------------------------------
(* Commands of the shell; a locked clipboard refuses them.                 *)

Activate(c, id) == IF c.locked \/ id \notin Ids(c) THEN c ELSE Offer(c, HistoryItem(c, id))

\* Mutant: the copy that is offered keeps its old pin.
SetPinned_HistoryOnly(c, id, pinned) ==
    IF c.locked \/ id \notin Ids(c) THEN c
    ELSE LET old == HistoryItem(c, id)
         IN [c EXCEPT !.history = (@ \ {old}) \cup {[old EXCEPT !.pinned = pinned]}]

SetPinned(c, id, pinned) ==
    IF c.locked \/ id \notin Ids(c) THEN c
    ELSE LET old == HistoryItem(c, id)
             item == [old EXCEPT !.pinned = pinned]
         IN [c EXCEPT !.history = (@ \ {old}) \cup {item},
                      !.managed = IF c.managed # None /\ c.managed.id = id THEN item ELSE @]

\* The item that was offered is gone, and the seat is to be told.
Withdraw(c) ==
    [c EXCEPT !.nextEpoch = @ + 1, !.current = Nobody, !.managed = None, !.actions = <<Clear>>]

Delete(c, id) ==
    IF c.locked \/ id \notin Ids(c) THEN c
    ELSE LET rest == [c EXCEPT !.history = {item \in @ : item.id # id}]
         IN CASE IsManaged(c) /\ c.current.item = id -> Withdraw(rest)
              [] IsExternal(c) /\ c.current.item = id -> [rest EXCEPT !.current.item = None]
              [] OTHER -> rest

ClearHistory(c) ==
    IF c.locked THEN c
    ELSE LET rest == [c EXCEPT !.history = {item \in @ : item.pinned},
                               !.pending = None]
         IN CASE IsManaged(c) /\ c.current.item \in Ids(rest) ->
                     [rest EXCEPT !.managed = HistoryItem(rest, c.current.item)]
              [] IsManaged(c) /\ c.current.item \notin Ids(rest) -> Withdraw(rest)
              [] IsExternal(c) /\ c.current.item \notin Ids(rest) ->
                     [rest EXCEPT !.current.item = None, !.managed = None]
              [] OTHER -> [rest EXCEPT !.managed = None]

\* Mutant: pausing leaves the capture in progress.
SetPaused_KeepsCapture(c, paused) == IF c.locked THEN c ELSE [c EXCEPT !.paused = paused]

SetPaused(c, paused) ==
    IF c.locked \/ paused = c.paused THEN c
    ELSE [c EXCEPT !.paused = paused, !.pending = IF paused THEN None ELSE @]

QueueDrag(c, id) ==
    IF c.locked \/ id \notin Ids(c) THEN c
    ELSE [c EXCEPT !.actions = Append(@, StartDrag(id))]

\* Whether the item of a Publish may still be offered: retained_mime_types.
MayPublish(c, action) == ~c.locked /\ c.current = Managed(action.epoch, action.item)
===============================================================================
