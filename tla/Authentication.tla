---------------------------- MODULE Authentication ----------------------------
(***************************************************************************)
(* The session lock (authentication.rs): the AuthenticationController that *)
(* the main loop calls, the worker thread that runs PAM conversations, the *)
(* queue of events for the shell, and the routing boundary of the main     *)
(* loop (flutter_service_sync.rs) that follows the lock.                   *)
(*                                                                         *)
(* One step is one critical section of SharedAuthentication::state or one  *)
(* push or pop of SharedAuthentication::events.  An event that the code    *)
(* builds under the first mutex and pushes after releasing it is therefore *)
(* held in `push' for a while, and the other thread may step in between.   *)
(* Waits on the condition variable are guards: every section that can make *)
(* one true ends in notify_all.  Attempt, sequence and generation numbers  *)
(* start at 1, so 0 stands for None; texts and durations are left out.     *)
(***************************************************************************)
EXTENDS Naturals, Sequences

CONSTANTS
    MaxPendingEvents,  \* MAX_PENDING_EVENTS
    MaxAttempts,       \* attempts one behaviour may begin
    MaxPrompts,        \* prompts PAM may put in one behaviour
    MaxCommands        \* lock, cancel, synchronize and refused begin commands

ASSUME AuthenticationAssumption ==
    /\ MaxPendingEvents \in Nat \ {0}
    /\ MaxAttempts \in Nat /\ MaxPrompts \in Nat /\ MaxCommands \in Nat

Threads == {"main", "worker"}

\* BackendResult; failure and error differ in their message only.
BackendResults == {"success", "failure", "cancelled"}

\* AuthenticationEvent: which code built it, and the flags of its snapshot.
Events == [source : {"initial", "publish", "prompt", "result", "synchronize"},
           locked : BOOLEAN, busy : BOOLEAN]

WorkItems == [attempt : Nat, generation : Nat]
NoWork == [attempt |-> 0, generation |-> 0]

Prompts == [sequence : Nat, requiresResponse : BOOLEAN]
NoPrompt == [sequence |-> 0, requiresResponse |-> FALSE]

\* A SecureString, told apart by the attempt and prompt it was typed for.
Responses == [attempt : Nat, sequence : Nat]
NoResponse == [attempt |-> 0, sequence |-> 0]

VARIABLES
    locked,           \* SharedAuthentication::locked
    gate,             \* SharedAuthentication::security_gate_locked
    applied,          \* RuntimeState::session_lock_applied
    observed,         \* the lock as synchronize_authentication_boundary read it
    available,        \* AuthenticationState::available
    stopping,         \* ... and its other fields
    busy,
    cancelRequested,
    generation,
    nextAttempt,
    activeAttempt,
    nextSequence,
    coolingDown,      \* cooldown_until lies in the future
    pendingWork,
    prompt,
    response,
    events,           \* SharedAuthentication::events
    push,             \* per thread, events built and not yet pushed
    publish,          \* per thread, a State event is still to be published
    shell,            \* the last event the shell received
    main,             \* where the main loop is
    worker,           \* where the worker is
    work,             \* the WorkItem the worker runs
    sequence,         \* the prompt sequence the worker waits on, in converse
    result,           \* what the backend returned
    commands,         \* commands so far, against MaxCommands
    validFrom         \* history: the oldest attempt that may still unlock

boundaryVars == <<gate, applied, observed>>
attemptVars == <<busy, nextAttempt, activeAttempt, pendingWork>>
cancelVars == <<cancelRequested, generation, validFrom>>
promptVars == <<prompt, response>>
eventVars == <<push, publish>>
queueVars == <<events, shell>>
workerVars == <<worker, work, sequence, result, nextSequence>>
vars == <<locked, available, stopping, coolingDown, main, commands, boundaryVars,
          attemptVars, cancelVars, promptVars, eventVars, queueVars, workerVars>>

-----------------------------------------------------------------------------
\* Mutant: a full queue keeps growing.
Enqueue_Unbounded(queue, event) == Append(queue, event)

\* SharedAuthentication::push_event: a full queue loses its oldest event.
Enqueue(queue, event) ==
    Append(IF Len(queue) = MaxPendingEvents THEN Tail(queue) ELSE queue, event)

\* snapshot_locked, for an event built by `source'.
Snapshot(source, lock, isBusy) ==
    [source |-> source, locked |-> lock, busy |-> isBusy]

\* The thread has pushed and published everything its last section left.
Clear(t) == push[t] = <<>> /\ ~publish[t]

MainReady == main = "loop" /\ Clear("main")

WorkerAt(place) == worker = place /\ Clear("worker")

\* Mutant: the worker's loop ends without its State event.
Announce_MainOnly(t, built) ==
    /\ push' = [push EXCEPT ![t] = built]
    /\ publish' = [publish EXCEPT ![t] = (t = "main")]

\* The section ends: these events are pushed, then publish_state follows.
Announce(t, built) ==
    /\ push' = [push EXCEPT ![t] = built]
    /\ publish' = [publish EXCEPT ![t] = TRUE]

\* Invalidates the attempt under way: a new generation, marked cancelled.
Supersede ==
    /\ generation' = generation + 1
    /\ cancelRequested' = TRUE

\* authentication_cancelled, as the worker asks it about its own work.
Cancelled == stopping \/ work.generation # generation \/ cancelRequested

\* Mutant: a cancelled or superseded attempt still counts.
Current_AttemptOnly == ~stopping /\ work.attempt = activeAttempt

\* Whether a finished attempt may still change the lock.
Current ==
    /\ ~stopping
    /\ work.attempt = activeAttempt
    /\ work.generation = generation
    /\ ~cancelRequested

\* Mutant: an answer is taken for whichever prompt is open.
Accepts_AnySequence(attempt, number) ==
    /\ busy /\ ~cancelRequested
    /\ attempt # 0 /\ attempt = activeAttempt
    /\ number # 0 /\ prompt.requiresResponse
    /\ response = NoResponse

\* The conditions under which respond accepts an answer.
Accepts(attempt, number) ==
    /\ busy /\ ~cancelRequested
    /\ attempt # 0 /\ attempt = activeAttempt
    /\ number # 0 /\ prompt.requiresResponse /\ prompt.sequence = number
    /\ response = NoResponse

\* Mutant: the gate is opened whatever the boundary read.
GateAfter_Always(lock) == locked

\* The gate after the boundary was applied for the lock state read earlier:
\* acknowledge_unlocked_boundary opens it and closes it again when locked.
GateAfter(lock) == IF lock THEN gate ELSE locked

Init ==
    /\ locked \in BOOLEAN /\ available \in BOOLEAN
    /\ gate = locked /\ applied = FALSE /\ observed = FALSE
    /\ stopping = FALSE /\ busy = FALSE /\ cancelRequested = FALSE
    /\ coolingDown = FALSE
    /\ generation = 0 /\ nextAttempt = 1 /\ activeAttempt = 0 /\ nextSequence = 1
    /\ pendingWork = NoWork /\ prompt = NoPrompt /\ response = NoResponse
    /\ events = <<>> /\ shell = Snapshot("initial", FALSE, FALSE)
    /\ push = [t \in Threads |-> <<>>] /\ publish = [t \in Threads |-> FALSE]
    /\ main = "loop" /\ worker = "idle" /\ work = NoWork
    /\ sequence = 0 /\ result = "failure"
    /\ commands = 0 /\ validFrom = 1

-----------------------------------------------------------------------------
\* Commands, on the main thread.

Command ==
    /\ MainReady /\ commands < MaxCommands
    /\ commands' = commands + 1

\* AuthenticationController::lock, from the shell, a key, idling or the power
\* button.  Every attempt begun so far loses the right to unlock.
Lock ==
    /\ Command
    /\ locked' = TRUE /\ gate' = TRUE
    /\ IF busy THEN Supersede /\ prompt' = NoPrompt /\ response' = NoResponse
               ELSE UNCHANGED <<generation, cancelRequested, promptVars>>
    /\ Announce("main", <<>>)
    /\ validFrom' = nextAttempt
    /\ UNCHANGED <<applied, observed, available, stopping, coolingDown, main,
                   attemptVars, queueVars, workerVars>>

\* begin while the backend is missing or an earlier failure cools down.
BeginRefused ==
    /\ Command
    /\ locked /\ ~busy
    /\ ~available \/ coolingDown
    /\ Announce("main", <<Snapshot("result", locked, busy)>>)
    /\ UNCHANGED <<locked, available, stopping, coolingDown, main, boundaryVars,
                   attemptVars, cancelVars, promptVars, queueVars, workerVars>>

\* begin: a new attempt for the worker.
Begin ==
    /\ MainReady /\ nextAttempt <= MaxAttempts
    /\ locked /\ ~busy
    /\ available /\ ~coolingDown
    /\ generation' = generation + 1
    /\ activeAttempt' = nextAttempt
    /\ nextAttempt' = nextAttempt + 1
    /\ busy' = TRUE /\ cancelRequested' = FALSE
    /\ prompt' = NoPrompt /\ response' = NoResponse
    /\ pendingWork' = [attempt |-> nextAttempt, generation |-> generation + 1]
    /\ Announce("main", <<>>)
    /\ UNCHANGED <<locked, available, stopping, coolingDown, main, commands,
                   validFrom, boundaryVars, queueVars, workerVars>>

\* respond; an answer that is not accepted changes nothing.
Respond(attempt, number) ==
    /\ MainReady
    /\ Accepts(attempt, number)
    /\ response' = [attempt |-> attempt, sequence |-> number]
    /\ UNCHANGED <<locked, available, stopping, coolingDown, main, commands,
                   boundaryVars, attemptVars, cancelVars, prompt, eventVars,
                   queueVars, workerVars>>

\* cancel; attempt 0 means whichever attempt is active.
Cancel(attempt) ==
    /\ Command
    /\ busy /\ attempt \in {0, activeAttempt}
    /\ Supersede
    /\ prompt' = NoPrompt /\ response' = NoResponse
    /\ Announce("main", <<>>)
    /\ validFrom' = nextAttempt
    /\ UNCHANGED <<locked, available, stopping, coolingDown, main, boundaryVars,
                   attemptVars, queueVars, workerVars>>

\* synchronize: the state, and the prompt if there is one, as they are now.
Synchronize ==
    /\ Command
    /\ LET state == <<Snapshot("synchronize", locked, busy)>>
       IN push' = [push EXCEPT !["main"] =
                     IF prompt = NoPrompt THEN state ELSE state \o state]
    /\ UNCHANGED <<locked, available, stopping, coolingDown, main, publish,
                   boundaryVars, attemptVars, cancelVars, promptVars, queueVars,
                   workerVars>>

\* Drop: the controller stops its worker and joins it.
Stop ==
    /\ MainReady
    /\ stopping' = TRUE
    /\ Supersede
    /\ prompt' = NoPrompt /\ response' = NoResponse
    /\ main' = "joining"
    /\ validFrom' = nextAttempt
    /\ UNCHANGED <<locked, available, coolingDown, commands, boundaryVars,
                   attemptVars, eventVars, queueVars, workerVars>>

\* Instant::now passes cooldown_until.
CooldownExpires ==
    /\ coolingDown
    /\ coolingDown' = FALSE
    /\ UNCHANGED <<locked, available, stopping, main, commands, boundaryVars,
                   attemptVars, cancelVars, promptVars, eventVars, queueVars,
                   workerVars>>

-----------------------------------------------------------------------------
\* The event queue.

\* A built event enters the queue, outside the state mutex.
PushEvent(t) ==
    /\ push[t] # <<>>
    /\ events' = Enqueue(events, Head(push[t]))
    /\ push' = [push EXCEPT ![t] = Tail(@)]
    /\ UNCHANGED <<locked, available, stopping, coolingDown, main, commands,
                   boundaryVars, attemptVars, cancelVars, promptVars, publish,
                   shell, workerVars>>

\* publish_state, and the end of the worker's loop: snapshot and push under
\* the state mutex.
PublishState(t) ==
    /\ push[t] = <<>> /\ publish[t]
    /\ events' = Enqueue(events, Snapshot("publish", locked, busy))
    /\ publish' = [publish EXCEPT ![t] = FALSE]
    /\ UNCHANGED <<locked, available, stopping, coolingDown, main, commands,
                   boundaryVars, attemptVars, cancelVars, promptVars, push,
                   shell, workerVars>>

\* process_events finds events pending and starts draining the queue.
PublishEvents ==
    /\ MainReady /\ events # <<>>
    /\ main' = "draining"
    /\ UNCHANGED <<locked, available, stopping, coolingDown, commands,
                   boundaryVars, attemptVars, cancelVars, promptVars, eventVars,
                   queueVars, workerVars>>

\* One try_event of publish_authentication_events; the last finds nothing.
TryEvent ==
    /\ main = "draining"
    /\ \/ /\ events # <<>>
          /\ shell' = Head(events) /\ events' = Tail(events)
          /\ UNCHANGED main
       \/ /\ events = <<>>
          /\ main' = "loop"
          /\ UNCHANGED queueVars
    /\ UNCHANGED <<locked, available, stopping, coolingDown, commands,
                   boundaryVars, attemptVars, cancelVars, promptVars, eventVars,
                   workerVars>>

-----------------------------------------------------------------------------
\* synchronize_authentication_boundary.  It reads the lock first and acts on
\* that reading; a pass of the loop that ran out of its slice skips it.

ReadBoundary ==
    /\ MainReady
    /\ locked # applied
    /\ observed' = locked
    /\ main' = "boundary"
    /\ UNCHANGED <<locked, gate, applied, available, stopping, coolingDown,
                   commands, attemptVars, cancelVars, promptVars, eventVars,
                   queueVars, workerVars>>

ApplyBoundary ==
    /\ main = "boundary"
    /\ applied' = observed
    /\ gate' = GateAfter(observed)
    /\ observed' = FALSE
    /\ main' = "loop"
    /\ UNCHANGED <<locked, available, stopping, coolingDown, commands,
                   attemptVars, cancelVars, promptVars, eventVars, queueVars,
                   workerVars>>

-----------------------------------------------------------------------------
\* run_authentication_worker.

TakeWork ==
    /\ WorkerAt("idle") /\ ~stopping /\ pendingWork # NoWork
    /\ work' = pendingWork /\ pendingWork' = NoWork
    /\ worker' = "backend"
    /\ UNCHANGED <<locked, available, stopping, coolingDown, main, commands,
                   busy, nextAttempt, activeAttempt, sequence, result,
                   nextSequence, boundaryVars, cancelVars, promptVars,
                   eventVars, queueVars>>

\* Mutant: the worker stops only when its mailbox is empty.
WorkerExits_Drained ==
    /\ WorkerAt("idle") /\ stopping /\ pendingWork = NoWork
    /\ worker' = "exited"
    /\ UNCHANGED <<locked, available, stopping, coolingDown, main, commands,
                   work, sequence, result, nextSequence, boundaryVars,
                   attemptVars, cancelVars, promptVars, eventVars, queueVars>>

WorkerExits ==
    /\ WorkerAt("idle") /\ stopping
    /\ worker' = "exited"
    /\ UNCHANGED <<locked, available, stopping, coolingDown, main, commands,
                   work, sequence, result, nextSequence, boundaryVars,
                   attemptVars, cancelVars, promptVars, eventVars, queueVars>>

\* converse up to its wait.  A prompt that needs no answer returns at once; a
\* superseded attempt puts no prompt and changes nothing.
Converse(requires) ==
    /\ WorkerAt("backend") /\ nextSequence <= MaxPrompts
    /\ ~Cancelled /\ work.attempt = activeAttempt
    /\ prompt' = [sequence |-> nextSequence, requiresResponse |-> requires]
    /\ response' = NoResponse
    /\ sequence' = nextSequence /\ nextSequence' = nextSequence + 1
    /\ push' = [push EXCEPT !["worker"] = <<Snapshot("prompt", locked, busy)>>]
    /\ worker' = IF requires THEN "waiting" ELSE "backend"
    /\ UNCHANGED <<locked, available, stopping, coolingDown, main, commands,
                   work, result, publish, boundaryVars, attemptVars, cancelVars,
                   queueVars>>

\* The wait of converse ends with the answer to its prompt ...
Answered ==
    /\ WorkerAt("waiting")
    /\ ~Cancelled /\ response # NoResponse
    /\ response' = NoResponse
    /\ prompt' = IF prompt.sequence = sequence THEN NoPrompt ELSE prompt
    /\ worker' = "backend"
    /\ UNCHANGED <<locked, available, stopping, coolingDown, main, commands,
                   work, sequence, result, nextSequence, boundaryVars,
                   attemptVars, cancelVars, eventVars, queueVars>>

\* ... or because the attempt was superseded ...
Unwound ==
    /\ WorkerAt("waiting") /\ Cancelled
    /\ worker' = "backend"
    /\ UNCHANGED <<locked, available, stopping, coolingDown, main, commands,
                   work, sequence, result, nextSequence, boundaryVars,
                   attemptVars, cancelVars, promptVars, eventVars, queueVars>>

\* Mutant: the wait for an answer has no timeout.
PromptTimesOut_Never == WorkerAt("waiting") /\ FALSE /\ UNCHANGED vars

\* ... or after PROMPT_TIMEOUT, which supersedes the attempt itself.
PromptTimesOut ==
    /\ WorkerAt("waiting")
    /\ ~Cancelled /\ response = NoResponse
    /\ Supersede
    /\ prompt' = NoPrompt
    /\ worker' = "backend"
    /\ validFrom' = nextAttempt
    /\ UNCHANGED <<locked, available, stopping, coolingDown, main, commands,
                   work, sequence, result, nextSequence, response,
                   boundaryVars, attemptVars, eventVars, queueVars>>

\* PamBackend::authenticate returns: PAM's verdict, unless cancelled by then.
BackendReturns(verdict) ==
    /\ WorkerAt("backend")
    /\ result' = IF Cancelled THEN "cancelled" ELSE verdict
    /\ worker' = "returned"
    /\ UNCHANGED <<locked, available, stopping, coolingDown, main, commands,
                   work, sequence, nextSequence, boundaryVars,
                   attemptVars, cancelVars, promptVars, eventVars, queueVars>>

\* The worker books the result of its attempt; its locals go out of scope.
Finish ==
    /\ WorkerAt("returned")
    /\ LET success == Current /\ result = "success"
           cancelled == ~Current \/ result = "cancelled"
       IN /\ locked' = (locked /\ ~success)
          /\ coolingDown' = (~success /\ (coolingDown \/ ~cancelled))
          /\ Announce("worker", <<Snapshot("result", locked /\ ~success, FALSE)>>)
    /\ busy' = FALSE /\ cancelRequested' = FALSE
    /\ prompt' = NoPrompt /\ response' = NoResponse
    /\ worker' = "idle" /\ work' = NoWork
    /\ sequence' = 0 /\ result' = "failure"
    /\ UNCHANGED <<available, stopping, main, commands, generation, validFrom,
                   nextAttempt, activeAttempt, pendingWork, nextSequence,
                   boundaryVars, queueVars>>

-----------------------------------------------------------------------------
Next ==
    \/ Lock \/ BeginRefused \/ Begin \/ Synchronize \/ Stop
    \/ \E attempt \in 1..nextAttempt, number \in 1..nextSequence :
           Respond(attempt, number)
    \/ \E attempt \in 0..nextAttempt : Cancel(attempt)
    \/ CooldownExpires
    \/ \E t \in Threads : PushEvent(t) \/ PublishState(t)
    \/ PublishEvents \/ TryEvent
    \/ ReadBoundary \/ ApplyBoundary
    \/ TakeWork \/ WorkerExits
    \/ \E requires \in BOOLEAN : Converse(requires)
    \/ Answered \/ Unwound \/ PromptTimesOut
    \/ \E verdict \in {"success", "failure"} : BackendReturns(verdict)
    \/ Finish

Spec == Init /\ [][Next]_vars

\* Both threads run, PAM returns, the prompt timeout elapses, and the loop
\* comes back to the event queue and to the boundary.
FairSpec ==
    /\ Spec
    /\ \A t \in Threads : WF_vars(PushEvent(t)) /\ WF_vars(PublishState(t))
    /\ WF_vars(PublishEvents) /\ WF_vars(TryEvent)
    /\ WF_vars(ReadBoundary) /\ WF_vars(ApplyBoundary)
    /\ WF_vars(TakeWork) /\ WF_vars(WorkerExits)
    /\ WF_vars(Answered) /\ WF_vars(Unwound) /\ WF_vars(PromptTimesOut)
    /\ WF_vars(\E verdict \in {"success", "failure"} : BackendReturns(verdict))
    /\ WF_vars(Finish)

-----------------------------------------------------------------------------
\* Types of all variables, and the bound of the event queue.
TypeOK ==
    /\ locked \in BOOLEAN /\ gate \in BOOLEAN
    /\ applied \in BOOLEAN /\ observed \in BOOLEAN
    /\ available \in BOOLEAN /\ stopping \in BOOLEAN
    /\ busy \in BOOLEAN /\ cancelRequested \in BOOLEAN
    /\ coolingDown \in BOOLEAN
    /\ generation \in Nat /\ nextAttempt \in Nat \ {0} /\ activeAttempt \in Nat
    /\ nextSequence \in Nat \ {0} /\ sequence \in Nat
    /\ commands \in Nat /\ validFrom \in Nat
    /\ pendingWork \in WorkItems /\ work \in WorkItems
    /\ prompt \in Prompts /\ response \in Responses
    /\ events \in Seq(Events) /\ Len(events) <= MaxPendingEvents
    /\ shell \in Events
    /\ push \in [Threads -> Seq(Events)] /\ publish \in [Threads -> BOOLEAN]
    /\ main \in {"loop", "draining", "boundary", "joining"}
    /\ worker \in {"idle", "backend", "waiting", "returned", "exited"}
    /\ result \in BackendResults

\* Only a current attempt unlocks (run_authentication_worker): an attempt that
\* a lock, a cancellation, a prompt timeout or the shutdown has overtaken never
\* does, however late its success arrives.
UnlockIsCurrent == [][locked /\ ~locked' => work.attempt >= validFrom]_vars

\* The gate for privileged commands is open only while the main loop routes
\* input for an unlocked session (acknowledge_unlocked_boundary): the worker's
\* unlock alone, or a boundary applied for an older reading, never opens it.
GateOpensAfterBoundary == ~gate => ~locked /\ ~applied

\* The answer that the worker is about to hand to PAM was typed for the very
\* prompt it waits on (respond, converse): answers to earlier prompts or
\* attempts that arrive late are not taken.
ResponseMatchesPrompt ==
    worker = "waiting" /\ response # NoResponse =>
        response = [attempt |-> work.attempt, sequence |-> sequence]

\* Once both threads have pushed what they built, the newest event carries the
\* state as it is (lock, begin, cancel, run_authentication_worker): the order in
\* which two threads push outside the state mutex leaves no stale event last.
\* Answers to Synchronize are the exception: they are built before the push
\* and no publish_state follows.
NewestEventIsCurrent ==
    LET newest == IF events = <<>> THEN shell ELSE events[Len(events)]
    IN (\A t \in Threads : Clear(t)) /\ newest.source \notin {"initial", "synchronize"}
       => newest.locked = locked /\ newest.busy = busy

\* Every attempt ends (converse, run_authentication_worker): no lost wakeup,
\* unanswered prompt or cancellation leaves the session busy for good.  Only a
\* worker that was told to stop may leave an attempt it never took.
AttemptsEnd == busy ~> (~busy \/ worker = "exited")

\* Dropping the controller never hangs in join, wherever the worker is.
ShutdownCompletes == stopping ~> worker = "exited"

\* After an unlock the main loop opens the gate, unless the session is locked
\* again or shut down (synchronize_authentication_boundary).
GateReopens == ~locked ~> (locked \/ ~gate \/ stopping)

=============================================================================
