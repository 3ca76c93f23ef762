------------------------- MODULE AuthenticationProofs -------------------------
(***************************************************************************)
(* Proofs about Authentication, for any bounds: types, the gate, answers   *)
(* to prompts, the order of events, and that only a current attempt        *)
(* unlocks.                                                                *)
(***************************************************************************)
EXTENDS Authentication, TLAPS

Running == worker \in {"backend", "waiting", "returned"}

\* The attempt with the worker or in its mailbox is the active one, and while
\* it lasts the session is busy, so no second attempt begins.
OneAttempt ==
    /\ activeAttempt < nextAttempt /\ validFrom <= nextAttempt
    /\ pendingWork # NoWork => busy /\ pendingWork.attempt = activeAttempt
    /\ Running => busy /\ work.attempt = activeAttempt /\ pendingWork = NoWork

\* Whatever overtakes the active attempt leaves it marked cancelled until the
\* worker has booked its result.
Overtaken == busy /\ ~cancelRequested => activeAttempt >= validFrom

\* A reading of "locked" that the boundary acts on later still finds the gate
\* closed: only the main thread opens it.
Gate ==
    /\ GateOpensAfterBoundary
    /\ main = "boundary" /\ observed => gate

\* A question is open only while the worker waits on it for a live attempt, and
\* an answer is there only for that question.
Conversation ==
    /\ prompt.requiresResponse \/ response # NoResponse =>
           worker = "waiting" /\ ~Cancelled
    /\ prompt.requiresResponse => prompt.sequence = sequence
    /\ response # NoResponse =>
           response = [attempt |-> work.attempt, sequence |-> sequence]

IInv == TypeOK /\ OneAttempt /\ Overtaken /\ Gate /\ Conversation

USE DEF boundaryVars, attemptVars, cancelVars, promptVars, eventVars, queueVars,
        workerVars

-----------------------------------------------------------------------------
\* push_event keeps the queue a queue of events within its bound.
LEMMA EnqueueType ==
    ASSUME NEW queue \in Seq(Events), NEW event \in Events,
           Len(queue) <= MaxPendingEvents
    PROVE  /\ Enqueue(queue, event) \in Seq(Events)
           /\ Len(Enqueue(queue, event)) <= MaxPendingEvents
<1>1. CASE Len(queue) = MaxPendingEvents
  <2>1. queue # <<>>
    BY <1>1, AuthenticationAssumption
  <2>2. Tail(queue) \in Seq(Events) /\ Len(Tail(queue)) = Len(queue) - 1
    BY <2>1
  <2> QED
    BY <1>1, <2>2 DEF Enqueue
<1>2. CASE Len(queue) # MaxPendingEvents
  BY <1>2, AuthenticationAssumption DEF Enqueue
<1> QED
  BY <1>1, <1>2

\* Every action keeps the types.
LEMMA NextType == TypeOK /\ [Next]_vars => TypeOK'
<1> SUFFICES ASSUME TypeOK, [Next]_vars PROVE TypeOK'
  OBVIOUS
<1>1. \A t \in Threads : push[t] \in Seq(Events) /\ publish[t] \in BOOLEAN
  BY DEF TypeOK
<1>2. \A s \in {"prompt", "publish", "result", "synchronize"} :
        \A l, b \in BOOLEAN : Snapshot(s, l, b) \in Events
  BY DEF Snapshot, Events
<1>3. NoPrompt \in Prompts /\ NoResponse \in Responses /\ NoWork \in WorkItems
  BY DEF NoPrompt, NoResponse, NoWork, Prompts, Responses, WorkItems
<1>4. CASE Lock
  <2>1. /\ locked' \in BOOLEAN /\ gate' \in BOOLEAN /\ cancelRequested' \in BOOLEAN
        /\ generation' \in Nat /\ prompt' \in Prompts /\ response' \in Responses
    <3>1. CASE busy
      BY <1>3, <1>4, <3>1 DEF Lock, Supersede, TypeOK
    <3>2. CASE ~busy
      BY <1>4, <3>2 DEF Lock, TypeOK
    <3> QED
      BY <3>1, <3>2
  <2>2. push' \in [Threads -> Seq(Events)] /\ publish' \in [Threads -> BOOLEAN]
    BY <1>4 DEF Lock, Announce, TypeOK, Threads
  <2>3. commands' \in Nat /\ validFrom' \in Nat
    BY <1>4 DEF Lock, Command, TypeOK
  <2>4. UNCHANGED <<applied, observed, available, stopping, coolingDown, main,
                    attemptVars, queueVars, workerVars>>
    BY <1>4 DEF Lock
  <2> QED
    BY <2>1, <2>2, <2>3, <2>4 DEF TypeOK
<1>5. CASE BeginRefused
  <2>1. <<Snapshot("result", locked, busy)>> \in Seq(Events)
    BY <1>2 DEF TypeOK
  <2>2. push' \in [Threads -> Seq(Events)] /\ publish' \in [Threads -> BOOLEAN]
    BY <1>5, <2>1 DEF BeginRefused, Announce, TypeOK, Threads
  <2>3. commands' \in Nat
    BY <1>5 DEF BeginRefused, Command, TypeOK
  <2>4. UNCHANGED <<locked, available, stopping, coolingDown, main, boundaryVars,
                    attemptVars, cancelVars, promptVars, queueVars, workerVars>>
    BY <1>5 DEF BeginRefused
  <2> QED
    BY <2>2, <2>3, <2>4 DEF TypeOK
<1>6. CASE Begin
  <2>1. busy' \in BOOLEAN /\ cancelRequested' \in BOOLEAN
    BY <1>6 DEF Begin
  <2>2. push' \in [Threads -> Seq(Events)] /\ publish' \in [Threads -> BOOLEAN]
    BY <1>6 DEF Begin, Announce, TypeOK, Threads
  <2>3. /\ generation' \in Nat /\ nextAttempt' \in Nat \ {0}
        /\ activeAttempt' \in Nat /\ pendingWork' \in WorkItems
        /\ prompt' \in Prompts /\ response' \in Responses
    BY <1>3, <1>6 DEF Begin, TypeOK, WorkItems
  <2>4. UNCHANGED <<locked, available, stopping, coolingDown, main, commands,
                    validFrom, boundaryVars, queueVars, workerVars>>
    BY <1>6 DEF Begin
  <2> QED
    BY <2>1, <2>2, <2>3, <2>4 DEF TypeOK
<1>7. CASE Synchronize
  <2>1. Snapshot("synchronize", locked, busy) \in Events
    BY <1>2 DEF TypeOK
  <2> QED
    BY <1>7, <2>1 DEF Synchronize, Command, TypeOK, Threads
<1>8. CASE Stop
  BY <1>3, <1>8 DEF Stop, Supersede, TypeOK
<1>9. ASSUME NEW a \in 1..nextAttempt, NEW n \in 1..nextSequence, Respond(a, n)
      PROVE  TypeOK'
  BY <1>9 DEF Respond, TypeOK, Responses
<1>10. ASSUME NEW a \in 0..nextAttempt, Cancel(a) PROVE TypeOK'
  BY <1>3, <1>10 DEF Cancel, Command, Supersede, Announce, TypeOK, Threads
<1>11. CASE CooldownExpires
  <2>1. coolingDown' \in BOOLEAN
    BY <1>11 DEF CooldownExpires
  <2>2. UNCHANGED <<locked, available, stopping, main, commands, boundaryVars,
                    attemptVars, cancelVars, promptVars, eventVars, queueVars,
                    workerVars>>
    BY <1>11 DEF CooldownExpires
  <2> QED
    BY <2>1, <2>2 DEF TypeOK
<1>12. ASSUME NEW t \in Threads, PushEvent(t) PROVE TypeOK'
  <2>1. push[t] \in Seq(Events) /\ push[t] # <<>>
    BY <1>1, <1>12 DEF PushEvent
  <2>2. Head(push[t]) \in Events /\ Tail(push[t]) \in Seq(Events)
    BY <2>1
  <2>3. events' \in Seq(Events) /\ Len(events') <= MaxPendingEvents
    BY <1>12, <2>2, EnqueueType DEF PushEvent, TypeOK
  <2> QED
    BY <1>12, <2>2, <2>3 DEF PushEvent, TypeOK
<1>13. ASSUME NEW t \in Threads, PublishState(t) PROVE TypeOK'
  <2>1. Snapshot("publish", locked, busy) \in Events
    BY <1>2 DEF TypeOK
  <2>2. events' \in Seq(Events) /\ Len(events') <= MaxPendingEvents
    BY <1>13, <2>1, EnqueueType DEF PublishState, TypeOK
  <2> QED
    BY <1>13, <2>2 DEF PublishState, TypeOK
<1>14. CASE PublishEvents
  BY <1>14 DEF PublishEvents, TypeOK
<1>15. CASE TryEvent
  BY <1>15, AuthenticationAssumption DEF TryEvent, TypeOK
<1>16. CASE ReadBoundary
  BY <1>16 DEF ReadBoundary, TypeOK
<1>17. CASE ApplyBoundary
  BY <1>17 DEF ApplyBoundary, GateAfter, TypeOK
<1>18. CASE TakeWork
  BY <1>3, <1>18 DEF TakeWork, TypeOK
<1>19. CASE WorkerExits
  BY <1>19 DEF WorkerExits, TypeOK
<1>20. ASSUME NEW r \in BOOLEAN, Converse(r) PROVE TypeOK'
  <2>1. <<Snapshot("prompt", locked, busy)>> \in Seq(Events)
    BY <1>2 DEF TypeOK
  <2> QED
    BY <1>3, <1>20, <2>1 DEF Converse, TypeOK, Prompts, Threads
<1>21. CASE Answered
  BY <1>3, <1>21 DEF Answered, TypeOK
<1>22. CASE Unwound
  BY <1>22 DEF Unwound, TypeOK
<1>23. CASE PromptTimesOut
  BY <1>3, <1>23 DEF PromptTimesOut, Supersede, TypeOK
<1>24. ASSUME NEW v \in {"success", "failure"}, BackendReturns(v) PROVE TypeOK'
  BY <1>24 DEF BackendReturns, TypeOK, BackendResults
<1>25. CASE Finish
  <2> DEFINE success == Current /\ result = "success"
  <2>1. \A event \in Events : <<event>> \in Seq(Events)
    OBVIOUS
  <2>2. <<Snapshot("result", locked /\ ~success, FALSE)>> \in Seq(Events)
    BY <1>2, <2>1, Zenon
  <2>3. /\ locked' \in BOOLEAN /\ coolingDown' \in BOOLEAN
        /\ busy' \in BOOLEAN /\ cancelRequested' \in BOOLEAN
    BY <1>25 DEF Finish
  <2>4. push' \in [Threads -> Seq(Events)] /\ publish' \in [Threads -> BOOLEAN]
    BY <1>25, <2>2 DEF Finish, Announce, TypeOK, Threads
  <2>5. /\ prompt' \in Prompts /\ response' \in Responses /\ work' \in WorkItems
        /\ worker' = "idle" /\ sequence' \in Nat /\ result' \in BackendResults
    BY <1>3, <1>25 DEF Finish, BackendResults
  <2>6. UNCHANGED <<available, stopping, main, commands, generation, validFrom,
                    nextAttempt, activeAttempt, pendingWork, nextSequence,
                    boundaryVars, queueVars>>
    BY <1>25 DEF Finish
  <2> QED
    BY <2>3, <2>4, <2>5, <2>6 DEF TypeOK
<1>26. CASE UNCHANGED vars
  BY <1>26 DEF vars, TypeOK
<1> QED
  BY <1>4, <1>5, <1>6, <1>7, <1>8, <1>9, <1>10, <1>11, <1>12, <1>13, <1>14, <1>15,
     <1>16, <1>17, <1>18, <1>19, <1>20, <1>21, <1>22, <1>23, <1>24, <1>25, <1>26
     DEF Next

-----------------------------------------------------------------------------
\* Every action keeps the attempt with the worker the active one.
LEMMA NextOneAttempt == IInv /\ [Next]_vars => OneAttempt' /\ Overtaken'
<1> SUFFICES ASSUME IInv, [Next]_vars PROVE OneAttempt' /\ Overtaken'
  OBVIOUS
<1> USE DEF OneAttempt, Overtaken, Running
<1>1. TypeOK /\ OneAttempt /\ Overtaken
  BY DEF IInv
<1>2. CASE Lock
  BY <1>1, <1>2 DEF Lock, Supersede, TypeOK
<1>3. CASE Begin
  BY <1>1, <1>3 DEF Begin, TypeOK, NoWork
<1>4. CASE Stop
  BY <1>1, <1>4 DEF Stop, Supersede, TypeOK
<1>5. ASSUME NEW a \in 0..nextAttempt, Cancel(a) PROVE OneAttempt' /\ Overtaken'
  BY <1>1, <1>5 DEF Cancel, Supersede, TypeOK
<1>6. CASE TakeWork
  BY <1>1, <1>6 DEF TakeWork, TypeOK
<1>7. CASE PromptTimesOut
  BY <1>1, <1>7 DEF PromptTimesOut, WorkerAt, Supersede, TypeOK
<1>8. CASE Finish
  BY <1>1, <1>8 DEF Finish, WorkerAt, TypeOK
<1>9. CASE BeginRefused
  BY <1>1, <1>9 DEF BeginRefused
<1>10. CASE Synchronize
  BY <1>1, <1>10 DEF Synchronize
<1>11. ASSUME NEW a \in 1..nextAttempt, NEW n \in 1..nextSequence, Respond(a, n)
       PROVE  OneAttempt' /\ Overtaken'
  BY <1>1, <1>11 DEF Respond
<1>12. CASE CooldownExpires
  BY <1>1, <1>12 DEF CooldownExpires
<1>13. ASSUME NEW t \in Threads, PushEvent(t) \/ PublishState(t)
       PROVE  OneAttempt' /\ Overtaken'
  BY <1>1, <1>13 DEF PushEvent, PublishState
<1>14. CASE PublishEvents \/ TryEvent \/ ReadBoundary \/ ApplyBoundary
  BY <1>1, <1>14 DEF PublishEvents, TryEvent, ReadBoundary, ApplyBoundary
<1>15. CASE WorkerExits \/ Answered \/ Unwound
  BY <1>1, <1>15 DEF WorkerExits, Answered, Unwound, WorkerAt
<1>16. ASSUME NEW r \in BOOLEAN, Converse(r) PROVE OneAttempt' /\ Overtaken'
  BY <1>1, <1>16 DEF Converse, WorkerAt
<1>17. ASSUME NEW v \in {"success", "failure"}, BackendReturns(v)
       PROVE  OneAttempt' /\ Overtaken'
  BY <1>1, <1>17 DEF BackendReturns, WorkerAt
<1>18. CASE UNCHANGED vars
  BY <1>1, <1>18 DEF vars
<1> QED
  BY <1>2, <1>3, <1>4, <1>5, <1>6, <1>7, <1>8, <1>9, <1>10, <1>11, <1>12, <1>13,
     <1>14, <1>15, <1>16, <1>17, <1>18 DEF Next

\* Every action keeps the gate closed until the boundary is applied.
LEMMA NextGate == IInv /\ [Next]_vars => Gate'
<1> SUFFICES ASSUME IInv, [Next]_vars PROVE Gate'
  OBVIOUS
<1> USE DEF Gate, GateOpensAfterBoundary
<1>1. TypeOK /\ Gate
  BY DEF IInv
<1>2. CASE Lock
  BY <1>1, <1>2 DEF Lock, TypeOK
<1>3. CASE ReadBoundary
  BY <1>1, <1>3 DEF ReadBoundary, TypeOK
<1>4. CASE ApplyBoundary
  BY <1>1, <1>4 DEF ApplyBoundary, GateAfter, TypeOK
<1>5. CASE Finish
  BY <1>1, <1>5 DEF Finish
<1>6. CASE Stop \/ PublishEvents \/ TryEvent
  BY <1>1, <1>6 DEF Stop, PublishEvents, TryEvent
<1>7. CASE BeginRefused \/ Begin \/ Synchronize \/ CooldownExpires
  BY <1>1, <1>7 DEF BeginRefused, Begin, Synchronize, CooldownExpires
<1>8. ASSUME NEW a \in 1..nextAttempt, NEW n \in 1..nextSequence, Respond(a, n)
      PROVE  Gate'
  BY <1>1, <1>8 DEF Respond
<1>9. ASSUME NEW a \in 0..nextAttempt, Cancel(a) PROVE Gate'
  BY <1>1, <1>9 DEF Cancel
<1>10. ASSUME NEW t \in Threads, PushEvent(t) \/ PublishState(t) PROVE Gate'
  BY <1>1, <1>10 DEF PushEvent, PublishState
<1>11. CASE TakeWork \/ WorkerExits \/ Answered \/ Unwound \/ PromptTimesOut
  BY <1>1, <1>11 DEF TakeWork, WorkerExits, Answered, Unwound, PromptTimesOut
<1>12. ASSUME NEW r \in BOOLEAN, Converse(r) PROVE Gate'
  BY <1>1, <1>12 DEF Converse
<1>13. ASSUME NEW v \in {"success", "failure"}, BackendReturns(v) PROVE Gate'
  BY <1>1, <1>13 DEF BackendReturns
<1>14. CASE UNCHANGED vars
  BY <1>1, <1>14 DEF vars
<1> QED
  BY <1>2, <1>3, <1>4, <1>5, <1>6, <1>7, <1>8, <1>9, <1>10, <1>11, <1>12, <1>13,
     <1>14 DEF Next

\* Every action keeps questions and answers together.
LEMMA NextConversation == IInv /\ [Next]_vars => Conversation'
<1> SUFFICES ASSUME IInv, [Next]_vars PROVE Conversation'
  OBVIOUS
<1> USE DEF Conversation, Cancelled
<1>1. TypeOK /\ OneAttempt /\ Conversation
  BY DEF IInv
<1>2. ~NoPrompt.requiresResponse
  BY DEF NoPrompt
<1>3. CASE Lock
  <2>1. CASE busy
    BY <1>2, <1>3, <2>1 DEF Lock
  <2>2. CASE ~busy
    BY <1>1, <1>3, <2>2 DEF Lock
  <2> QED
    BY <2>1, <2>2
<1>4. CASE Begin
  BY <1>2, <1>4 DEF Begin
<1>5. CASE Stop
  BY <1>2, <1>5 DEF Stop
<1>6. ASSUME NEW a \in 0..nextAttempt, Cancel(a) PROVE Conversation'
  BY <1>2, <1>6 DEF Cancel
<1>7. ASSUME NEW a \in 1..nextAttempt, NEW n \in 1..nextSequence, Respond(a, n)
      PROVE  Conversation'
  BY <1>1, <1>7 DEF Respond, Accepts, OneAttempt, Running
<1>8. CASE TakeWork
  BY <1>1, <1>8 DEF TakeWork, WorkerAt
<1>9. CASE WorkerExits
  BY <1>1, <1>9 DEF WorkerExits, WorkerAt
<1>10. ASSUME NEW r \in BOOLEAN, Converse(r) PROVE Conversation'
  BY <1>10 DEF Converse
<1>11. CASE Answered
  BY <1>1, <1>2, <1>11 DEF Answered
<1>12. CASE Unwound
  BY <1>1, <1>12 DEF Unwound
<1>13. CASE PromptTimesOut
  BY <1>2, <1>13 DEF PromptTimesOut
<1>14. ASSUME NEW v \in {"success", "failure"}, BackendReturns(v)
       PROVE  Conversation'
  BY <1>1, <1>14 DEF BackendReturns, WorkerAt
<1>15. CASE Finish
  BY <1>2, <1>15 DEF Finish
<1>16. CASE BeginRefused \/ Synchronize \/ CooldownExpires
  BY <1>1, <1>16 DEF BeginRefused, Synchronize, CooldownExpires
<1>17. ASSUME NEW t \in Threads, PushEvent(t) \/ PublishState(t)
       PROVE  Conversation'
  BY <1>1, <1>17 DEF PushEvent, PublishState
<1>18. CASE PublishEvents \/ TryEvent \/ ReadBoundary \/ ApplyBoundary
  BY <1>1, <1>18 DEF PublishEvents, TryEvent, ReadBoundary, ApplyBoundary
<1>19. CASE UNCHANGED vars
  BY <1>1, <1>19 DEF vars
<1> QED
  BY <1>3, <1>4, <1>5, <1>6, <1>7, <1>8, <1>9, <1>10, <1>11, <1>12, <1>13, <1>14,
     <1>15, <1>16, <1>17, <1>18, <1>19 DEF Next

-----------------------------------------------------------------------------
\* The invariant holds at the start and is kept by every step.
LEMMA Inductive == Spec => []IInv
<1>1. Init => IInv
  <2> SUFFICES ASSUME Init PROVE IInv
    OBVIOUS
  <2>1. shell \in Events
    BY DEF Init, Snapshot, Events
  <2>2. gate \in BOOLEAN
    BY DEF Init
  <2>3. TypeOK
    <3>1. /\ pendingWork \in WorkItems /\ work \in WorkItems
          /\ prompt \in Prompts /\ response \in Responses
      BY DEF Init, NoWork, NoPrompt, NoResponse, WorkItems, Prompts, Responses
    <3>2. events \in Seq(Events) /\ Len(events) <= MaxPendingEvents
      BY AuthenticationAssumption DEF Init
    <3>3. push \in [Threads -> Seq(Events)] /\ publish \in [Threads -> BOOLEAN]
      BY DEF Init
    <3>4. /\ generation \in Nat /\ nextAttempt \in Nat \ {0} /\ activeAttempt \in Nat
          /\ nextSequence \in Nat \ {0} /\ sequence \in Nat
          /\ commands \in Nat /\ validFrom \in Nat
      BY DEF Init
    <3>5. /\ locked \in BOOLEAN /\ applied \in BOOLEAN /\ observed \in BOOLEAN
          /\ available \in BOOLEAN /\ stopping \in BOOLEAN /\ busy \in BOOLEAN
          /\ cancelRequested \in BOOLEAN /\ coolingDown \in BOOLEAN
      BY Zenon DEF Init
    <3>6. main = "loop" /\ worker = "idle" /\ result \in BackendResults
      BY DEF Init, BackendResults
    <3> QED
      BY <2>1, <2>2, <3>1, <3>2, <3>3, <3>4, <3>5, <3>6 DEF TypeOK
  <2>4. OneAttempt /\ Overtaken
    BY DEF Init, OneAttempt, Overtaken, Running
  <2>5. Gate
    BY DEF Init, Gate, GateOpensAfterBoundary
  <2>6. Conversation
    BY DEF Init, Conversation, NoPrompt
  <2> QED
    BY <2>3, <2>4, <2>5, <2>6 DEF IInv
<1>2. IInv /\ [Next]_vars => IInv'
  BY NextType, NextOneAttempt, NextGate, NextConversation DEF IInv
<1> QED
  BY <1>1, <1>2, PTL DEF Spec

\* The types of SharedAuthentication and of both threads, and the bound of the
\* event queue, hold in every reachable state.
THEOREM AuthenticationTypes == Spec => []TypeOK
<1>1. IInv => TypeOK
  BY DEF IInv
<1> QED
  BY <1>1, Inductive, PTL

\* The gate for privileged commands (acknowledge_unlocked_boundary) is open
\* only after the main loop has applied the boundary of an unlocked session.
THEOREM GateIsSafe == Spec => []GateOpensAfterBoundary
<1>1. IInv => GateOpensAfterBoundary
  BY DEF IInv, Gate
<1> QED
  BY <1>1, Inductive, PTL

\* PAM receives (converse) only the answer to the prompt it has just put.
THEOREM AnswersMatch == Spec => []ResponseMatchesPrompt
<1>1. IInv => ResponseMatchesPrompt
  BY DEF IInv, Conversation, ResponseMatchesPrompt
<1> QED
  BY <1>1, Inductive, PTL

\* Only Finish unlocks, and only for an attempt that nothing has overtaken
\* (run_authentication_worker): lock, cancel, timeout and drop all win.
THEOREM OnlyCurrentUnlocks == Spec => UnlockIsCurrent
<1>1. IInv /\ [Next]_vars => [locked /\ ~locked' => work.attempt >= validFrom]_vars
  <2> SUFFICES ASSUME IInv, Next, locked, ~locked'
               PROVE  work.attempt >= validFrom
    OBVIOUS
  <2>1. Finish
    BY DEF Next, Lock, BeginRefused, Begin, Synchronize, Stop, Respond, Cancel,
           CooldownExpires, PushEvent, PublishState, PublishEvents, TryEvent,
           ReadBoundary, ApplyBoundary, TakeWork, WorkerExits, Converse,
           Answered, Unwound, PromptTimesOut, BackendReturns
  <2>2. Current
    BY <2>1 DEF Finish
  <2>3. busy /\ activeAttempt >= validFrom
    BY <2>1, <2>2 DEF Finish, WorkerAt, Current, IInv, OneAttempt, Overtaken, Running
  <2> QED
    BY <2>2, <2>3 DEF Current
<1> QED
  BY <1>1, Inductive, PTL DEF Spec, UnlockIsCurrent

-----------------------------------------------------------------------------
(* The order of events.                                                    *)

Newest == IF events = <<>> THEN shell ELSE events[Len(events)]

IsCurrent(event) == event.locked = locked /\ event.busy = busy

\* What a thread has built and will not follow with a State event: answers to
\* Synchronize, or a prompt, which is still true when it is pushed because only
\* the worker itself ends the attempt.
Unfollowed(t) ==
    \A n \in 1..Len(push[t]) :
        \/ t = "main" /\ push[t][n].source = "synchronize"
        \/ t = "worker" /\ Running /\ push[t][n].locked = TRUE /\ push[t][n].busy = TRUE

\* An event that is stale, or may become so, is followed by a State event of the
\* thread that made it stale.
EventOrder ==
    /\ busy => locked
    /\ \A t \in Threads : publish[t] \/ Unfollowed(t)
    /\ \/ Newest.source \in {"initial", "synchronize"}
       \/ IsCurrent(Newest)
       \/ \E t \in Threads : publish[t]

\* An event that is pushed is the newest one, full queue or not.
LEMMA EnqueueNewest ==
    ASSUME NEW queue \in Seq(Events), NEW event \in Events,
           Len(queue) <= MaxPendingEvents
    PROVE  /\ Enqueue(queue, event) # <<>>
           /\ Enqueue(queue, event)[Len(Enqueue(queue, event))] = event
<1>1. CASE Len(queue) = MaxPendingEvents
  <2>1. queue # <<>>
    BY <1>1, AuthenticationAssumption
  <2>2. Tail(queue) \in Seq(Events)
    BY <2>1
  <2> QED
    BY <1>1, <2>2 DEF Enqueue
<1>2. CASE Len(queue) # MaxPendingEvents
  BY <1>2, AuthenticationAssumption DEF Enqueue
<1> QED
  BY <1>1, <1>2

\* Every action leaves a State event to follow what it makes stale.
LEMMA NextEventOrder == IInv /\ EventOrder /\ [Next]_vars => EventOrder'
<1> SUFFICES ASSUME IInv, EventOrder, [Next]_vars PROVE EventOrder'
  OBVIOUS
<1> USE DEF EventOrder, IsCurrent
<1>1. /\ TypeOK /\ (Running => busy)
      /\ \A t \in Threads : push[t] \in Seq(Events) /\ publish[t] \in BOOLEAN
  BY DEF IInv, TypeOK, OneAttempt
<1>2. CASE Lock
  <2>1. publish' = [publish EXCEPT !["main"] = TRUE] /\ push' = [push EXCEPT !["main"] = <<>>]
    BY <1>2 DEF Lock, Announce
  <2>2. publish'["main"] /\ UNCHANGED <<publish["worker"], push["worker"], worker, busy>> /\ locked'
    BY <1>1, <1>2, <2>1 DEF Lock, TypeOK, Threads
  <2>3. publish'["worker"] \/ Unfollowed("worker")'
    BY <2>2 DEF Unfollowed, Threads, Running
  <2> QED
    BY <2>2, <2>3 DEF Threads
<1>3. CASE BeginRefused
  <2>1. publish' = [publish EXCEPT !["main"] = TRUE]
        /\ UNCHANGED push["worker"] /\ UNCHANGED <<worker, locked, busy>>
    BY <1>1, <1>3 DEF BeginRefused, Announce, TypeOK, Threads
  <2>2. publish'["main"] /\ UNCHANGED publish["worker"]
    BY <1>1, <2>1 DEF TypeOK, Threads
  <2>3. publish'["worker"] \/ Unfollowed("worker")'
    BY <2>1, <2>2 DEF Unfollowed, Threads, Running
  <2> QED
    BY <2>1, <2>2, <2>3 DEF Threads
<1>4. CASE Begin
  <2>1. publish' = [publish EXCEPT !["main"] = TRUE] /\ push' = [push EXCEPT !["main"] = <<>>]
    BY <1>4 DEF Begin, Announce
  <2>2. publish'["main"] /\ UNCHANGED <<publish["worker"], push["worker"], worker>> /\ locked'
    BY <1>1, <1>4, <2>1 DEF Begin, TypeOK, Threads
  <2>3. publish'["worker"] \/ Unfollowed("worker")'
    BY <2>2 DEF Unfollowed, Threads, Running
  <2> QED
    BY <2>2, <2>3 DEF Threads
<1>5. ASSUME NEW a \in 0..nextAttempt, Cancel(a) PROVE EventOrder'
  <2>1. publish' = [publish EXCEPT !["main"] = TRUE] /\ push' = [push EXCEPT !["main"] = <<>>]
    BY <1>5 DEF Cancel, Announce
  <2>2. /\ publish'["main"] /\ UNCHANGED <<publish["worker"], push["worker"]>>
        /\ UNCHANGED <<worker, locked, busy>>
    BY <1>1, <1>5, <2>1 DEF Cancel, TypeOK, Threads
  <2>3. publish'["worker"] \/ Unfollowed("worker")'
    BY <2>2 DEF Unfollowed, Threads, Running
  <2> QED
    BY <2>2, <2>3 DEF Threads
<1>6. CASE Synchronize
  <2> DEFINE state == Snapshot("synchronize", locked, busy)
  <2>1. push'["main"] = IF prompt = NoPrompt THEN <<state>> ELSE <<state>> \o <<state>>
    BY <1>6 DEF Synchronize, TypeOK, Threads, IInv
  <2>2. state.source = "synchronize"
    BY DEF Snapshot
  <2>3. \A n \in 1..Len(push'["main"]) : push'["main"][n] = state
    <3> HIDE DEF state
    <3> QED
      BY <2>1
  <2>4. Unfollowed("main")'
    BY <2>2, <2>3 DEF Unfollowed
  <2>5. UNCHANGED push["worker"] /\ UNCHANGED <<publish, worker, locked, busy, events, shell>>
    BY <1>1, <1>6 DEF Synchronize, TypeOK, Threads
  <2>6. publish'["worker"] \/ Unfollowed("worker")'
    BY <2>5 DEF Unfollowed, Threads, Running
  <2> QED
    BY <2>4, <2>5, <2>6 DEF Threads, Newest
<1>7. ASSUME NEW t \in Threads, PushEvent(t) PROVE EventOrder'
  <2>1. push[t] \in Seq(Events) /\ push[t] # <<>>
    BY <1>1, <1>7 DEF PushEvent
  <2>2. /\ Head(push[t]) = push[t][1] /\ 1 \in 1..Len(push[t]) /\ Head(push[t]) \in Events
        /\ Tail(push[t]) \in Seq(Events) /\ Len(Tail(push[t])) = Len(push[t]) - 1
        /\ \A n \in 1..Len(Tail(push[t])) : Tail(push[t])[n] = push[t][n + 1]
    BY <2>1
  <2>3. Newest' = Head(push[t])
    BY <1>1, <1>7, <2>2, EnqueueNewest DEF PushEvent, Newest, TypeOK
  <2>4. UNCHANGED <<publish, locked, busy, worker>>
        /\ \A u \in Threads : push'[u] = IF u = t THEN Tail(push[t]) ELSE push[u]
    BY <1>1, <1>7 DEF PushEvent, TypeOK
  <2>5. publish[t] \/ IsCurrent(Head(push[t])) \/ Head(push[t]).source = "synchronize"
    BY <1>1, <2>2 DEF Unfollowed, TypeOK
  <2>6. ASSUME NEW u \in Threads, Unfollowed(u) PROVE Unfollowed(u)'
    <3>1. CASE u # t
      <4>1. push'[u] = push[u] /\ worker' = worker
        BY <2>4, <3>1
      <4> QED
        BY <2>6, <4>1 DEF Unfollowed, Running
    <3>2. CASE u = t
      <4> DEFINE rest == Tail(push[t])
      <4>1. push'[t] = rest /\ worker' = worker
        BY <2>4
      <4>2. \A n \in 1..Len(rest) : n + 1 \in 1..Len(push[t]) /\ rest[n] = push[t][n + 1]
        BY <2>1, <2>2
      <4> HIDE DEF rest
      <4>3. \A n \in 1..Len(rest) :
               \/ t = "main" /\ rest[n].source = "synchronize"
               \/ t = "worker" /\ Running /\ rest[n].locked = TRUE /\ rest[n].busy = TRUE
        BY <2>6, <3>2, <4>2 DEF Unfollowed
      <4> QED
        BY <3>2, <4>1, <4>3 DEF Unfollowed, Running
    <3> QED
      BY <3>1, <3>2
  <2> QED
    BY <2>3, <2>4, <2>5, <2>6
<1>8. ASSUME NEW t \in Threads, PublishState(t) PROVE EventOrder'
  <2> DEFINE state == Snapshot("publish", locked, busy)
  <2>1. state \in Events /\ state.locked = locked /\ state.busy = busy
    BY <1>1 DEF Snapshot, Events, TypeOK
  <2>2. events' = Enqueue(events, state)
    BY <1>8 DEF PublishState
  <2> HIDE DEF state
  <2>3. Newest' = state
    BY <1>1, <2>1, <2>2, EnqueueNewest DEF Newest, TypeOK
  <2>4. UNCHANGED <<push, locked, busy, worker>> /\ push[t] = <<>>
        /\ \A u \in Threads : u # t => publish'[u] = publish[u]
    BY <1>1, <1>8 DEF PublishState, TypeOK
  <2>5. Unfollowed(t)' /\ \A u \in Threads : Unfollowed(u) => Unfollowed(u)'
    BY <2>4 DEF Unfollowed, Running
  <2> QED
    BY <2>1, <2>3, <2>4, <2>5
<1>9. CASE TryEvent
  <2>1. Newest' = Newest
    BY <1>1, <1>9 DEF TryEvent, Newest, TypeOK
  <2>2. UNCHANGED <<push, publish, locked, busy, worker>>
    BY <1>9 DEF TryEvent
  <2> QED
    BY <2>1, <2>2 DEF Unfollowed, Running
<1>10. ASSUME NEW r \in BOOLEAN, Converse(r) PROVE EventOrder'
  <2> DEFINE state == Snapshot("prompt", locked, busy)
  <2>1. busy /\ locked /\ Running'
    BY <1>1, <1>10 DEF Converse, WorkerAt, Running
  <2>2. state.locked = TRUE /\ state.busy = TRUE
    BY <1>1, <2>1 DEF Snapshot, TypeOK
  <2>3. push' = [push EXCEPT !["worker"] = <<state>>] /\ UNCHANGED <<publish, events, shell, locked, busy>>
    BY <1>10 DEF Converse
  <2> HIDE DEF state
  <2>4. push'["worker"] = <<state>> /\ push'["main"] = push["main"]
    BY <1>1, <2>3 DEF TypeOK, Threads
  <2>5. Unfollowed("worker")'
    BY <2>1, <2>2, <2>4 DEF Unfollowed
  <2>6. publish["main"] \/ Unfollowed("main")'
    BY <2>4 DEF Unfollowed, Threads
  <2> QED
    BY <2>3, <2>5, <2>6 DEF Newest, Threads
<1>11. CASE Finish
  <2>1. publish' = [publish EXCEPT !["worker"] = TRUE] /\ ~busy'
        /\ UNCHANGED push["main"]
    BY <1>1, <1>11 DEF Finish, Announce, TypeOK, Threads
  <2>2. publish'["worker"] /\ publish'["main"] = publish["main"]
    BY <1>1, <2>1 DEF TypeOK, Threads
  <2>3. publish'["main"] \/ Unfollowed("main")'
    BY <2>1, <2>2 DEF Unfollowed, Threads
  <2> QED
    BY <2>1, <2>2, <2>3 DEF Threads
<1>12. CASE UNCHANGED <<push, publish, locked, busy, worker, events, shell>>
  BY <1>12 DEF Unfollowed, Running, Newest
<1>13. CASE /\ UNCHANGED <<push, publish, locked, busy, events, shell>>
            /\ \E place : WorkerAt(place)
  <2>1. push["worker"] = <<>>
    BY <1>13 DEF WorkerAt, Clear
  <2> QED
    BY <1>13, <2>1 DEF Unfollowed, Newest, Threads
<1>14. Stop \/ CooldownExpires \/ PublishEvents \/ ReadBoundary \/ ApplyBoundary =>
          UNCHANGED <<push, publish, locked, busy, worker, events, shell>>
  BY DEF Stop, CooldownExpires, PublishEvents, ReadBoundary, ApplyBoundary
<1>15. \A a, n : Respond(a, n) =>
          UNCHANGED <<push, publish, locked, busy, worker, events, shell>>
  BY DEF Respond
<1>16. TakeWork \/ WorkerExits \/ Answered \/ Unwound \/ PromptTimesOut =>
          UNCHANGED <<push, publish, locked, busy, events, shell>> /\ \E place : WorkerAt(place)
  BY DEF TakeWork, WorkerExits, Answered, Unwound, PromptTimesOut
<1>17. \A v : BackendReturns(v) =>
          UNCHANGED <<push, publish, locked, busy, events, shell>> /\ \E place : WorkerAt(place)
  BY DEF BackendReturns
<1>18. CASE UNCHANGED vars
  BY <1>12, <1>18 DEF vars
<1> QED
  BY <1>2, <1>3, <1>4, <1>5, <1>6, <1>7, <1>8, <1>9, <1>10, <1>11, <1>12, <1>13, <1>14,
     <1>15, <1>16, <1>17, <1>18 DEF Next

\* However the two threads push what they built outside the state mutex, the
\* shell ends with an event that is true, or with the answer to Synchronize.
THEOREM EventsAreCurrent == Spec => []NewestEventIsCurrent
<1>1. Init => EventOrder
  <2> SUFFICES ASSUME Init PROVE EventOrder
    OBVIOUS
  <2>1. Newest.source = "initial"
    BY DEF Init, Newest, Snapshot
  <2>2. \A t \in Threads : Unfollowed(t)
    BY DEF Init, Unfollowed
  <2> QED
    BY <2>1, <2>2 DEF Init, EventOrder
<1>2. IInv /\ EventOrder /\ [Next]_vars => EventOrder'
  BY NextEventOrder
<1>3. EventOrder => NewestEventIsCurrent
  BY DEF EventOrder, NewestEventIsCurrent, Newest, IsCurrent, Clear
<1> QED
  BY <1>1, <1>2, <1>3, Inductive, PTL DEF Spec

=============================================================================
