---------------------- MODULE PresentationSessionProofs ----------------------
(***************************************************************************)
(* Proofs about the session of Presentation, for any number of outputs,    *)
(* slots, captures and interruptions: the main loop takes none of its      *)
(* internal error returns, and the pipelines agree with KMS.               *)
(*                                                                         *)
(* Two commits in Volition may carry one CommitId, because a power-off     *)
(* moves the positions of the pipelines; an acknowledgement may then reach *)
(* another pipeline than the one that asked.  What still holds is a count: *)
(* for every id at least as many pipelines wait as answers are on the way. *)
(***************************************************************************)
EXTENDS PresentationProofs, WellFoundedInduction

-----------------------------------------------------------------------------
(* The inductive invariant, on top of IInv. *)

\* A pipeline that is stopped for power-off has no ready frame.
Stopped == \A o \in poweringOff : ready[o] = NoSlot

\* Only a frame in flight waits for Volition.
OnlyFlightsWait == \A o \in Outputs : inFlight[o] = NoSlot => scheduled[o] = NoCommit

\* The queues are finite, and no event is of a worker yet to come.
QueuesFinite ==
    /\ IsFiniteSet(jobs) /\ IsFiniteSet(volitionEvents) /\ IsFiniteSet(delivered)
    /\ \A e \in volitionEvents \union delivered : e.instance <= instance

\* Commits c in Volition, and acknowledgements of c by the running worker.
Queued(c) == {j \in jobs : j.commit = c}
Reports(events, c) == {e \in events : Owns(e) /\ e.kind = "Submitted" /\ e.commit = c}

\* As many pipelines wait for an acknowledgement of c as may still arrive.
Awaited(c) ==
    Cardinality(Queued(c)) + Cardinality(Reports(volitionEvents, c))
        + Cardinality(Reports(delivered, c)) <= Cardinality(Awaiting(c))

SessionInv ==
    /\ phase # "exited"
    /\ Stopped
    /\ OnlyFlightsWait
    /\ QueuesFinite
    /\ \A c \in CommitIds : Awaited(c)

\* Outside a recovery, a pipeline with nothing in flight that does not wait to
\* enable its CRTC scans out what KMS shows.
PipelinesAgree ==
    rebased \/ recoveryRequested \/ \A o \in powered :
        inFlight[o] = NoSlot /\ wakeModeset[o] = "none" => front[o] = scanning[o]

-----------------------------------------------------------------------------
(* Lemmas about finite sets and the queues. *)

USE DEF brokerVars, volitionVars, fenceVars, frameVars, powerVars, schedulerVars,
        loopVars, rasterVars, kmsVars

\* Every non-empty set of pipelines has a first one, so the position that
\* acknowledge_volition_events stops at exists.
LEMMA FirstExists ==
    ASSUME NEW f \in [Outputs -> Int], NEW S \in SUBSET Outputs, S # {}
    PROVE  \E o \in S : \A p \in S : f[o] <= f[p]
<1> DEFINE HasFirst(Q) == \E o \in Q : \A p \in Q : f[o] <= f[p]
           Bad == {Q \in FiniteSubsetsOf(Outputs) : Q # {} /\ ~HasFirst(Q)}
<1> SUFFICES ASSUME ~HasFirst(S) PROVE FALSE
  OBVIOUS
<1>1. S \in Bad
  BY FS_Subset, PresentationAssumption DEF FiniteSubsetsOf
<1>2. PICK Q \in Bad : \A R \in Bad : ~(<<R, Q>> \in StrictSubsetOrdering(Outputs))
  <2>1. IsWellFoundedOn(StrictSubsetOrdering(Outputs), FiniteSubsetsOf(Outputs))
    BY FS_StrictSubsetOrderingWellFounded
  <2>2. Bad \subseteq FiniteSubsetsOf(Outputs) /\ Bad # {}
    BY <1>1
  <2> HIDE DEF Bad
  <2> QED
    BY <2>1, <2>2, WFMin
<1>3. Q \in SUBSET Outputs /\ IsFiniteSet(Q) /\ Q # {} /\ ~HasFirst(Q)
  BY <1>2 DEF FiniteSubsetsOf
<1>4. PICK o \in Q : TRUE
  BY <1>3
<1>5. Q \ {o} \in FiniteSubsetsOf(Outputs)
  BY <1>3, FS_RemoveElement DEF FiniteSubsetsOf
<1>6. <<Q \ {o}, Q>> \in StrictSubsetOrdering(Outputs)
  BY <1>3, <1>4, <1>5 DEF StrictSubsetOrdering, FiniteSubsetsOf
<1>7. Q \ {o} = {} \/ HasFirst(Q \ {o})
  BY <1>2, <1>5, <1>6
<1>8. HasFirst(Q)
  <2>1. \A p \in Q : f[p] \in Int
    BY <1>3
  <2>2. CASE Q \ {o} = {}
    BY <1>4, <2>1, <2>2
  <2>3. CASE HasFirst(Q \ {o})
    BY <1>4, <2>1, <2>3
  <2> QED
    BY <1>7, <2>2, <2>3
<1> QED
  BY <1>3, <1>8

\* An element adds at most one to the size of a finite set.
LEMMA AddAtMostOne ==
    ASSUME NEW S, NEW x, IsFiniteSet(S)
    PROVE  /\ IsFiniteSet(S \union {x})
           /\ Cardinality(S \union {x}) \in Nat
           /\ Cardinality(S \union {x}) <= Cardinality(S) + 1
<1>1. /\ IsFiniteSet(S \union {x}) /\ Cardinality(S) \in Nat
      /\ Cardinality(S \union {x}) = IF x \in S THEN Cardinality(S) ELSE Cardinality(S) + 1
  BY FS_AddElement, FS_CardinalityType
<1> QED
  BY <1>1

\* A union is no larger than its parts together.
LEMMA UnionAtMostSum ==
    ASSUME NEW S, NEW T, IsFiniteSet(S), IsFiniteSet(T)
    PROVE  /\ IsFiniteSet(S \union T)
           /\ Cardinality(S \union T) \in Nat
           /\ Cardinality(S \union T) <= Cardinality(S) + Cardinality(T)
<1>1. /\ IsFiniteSet(S \union T) /\ Cardinality(S) \in Nat /\ Cardinality(T) \in Nat
      /\ Cardinality(S \union T) = Cardinality(S) + Cardinality(T) - Cardinality(S \cap T)
  BY FS_Union, FS_CardinalityType
<1>2. IsFiniteSet(S \cap T)
  BY FS_Subset
<1>3. Cardinality(S \cap T) \in Nat /\ Cardinality(S \union T) \in Nat
  BY <1>1, <1>2, FS_CardinalityType
<1> QED
  BY <1>1, <1>3

\* The worker reports no more commits than it had jobs.
LEMMA FiniteImage ==
    ASSUME NEW S, IsFiniteSet(S)
    PROVE  LET T == {EventOf("Submitted", j) : j \in S}
           IN  /\ IsFiniteSet(T)
               /\ Cardinality(T) \in Nat
               /\ Cardinality(T) <= Cardinality(S)
<1> DEFINE T == {EventOf("Submitted", j) : j \in S}
           f == [j \in S |-> EventOf("Submitted", j)]
<1>1. f \in Surjection(S, T)
  BY DEF Surjection
<1> HIDE DEF f, T
<1>2. IsFiniteSet(T) /\ Cardinality(T) <= Cardinality(S)
  BY <1>1, FS_Surjection
<1>3. Cardinality(T) \in Nat
  BY <1>2, FS_CardinalityType
<1> QED
  BY <1>2, <1>3 DEF T

\* The parts of finite sets that Awaited counts, and their sizes.
LEMMA PartsFinite ==
    ASSUME IInv, QueuesFinite, NEW c
    PROVE  /\ IsFiniteSet(Queued(c)) /\ Cardinality(Queued(c)) \in Nat
           /\ IsFiniteSet(Reports(volitionEvents, c))
           /\ Cardinality(Reports(volitionEvents, c)) \in Nat
           /\ IsFiniteSet(Reports(delivered, c))
           /\ Cardinality(Reports(delivered, c)) \in Nat
           /\ IsFiniteSet(Awaiting(c)) /\ Cardinality(Awaiting(c)) \in Nat
<1>1. /\ Queued(c) \in SUBSET jobs
      /\ Reports(volitionEvents, c) \in SUBSET volitionEvents
      /\ Reports(delivered, c) \in SUBSET delivered
      /\ Awaiting(c) \in SUBSET Outputs
  BY DEF Queued, Reports, Awaiting, IInv, TypeOK, SchedulerTypeOK
<1> QED
  BY <1>1, FS_Subset, FS_CardinalityType, PresentationAssumption DEF QueuesFinite

\* A step that touches no queue, pipeline or frame, and does not exit.
LEMMA SessionFrame ==
    ASSUME SessionInv, phase' # "exited",
           UNCHANGED <<jobs, volitionEvents, delivered, instance, powered, scheduled,
                       inFlight, ready, poweringOff>>
    PROVE  SessionInv'
BY DEF SessionInv, Stopped, OnlyFlightsWait, QueuesFinite, Awaited, Queued, Reports, Owns,
       Awaiting

\* The same for a step that moves no acknowledgement: the queues and who waits
\* for which commit stay.
LEMMA AwaitedFrame ==
    ASSUME QueuesFinite, \A c \in CommitIds : Awaited(c),
           UNCHANGED <<jobs, volitionEvents, delivered, instance>>,
           \A c \in CommitIds : Awaiting(c)' = Awaiting(c)
    PROVE  QueuesFinite' /\ \A c \in CommitIds : Awaited(c)'
BY DEF QueuesFinite, Awaited, Queued, Reports, Owns

-----------------------------------------------------------------------------
(* No error return is taken. *)

\* A slot that the scheduler claims is referenced, and not in production.
LEMMA HeldReferenced ==
    ASSUME IInv, NEW o \in Outputs, NEW i \in Slots, Held(o, i)
    PROVE  Releasable(o, i) /\ Retainable(o, i)
<1>1. leases[o][i] \in Nat /\ outputRefs[o][i] \in Nat
  BY DEF IInv, TypeOK, BrokerTypeOK
<1>2. outputRefs[o][i] > 0
  BY <1>1 DEF IInv, BufferInv, RefsExact
<1> QED
  BY <1>1, <1>2 DEF IInv, BufferInv, ProductionUnreferenced, Releasable, Retainable

\* The errors of acknowledge_ready_fences, publish_ready, discard_ready_frame
\* and handle_completions do not occur, nor a refused retain_output.
LEMMA NoBufferErrors ==
    ASSUME IInv, SessionInv
    PROVE  /\ \A s \in fenceSignals : ~AcknowledgeFails(s)
           /\ \A o \in Outputs, i \in Slots : Takeable(o, i) => ~PublishFails(o, i)
           /\ ~DiscardFails(DiscardedByPowerOff)
           /\ \A o \in Outputs : ~RetireFails(o, FALSE) /\ Retainable(o, scanning[o])
<1>1. ASSUME NEW s \in fenceSignals PROVE ~AcknowledgeFails(s)
  <2>1. s.output \in Outputs /\ s.slot \in Slots
    BY DEF IInv, TypeOK, SchedulerTypeOK, Signals
  <2> QED
    BY <2>1, HeldReferenced DEF AcknowledgeFails, DiscardsOn, Held
<1>2. ASSUME NEW o \in Outputs, NEW i \in Slots, Takeable(o, i) PROVE ~PublishFails(o, i)
  <2>1. Publishable(o, i)
    BY <1>2 DEF Takeable, Publishable, IInv, BufferInv, ProductionUnreferenced
  <2>2. o \in powered => ready[o] = NoSlot
    BY <1>2 DEF Takeable, ReadyHandoffAvailable, SessionInv, Stopped
  <2>3. fenceState[o][i] = "none"
    <3>1. ~Held(o, i)
      BY <2>1, HeldReferenced DEF Publishable, Retainable
    <3>2. ready[o] # i /\ fenceState[o][i] # "discard"
      BY <3>1 DEF Held
    <3>3. fenceState[o][i] \in FenceStates
      BY DEF IInv, TypeOK, SchedulerTypeOK
    <3> QED
      BY <3>2, <3>3 DEF FenceStates, IInv, BufferInv, FencesGuard
  <2> QED
    BY <2>1, <2>2, <2>3 DEF PublishFails
<1>3. ~DiscardFails(DiscardedByPowerOff)
  <2>1. \A o \in DiscardedByPowerOff : o \in Outputs /\ ready[o] \in Slots
    BY DEF DiscardedByPowerOff, Off, IInv, TypeOK, SchedulerTypeOK, OptionalSlots
  <2> QED
    BY <2>1, HeldReferenced DEF DiscardFails, Held
<1>4. ASSUME NEW o \in Outputs PROVE ~RetireFails(o, FALSE) /\ Retainable(o, scanning[o])
  <2>1. scanning[o] \in Slots
    BY DEF IInv, TypeOK, SchedulerTypeOK
  <2> QED
    BY <2>1, HeldReferenced DEF RetireFails, Held
<1> QED
  BY <1>1, <1>2, <1>3, <1>4

\* An acknowledgement of the running worker finds a pipeline that waits for it.
LEMMA AcknowledgementFinds ==
    ASSUME IInv, SessionInv, NEW e \in delivered, Owns(e), e.kind = "Submitted"
    PROVE  /\ e.commit \in CommitIds
           /\ Awaiting(e.commit) # {}
           /\ FirstAwaiting(e.commit) \in Awaiting(e.commit)
<1> DEFINE c == e.commit
<1>1. c \in CommitIds
  BY DEF IInv, TypeOK, Events
<1>2. QueuesFinite /\ Awaited(c)
  BY <1>1 DEF SessionInv
<1>3. e \in Reports(delivered, c)
  BY DEF Reports
<1> HIDE DEF c
<1>4. Cardinality(Reports(delivered, c)) # 0
  BY <1>2, <1>3, PartsFinite, FS_EmptySet
<1>5. Cardinality(Awaiting(c)) # 0
  BY <1>2, <1>4, PartsFinite DEF Awaited
<1>6. Awaiting(c) # {}
  BY <1>5, FS_EmptySet
<1>7. Awaiting(c) \in SUBSET Outputs /\ stream \in [Outputs -> Int]
  BY DEF Awaiting, IInv, TypeOK, SchedulerTypeOK
<1>8. \E o \in Awaiting(c) : \A p \in Awaiting(c) : stream[o] <= stream[p]
  BY <1>6, <1>7, FirstExists
<1>9. FirstAwaiting(c) \in Awaiting(c)
  BY <1>8 DEF FirstAwaiting
<1> QED
  BY <1>1, <1>6, <1>9 DEF c

-----------------------------------------------------------------------------
(* Acknowledgements: the steps of the queues. *)

\* No commit is the absent one.
LEMMA NoCommitIsNone == NoCommit \notin CommitIds
BY SlotCountAssumption DEF NoCommit, CommitIds, Slots, NoSlot

\* Who waits for a commit, when one pipeline's in_flight changes.
LEMMA AwaitingUpdate ==
    ASSUME IInv, NEW o \in powered, NEW commit, NEW c,
           scheduled' = [scheduled EXCEPT ![o] = commit], UNCHANGED powered
    PROVE  Awaiting(c)' = IF commit = c THEN Awaiting(c) \union {o} ELSE Awaiting(c) \ {o}
<1>1. powered \subseteq Outputs /\ DOMAIN scheduled = Outputs
  BY DEF IInv, TypeOK, SchedulerTypeOK
<1>2. \A p \in powered : scheduled'[p] = IF p = o THEN commit ELSE scheduled[p]
  BY <1>1
<1> QED
  BY <1>2 DEF Awaiting

\* submit_ready hands a commit to Volition and waits for it.
LEMMA SubmitReadySession ==
    ASSUME IInv, SessionInv, NEW o \in Outputs, SubmitReady(o)
    PROVE  SessionInv'
<1> DEFINE commit == CommitOf(o)
           new == Job(o, ready[o], commit)
<1>1. /\ scheduled' = [scheduled EXCEPT ![o] = commit]
      /\ inFlight' = [inFlight EXCEPT ![o] = ready[o]]
      /\ ready' = [ready EXCEPT ![o] = NoSlot]
      /\ jobs' = jobs \union {new}
      /\ UNCHANGED <<phase, poweringOff, volitionEvents, delivered, instance, powered>>
      /\ o \in powered /\ inFlight[o] = NoSlot /\ ready[o] # NoSlot
  BY DEF SubmitReady, ScheduleReady, SubmitForTarget, TakeReady, Submittable
<1>2. /\ DOMAIN ready = Outputs /\ DOMAIN inFlight = Outputs /\ DOMAIN scheduled = Outputs
      /\ poweringOff \subseteq Outputs
  BY DEF IInv, TypeOK, SchedulerTypeOK
<1>3. new.commit = commit
  BY DEF Job
<1> HIDE DEF commit, new
<1>4. Stopped' /\ OnlyFlightsWait'
  BY <1>1, <1>2 DEF SessionInv, Stopped, OnlyFlightsWait
<1>5. QueuesFinite'
  BY <1>1, FS_AddElement DEF SessionInv, QueuesFinite
<1>6. ASSUME NEW c \in CommitIds PROVE Awaited(c)'
  <2>1. /\ Reports(volitionEvents, c)' = Reports(volitionEvents, c)
        /\ Reports(delivered, c)' = Reports(delivered, c)
    BY <1>1 DEF Reports, Owns
  <2>2. Queued(c)' = IF commit = c THEN Queued(c) \union {new} ELSE Queued(c)
    BY <1>1, <1>3 DEF Queued
  <2>3. o \notin Awaiting(c)
    BY <1>1, NoCommitIsNone DEF Awaiting, SessionInv, OnlyFlightsWait
  <2>4. Awaiting(c)' = IF commit = c THEN Awaiting(c) \union {o} ELSE Awaiting(c)
    <3>1. Awaiting(c)' = IF commit = c THEN Awaiting(c) \union {o} ELSE Awaiting(c) \ {o}
      BY <1>1, AwaitingUpdate
    <3> QED
      BY <2>3, <3>1
  <2>5. QueuesFinite /\ Awaited(c)
    BY DEF SessionInv
  <2>6. CASE commit = c
    <3>1. Cardinality(Queued(c) \union {new}) <= Cardinality(Queued(c)) + 1
      BY <2>5, PartsFinite, AddAtMostOne
    <3>2. Cardinality(Queued(c) \union {new}) \in Nat
      BY <2>5, PartsFinite, AddAtMostOne
    <3>3. Cardinality(Awaiting(c) \union {o}) = Cardinality(Awaiting(c)) + 1
      BY <2>3, <2>5, PartsFinite, FS_AddElement
    <3> QED
      BY <2>1, <2>2, <2>4, <2>5, <2>6, <3>1, <3>2, <3>3, PartsFinite DEF Awaited
  <2>7. CASE commit # c
    BY <2>1, <2>2, <2>4, <2>5, <2>7 DEF Awaited
  <2> QED
    BY <2>6, <2>7
<1> QED
  BY <1>1, <1>4, <1>5, <1>6 DEF SessionInv

\* The worker's steps: a job is accepted, reported or refused.
LEMMA WorkerSession ==
    ASSUME IInv, SessionInv, NEW j \in jobs, KmsAccept(j) \/ KmsReport(j) \/ KmsRefuse(j)
    PROVE  SessionInv'
<1>1. /\ UNCHANGED <<phase, poweringOff, delivered, instance, powered, scheduled, inFlight,
                     ready>>
      /\ instance \in Nat
  BY DEF KmsAccept, AcceptJob, KmsReport, ReportSubmitted, KmsRefuse, RefuseJob, IInv, TypeOK,
         VolitionTypeOK
<1>2. Stopped' /\ OnlyFlightsWait'
  BY <1>1 DEF SessionInv, Stopped, OnlyFlightsWait
<1>3. QueuesFinite /\ \A c \in CommitIds : Awaited(c)
  BY DEF SessionInv
<1>4. CASE KmsAccept(j)
  <2> DEFINE new == [j EXCEPT !.accepted = TRUE]
  <2>1. jobs' = (jobs \ {j}) \union {new} /\ UNCHANGED volitionEvents
    BY <1>4 DEF KmsAccept, AcceptJob
  <2>2. new.commit = j.commit
    BY DEF IInv, TypeOK, VolitionTypeOK, Jobs
  <2> HIDE DEF new
  <2>3. QueuesFinite'
    BY <1>1, <1>3, <2>1, FS_RemoveElement, FS_AddElement DEF QueuesFinite
  <2>4. ASSUME NEW c \in CommitIds PROVE Awaited(c)'
    <3>1. /\ Reports(volitionEvents, c)' = Reports(volitionEvents, c)
          /\ Reports(delivered, c)' = Reports(delivered, c)
          /\ Awaiting(c)' = Awaiting(c)
      BY <1>1, <2>1 DEF Reports, Owns, Awaiting
    <3>2. Queued(c)' = IF j.commit = c THEN (Queued(c) \ {j}) \union {new} ELSE Queued(c)
      BY <2>1, <2>2 DEF Queued
    <3>3. j.commit = c => j \in Queued(c)
      BY DEF Queued
    <3>4. IsFiniteSet(Queued(c)) /\ Cardinality(Queued(c)) \in Nat
      BY <1>3, PartsFinite
    <3>5. Cardinality(Queued(c)') <= Cardinality(Queued(c)) /\ Cardinality(Queued(c)') \in Nat
      <4>1. CASE j.commit = c
        <5>1. /\ IsFiniteSet(Queued(c) \ {j})
              /\ Cardinality(Queued(c) \ {j}) = Cardinality(Queued(c)) - 1
          BY <3>3, <3>4, <4>1, FS_RemoveElement
        <5>2. /\ Cardinality((Queued(c) \ {j}) \union {new}) <= Cardinality(Queued(c) \ {j}) + 1
              /\ Cardinality((Queued(c) \ {j}) \union {new}) \in Nat
          BY <5>1, AddAtMostOne
        <5> QED
          BY <3>2, <3>4, <4>1, <5>1, <5>2
      <4>2. CASE j.commit # c
        BY <3>2, <3>4, <4>2
      <4> QED
        BY <4>1, <4>2
    <3> QED
      BY <1>3, <3>1, <3>5, PartsFinite DEF Awaited
  <2> QED
    BY <1>1, <1>2, <2>3, <2>4 DEF SessionInv
<1>5. CASE KmsReport(j) \/ KmsRefuse(j)
  <2>1. PICK kind : /\ jobs' = jobs \ {j}
                    /\ volitionEvents' = volitionEvents \union {EventOf(kind, j)}
    BY <1>5 DEF KmsReport, ReportSubmitted, KmsRefuse, RefuseJob
  <2> DEFINE e == EventOf(kind, j)
  <2>2. e.instance = instance /\ e.commit = j.commit
    BY DEF EventOf
  <2> HIDE DEF e
  <2>3. volitionEvents' = volitionEvents \union {e}
    BY <2>1 DEF e
  <2>4. QueuesFinite'
    BY <1>1, <1>3, <2>1, <2>2, <2>3, FS_RemoveElement, FS_AddElement DEF QueuesFinite
  <2>5. ASSUME NEW c \in CommitIds PROVE Awaited(c)'
    <3>1. Reports(delivered, c)' = Reports(delivered, c) /\ Awaiting(c)' = Awaiting(c)
      BY <1>1 DEF Reports, Owns, Awaiting
    <3>2. CASE j.commit # c
      <4>1. Queued(c)' = Queued(c) /\ Reports(volitionEvents, c)' = Reports(volitionEvents, c)
        BY <1>1, <2>1, <2>2, <2>3, <3>2 DEF Queued, Reports, Owns
      <4> QED
        BY <1>3, <3>1, <4>1 DEF Awaited
    <3>3. CASE j.commit = c
      <4>1. j \in Queued(c) /\ Queued(c)' = Queued(c) \ {j}
        BY <2>1, <3>3 DEF Queued
      <4>2. /\ IsFiniteSet(Queued(c)) /\ Cardinality(Queued(c)) \in Nat
            /\ IsFiniteSet(Reports(volitionEvents, c))
            /\ Cardinality(Reports(volitionEvents, c)) \in Nat
        BY <1>3, PartsFinite
      <4>3. Cardinality(Queued(c)') = Cardinality(Queued(c)) - 1
        BY <4>1, <4>2, FS_RemoveElement
      <4>4. \/ Reports(volitionEvents, c)' = Reports(volitionEvents, c)
            \/ Reports(volitionEvents, c)' = Reports(volitionEvents, c) \union {e}
        BY <1>1, <2>3 DEF Reports, Owns
      <4>5. /\ Cardinality(Reports(volitionEvents, c)')
                   <= Cardinality(Reports(volitionEvents, c)) + 1
            /\ Cardinality(Reports(volitionEvents, c)') \in Nat
        BY <4>2, <4>4, AddAtMostOne
      <4> QED
        BY <1>3, <3>1, <4>2, <4>3, <4>5, PartsFinite DEF Awaited
    <3> QED
      BY <3>2, <3>3
  <2> QED
    BY <1>1, <1>2, <2>4, <2>5 DEF SessionInv
<1> QED
  BY <1>4, <1>5

\* dispatch moves the acknowledgements from the channel to the loop's queue.
LEMMA DispatchSession ==
    ASSUME IInv, SessionInv, Dispatch
    PROVE  SessionInv'
<1>1. /\ UNCHANGED <<poweringOff, jobs, instance, powered, scheduled, inFlight, ready>>
      /\ delivered' = delivered \union volitionEvents /\ volitionEvents' = {}
      /\ phase' = "fences"
  BY DEF Dispatch
<1>2. QueuesFinite /\ \A c \in CommitIds : Awaited(c)
  BY DEF SessionInv
<1>3. Stopped' /\ OnlyFlightsWait'
  BY <1>1 DEF SessionInv, Stopped, OnlyFlightsWait
<1>4. QueuesFinite'
  BY <1>1, <1>2, FS_Union, FS_EmptySet DEF QueuesFinite
<1>5. ASSUME NEW c \in CommitIds PROVE Awaited(c)'
  <2> DEFINE D == Reports(delivered, c)
             V == Reports(volitionEvents, c)
  <2>1. /\ Queued(c)' = Queued(c) /\ Awaiting(c)' = Awaiting(c)
        /\ Reports(delivered, c)' = D \union V
        /\ Reports(volitionEvents, c)' = {}
    BY <1>1 DEF Queued, Awaiting, Reports, Owns
  <2>2. /\ IsFiniteSet(D) /\ Cardinality(D) \in Nat /\ IsFiniteSet(V) /\ Cardinality(V) \in Nat
        /\ Cardinality(Queued(c)) \in Nat /\ Cardinality(Awaiting(c)) \in Nat
    BY <1>2, PartsFinite
  <2>3. Cardinality(Queued(c)) + Cardinality(V) + Cardinality(D) <= Cardinality(Awaiting(c))
    BY <1>2 DEF Awaited
  <2> HIDE DEF D, V
  <2>4. Cardinality(D \union V) <= Cardinality(D) + Cardinality(V)
        /\ Cardinality(D \union V) \in Nat
    BY <2>2, UnionAtMostSum
  <2>5. Cardinality({}) = 0
    BY FS_EmptySet
  <2> QED
    BY <2>1, <2>2, <2>3, <2>4, <2>5 DEF Awaited
<1> QED
  BY <1>1, <1>3, <1>4, <1>5 DEF SessionInv

\* acknowledge_volition_events: the acknowledgement and the pipeline that gets
\* it leave the count together, whichever pipeline it is.
LEMMA AckVolitionSession ==
    ASSUME IInv, SessionInv, NEW e \in delivered, AckVolition(e)
    PROVE  SessionInv'
<1>1. CASE Terminate
  <2>1. phase' # "exited"
        /\ UNCHANGED <<jobs, volitionEvents, delivered, instance, powered, scheduled,
                       inFlight, ready, poweringOff>>
    BY <1>1 DEF Terminate, GoTo
  <2> QED
    BY <2>1, SessionFrame
<1>2. ~AcknowledgeVolitionFails(e)
  BY AcknowledgementFinds DEF AcknowledgeVolitionFails
<1>3. CASE /\ AcknowledgeVolition(e) /\ delivered' = delivered \ {e}
           /\ UNCHANGED <<phase, rebased>>
  <2> DEFINE Taken == Owns(e) /\ e.kind = "Submitted"
             first == FirstAwaiting(e.commit)
  <2>1. /\ UNCHANGED <<poweringOff, jobs, volitionEvents, instance, powered, inFlight, ready>>
        /\ scheduled' = IF Taken THEN [scheduled EXCEPT ![first] = NoCommit] ELSE scheduled
    BY <1>3 DEF AcknowledgeVolition
  <2>2. Taken => /\ e.commit \in CommitIds /\ first \in Awaiting(e.commit)
                 /\ first \in powered /\ scheduled[first] = e.commit
    BY AcknowledgementFinds DEF Awaiting
  <2>3. QueuesFinite /\ (\A c \in CommitIds : Awaited(c)) /\ Stopped /\ OnlyFlightsWait
        /\ powered \subseteq Outputs /\ DOMAIN scheduled = Outputs
    BY DEF SessionInv, IInv, TypeOK, SchedulerTypeOK
  <2> HIDE DEF first
  <2>4. Stopped' /\ OnlyFlightsWait'
    BY <2>1, <2>2, <2>3 DEF Stopped, OnlyFlightsWait
  <2>5. QueuesFinite'
    BY <1>3, <2>1, <2>3, FS_RemoveElement DEF QueuesFinite
  <2>6. ASSUME NEW c \in CommitIds PROVE Awaited(c)'
    <3>1. Queued(c)' = Queued(c) /\ Reports(volitionEvents, c)' = Reports(volitionEvents, c)
      BY <2>1 DEF Queued, Reports, Owns
    <3>2. CASE Taken /\ e.commit = c
      <4>1. e \in Reports(delivered, c) /\ Reports(delivered, c)' = Reports(delivered, c) \ {e}
        BY <1>3, <2>1, <3>2 DEF Reports, Owns
      <4>2. first \in Awaiting(c) /\ first \in powered
        BY <2>2, <3>2
      <4>3. Awaiting(c)' = Awaiting(c) \ {first}
        <5>1. scheduled' = [scheduled EXCEPT ![first] = NoCommit] /\ UNCHANGED powered
          BY <2>1, <3>2
        <5>2. NoCommit # c
          BY NoCommitIsNone
        <5> QED
          BY <4>2, <5>1, <5>2, AwaitingUpdate
      <4>4. /\ IsFiniteSet(Awaiting(c)) /\ Cardinality(Awaiting(c)) \in Nat
            /\ IsFiniteSet(Reports(delivered, c)) /\ Cardinality(Reports(delivered, c)) \in Nat
        BY <2>3, PartsFinite
      <4>5. /\ Cardinality(Awaiting(c)') = Cardinality(Awaiting(c)) - 1
            /\ Cardinality(Reports(delivered, c)') = Cardinality(Reports(delivered, c)) - 1
        BY <4>1, <4>2, <4>3, <4>4, FS_RemoveElement
      <4> QED
        BY <2>3, <3>1, <4>4, <4>5, PartsFinite DEF Awaited
    <3>3. CASE ~(Taken /\ e.commit = c)
      <4>1. Reports(delivered, c)' = Reports(delivered, c)
        BY <1>3, <2>1, <3>3 DEF Reports, Owns
      <4>2. Awaiting(c)' = Awaiting(c)
        <5>1. CASE Taken
          <6>1. first \notin Awaiting(c)
            BY <2>2, <3>3, <5>1 DEF Awaiting
          <6>2. Awaiting(c)' = Awaiting(c) \ {first}
            BY <2>1, <2>2, <5>1, AwaitingUpdate, NoCommitIsNone
          <6> QED
            BY <6>1, <6>2
        <5>2. CASE ~Taken
          BY <2>1, <5>2 DEF Awaiting
        <5> QED
          BY <5>1, <5>2
      <4> QED
        BY <2>3, <3>1, <4>1, <4>2 DEF Awaited
    <3> QED
      BY <3>2, <3>3
  <2> QED
    BY <1>3, <2>4, <2>5, <2>6 DEF SessionInv
<1> QED
  BY <1>1, <1>2, <1>3 DEF AckVolition

\* A recovery turns the accepted jobs into acknowledgements.
LEMMA RecoverSession ==
    ASSUME IInv, SessionInv, NEW unread \in SUBSET delivered, Recover(unread)
    PROVE  SessionInv'
<1>1. PICK received \in {{}, EventsAtShutdown} :
            /\ jobs' = {} /\ volitionEvents' = EventsAtShutdown \ received
            /\ delivered' = unread \union received
  BY DEF Recover, ShutdownVolition
<1>2. /\ UNCHANGED <<poweringOff, instance, powered, scheduled, inFlight, ready>>
      /\ phase' = "fences" /\ instance \in Nat
  BY DEF Recover, ShutdownVolition, IInv, TypeOK, VolitionTypeOK
<1>3. QueuesFinite /\ \A c \in CommitIds : Awaited(c)
  BY DEF SessionInv
<1>4. Stopped' /\ OnlyFlightsWait'
  BY <1>2 DEF SessionInv, Stopped, OnlyFlightsWait
<1> DEFINE Accepted == {j \in jobs : j.accepted}
           Late == {EventOf("Submitted", j) : j \in Accepted}
<1>5. IsFiniteSet(Accepted)
  BY <1>3, FS_Subset DEF QueuesFinite
<1>6. \A j \in Accepted : /\ EventOf("Submitted", j).instance = instance
                           /\ EventOf("Submitted", j).commit = j.commit
  BY DEF EventOf
<1>7. IsFiniteSet(Late)
  BY <1>5, FiniteImage
<1>8. EventsAtShutdown = volitionEvents \union Late
  BY DEF EventsAtShutdown
<1>9. IsFiniteSet(EventsAtShutdown) /\ \A e \in EventsAtShutdown : e.instance <= instance
  <2>1. IsFiniteSet(EventsAtShutdown)
    BY <1>3, <1>7, <1>8, FS_Union DEF QueuesFinite
  <2>2. \A e \in Late : e.instance = instance
    BY <1>6
  <2> HIDE DEF Late
  <2> QED
    BY <1>2, <1>3, <1>8, <2>1, <2>2 DEF QueuesFinite
<1> HIDE DEF Late, Accepted
<1>10. QueuesFinite'
  <2>1. IsFiniteSet(unread) /\ \A e \in unread : e.instance <= instance
    BY <1>3, FS_Subset DEF QueuesFinite
  <2>2. IsFiniteSet(volitionEvents')
    BY <1>1, <1>9, FS_Subset
  <2>3. IsFiniteSet(received)
    BY <1>1, <1>9, FS_EmptySet
  <2>4. IsFiniteSet(delivered')
    BY <1>1, <2>1, <2>3, FS_Union
  <2> QED
    BY <1>1, <1>2, <1>9, <2>1, <2>2, <2>4, FS_EmptySet DEF QueuesFinite
<1>11. ASSUME NEW c \in CommitIds PROVE Awaited(c)'
  <2> DEFINE V == Reports(volitionEvents, c)
             J == {j \in Queued(c) : j.accepted}
             L == {EventOf("Submitted", j) : j \in J}
             S == Reports(EventsAtShutdown, c)
             D == Reports(delivered, c)
             U == Reports(unread, c)
  <2>1. /\ IsFiniteSet(Queued(c)) /\ Cardinality(Queued(c)) \in Nat
        /\ IsFiniteSet(V) /\ Cardinality(V) \in Nat /\ IsFiniteSet(D) /\ Cardinality(D) \in Nat
        /\ Cardinality(Awaiting(c)) \in Nat
    BY <1>3, PartsFinite
  <2>2. IsFiniteSet(J) /\ Cardinality(J) <= Cardinality(Queued(c)) /\ Cardinality(J) \in Nat
    BY <2>1, FS_Subset, FS_CardinalityType
  <2>3. IsFiniteSet(L) /\ Cardinality(L) <= Cardinality(J) /\ Cardinality(L) \in Nat
    BY <2>2, FiniteImage
  <2>4. S \in SUBSET (V \union L)
    BY <1>6, <1>8 DEF Reports, Late, Accepted, Queued
  <2>5. U \in SUBSET D
    BY DEF Reports
  <2>6. /\ Queued(c)' = {} /\ Awaiting(c)' = Awaiting(c)
        /\ \/ Reports(volitionEvents, c)' = S /\ Reports(delivered, c)' = U
           \/ Reports(volitionEvents, c)' = {} /\ Reports(delivered, c)' = U \union S
    BY <1>1, <1>2 DEF Queued, Awaiting, Reports, Owns
  <2>7. Cardinality(Queued(c)) + Cardinality(V) + Cardinality(D) <= Cardinality(Awaiting(c))
    BY <1>3 DEF Awaited
  <2> HIDE DEF V, J, L, S, D, U
  <2>8. IsFiniteSet(U) /\ Cardinality(U) \in Nat /\ Cardinality(U) <= Cardinality(D)
    BY <2>1, <2>5, FS_Subset, FS_CardinalityType
  <2>9. IsFiniteSet(V \union L) /\ Cardinality(V \union L) <= Cardinality(V) + Cardinality(L)
        /\ Cardinality(V \union L) \in Nat
    BY <2>1, <2>3, UnionAtMostSum
  <2>10. IsFiniteSet(S) /\ Cardinality(S) \in Nat /\ Cardinality(S) <= Cardinality(V \union L)
    BY <2>4, <2>9, FS_Subset, FS_CardinalityType
  <2>11. Cardinality(U \union S) <= Cardinality(U) + Cardinality(S)
         /\ Cardinality(U \union S) \in Nat
    BY <2>8, <2>10, UnionAtMostSum
  <2>12. Cardinality({}) = 0
    BY FS_EmptySet
  <2>13. Cardinality(U) + Cardinality(S) <= Cardinality(Awaiting(c))
    BY <2>1, <2>2, <2>3, <2>7, <2>8, <2>9, <2>10
  <2>14. Cardinality(Queued(c)') = 0 /\ Cardinality(Awaiting(c)') = Cardinality(Awaiting(c))
    BY <2>6, <2>12
  <2>15. CASE Reports(volitionEvents, c)' = S /\ Reports(delivered, c)' = U
    BY <2>8, <2>10, <2>13, <2>14, <2>15 DEF Awaited
  <2>16. CASE Reports(volitionEvents, c)' = {} /\ Reports(delivered, c)' = U \union S
    <3>1. /\ Cardinality(Reports(volitionEvents, c)') = 0
          /\ Cardinality(Reports(delivered, c)') = Cardinality(U \union S)
      BY <2>12, <2>16
    <3> QED
      BY <2>1, <2>8, <2>10, <2>11, <2>13, <2>14, <3>1 DEF Awaited
  <2> QED
    BY <2>6, <2>15, <2>16
<1> QED
  BY <1>2, <1>4, <1>10, <1>11 DEF SessionInv

\* A rebuilt scheduler waits for nothing, and owns none of the old events.
LEMMA RebuildSession ==
    ASSUME IInv, SessionInv, Rebuild
    PROVE  SessionInv'
<1>1. /\ jobs = {} /\ instance \in Nat
      /\ UNCHANGED <<jobs, volitionEvents, delivered, powered>>
      /\ instance' = instance + 1 /\ phase' = "fences" /\ poweringOff' = {}
      /\ scheduled' = [o \in Outputs |-> NoCommit]
  BY DEF Rebuild, IInv, TypeOK, VolitionTypeOK, KmsInv, RecoveryQuiesces
<1>2. Stopped' /\ OnlyFlightsWait'
  BY <1>1 DEF Stopped, OnlyFlightsWait
<1>3. QueuesFinite /\ \A e \in volitionEvents \union delivered : e.instance \in Nat
  BY DEF SessionInv, IInv, TypeOK, VolitionTypeOK, Events
<1>4. QueuesFinite'
  BY <1>1, <1>3 DEF QueuesFinite
<1>5. ASSUME NEW c \in CommitIds PROVE Awaited(c)'
  <2>1. /\ Queued(c)' = {} /\ Reports(volitionEvents, c)' = {} /\ Reports(delivered, c)' = {}
        /\ Awaiting(c)' = {}
    <3>1. \A e \in volitionEvents \union delivered : e.instance # instance'
      BY <1>1, <1>3 DEF QueuesFinite
    <3>2. Reports(volitionEvents, c)' = {} /\ Reports(delivered, c)' = {}
      BY <1>1, <3>1 DEF Reports, Owns
    <3>3. Awaiting(c)' = {}
      <4>1. powered \subseteq Outputs
        BY DEF IInv, TypeOK, SchedulerTypeOK
      <4> QED
        BY <1>1, <4>1, NoCommitIsNone DEF Awaiting
    <3> QED
      BY <1>1, <3>2, <3>3 DEF Queued
  <2>2. Cardinality({}) = 0
    BY FS_EmptySet
  <2> QED
    BY <2>1, <2>2 DEF Awaited
<1> QED
  BY <1>1, <1>2, <1>4, <1>5 DEF SessionInv

\* A step that changes ready or in_flight but no commit that is waited for.
LEMMA FramesSession ==
    ASSUME SessionInv, phase' # "exited", Stopped', OnlyFlightsWait',
           UNCHANGED <<jobs, volitionEvents, delivered, instance, powered, scheduled>>
    PROVE  SessionInv'
<1>1. \A c \in CommitIds : Awaiting(c)' = Awaiting(c)
  BY DEF Awaiting
<1> QED
  BY <1>1, AwaitedFrame DEF SessionInv

\* publish_ready and the enabling modeset.
LEMMA PublishSession ==
    ASSUME IInv, SessionInv, NEW o \in Outputs, NEW i \in Slots, Publish(o, i)
    PROVE  SessionInv'
<1>1. PublishReady(o, i) /\ UNCHANGED <<phase, delivered>>
  BY NoBufferErrors DEF Publish
<1>2. /\ UNCHANGED <<jobs, volitionEvents, instance, powered, scheduled, inFlight, poweringOff>>
      /\ ready' = ready \/ (o \notin poweringOff /\ ready' = [ready EXCEPT ![o] = i])
  BY <1>1 DEF PublishReady
<1>3. poweringOff \subseteq Outputs /\ DOMAIN ready = Outputs
  BY DEF IInv, TypeOK, SchedulerTypeOK
<1>4. Stopped' /\ OnlyFlightsWait'
  BY <1>2, <1>3 DEF SessionInv, Stopped, OnlyFlightsWait
<1> QED
  BY <1>1, <1>2, <1>4, FramesSession DEF SessionInv

\* The enabling modeset waits for no acknowledgement.
LEMMA SubmitWakeSession ==
    ASSUME IInv, SessionInv, NEW o \in Outputs, SubmitWake(o)
    PROVE  SessionInv'
<1>1. /\ UNCHANGED <<phase, jobs, volitionEvents, delivered, instance, powered, poweringOff>>
      /\ scheduled' = [scheduled EXCEPT ![o] = NoCommit]
      /\ inFlight' = [inFlight EXCEPT ![o] = ready[o]]
      /\ ready' = [ready EXCEPT ![o] = NoSlot]
      /\ inFlight[o] = NoSlot
  BY DEF SubmitWake, WakeReady, TakeReady, WakeDue, Submittable
<1>2. /\ poweringOff \subseteq Outputs /\ DOMAIN ready = Outputs /\ DOMAIN inFlight = Outputs
      /\ scheduled \in [Outputs -> CommitIds \union {NoCommit}]
  BY DEF IInv, TypeOK, SchedulerTypeOK
<1>3. scheduled' = scheduled
  BY <1>1, <1>2 DEF SessionInv, OnlyFlightsWait
<1>4. Stopped' /\ OnlyFlightsWait'
  BY <1>1, <1>2, <1>3 DEF SessionInv, Stopped, OnlyFlightsWait
<1> QED
  BY <1>1, <1>3, <1>4, FramesSession DEF SessionInv

\* handle_completions retires frames that are not waited for.
LEMMA HandleCompletionSession ==
    ASSUME IInv, SessionInv, NEW o \in Outputs, HandleCompletion(o)
    PROVE  SessionInv'
<1>1. CASE StaleCompletion(o) /\ UNCHANGED <<volitionVars, schedulerVars, phase, delivered>>
  BY <1>1, SessionFrame DEF SessionInv
<1>2. ASSUME NEW drop \in BOOLEAN, RetireCompletion(o, drop), UNCHANGED <<phase, delivered>>
      PROVE  SessionInv'
  <2>1. /\ UNCHANGED <<jobs, volitionEvents, instance, powered, scheduled, poweringOff>>
        /\ inFlight' = [inFlight EXCEPT ![o] = NoSlot]
        /\ scheduled[o] = NoCommit
        /\ \A p \in Outputs : ready'[p] \in {ready[p], NoSlot}
    BY <1>2 DEF RetireCompletion, Submitted, DiscardReady
  <2>2. /\ poweringOff \subseteq Outputs /\ DOMAIN inFlight = Outputs
    BY DEF IInv, TypeOK, SchedulerTypeOK
  <2>3. Stopped' /\ OnlyFlightsWait'
    BY <2>1, <2>2 DEF SessionInv, Stopped, OnlyFlightsWait
  <2> QED
    BY <1>2, <2>1, <2>3, FramesSession DEF SessionInv
<1>3. ~RetireFails(o, FALSE)
  BY NoBufferErrors
<1> QED
  BY <1>1, <1>2, <1>3 DEF HandleCompletion

\* apply_output_power_requests adds and removes only pipelines with nothing in
\* flight, so nobody who waits is lost.
LEMMA ApplyPowerSession ==
    ASSUME IInv, SessionInv, ApplyPower
    PROVE  SessionInv'
<1>1. /\ DiscardReady(DiscardedByPowerOff)
      /\ \/ DeferPowerOff /\ Pipelines({})
         \/ CommitPowerOff /\ Pipelines(Off)
         \/ AbortPowerOff /\ Pipelines({})
      /\ phase' \in {"dispatch", "fences"}
      /\ UNCHANGED <<jobs, volitionEvents, instance, inFlight, scheduled, delivered>>
  BY NoBufferErrors DEF ApplyPower
<1>2. /\ powered \subseteq Outputs /\ poweringOff \subseteq Outputs
      /\ Off \subseteq powered /\ On \subseteq Outputs \ powered
      /\ \A o \in On : inFlight[o] = NoSlot
  BY DEF IInv, TypeOK, SchedulerTypeOK, Off, On, KmsInv, FlightsTracked
<1>3. poweringOff' \subseteq poweringOff \union Off
  BY <1>1 DEF DeferPowerOff, CommitPowerOff, AbortPowerOff
<1>4. \A o \in Outputs : ready'[o] = IF o \in Off THEN NoSlot ELSE ready[o]
  BY <1>1, <1>2 DEF DiscardReady, DiscardedByPowerOff
<1>5. Stopped' /\ OnlyFlightsWait'
  BY <1>1, <1>2, <1>3, <1>4 DEF SessionInv, Stopped, OnlyFlightsWait
<1>6. PICK gone \in SUBSET Off : /\ powered' = (powered \ gone) \union On
                                /\ \A o \in gone : inFlight[o] = NoSlot
  BY <1>1 DEF Pipelines, CommitPowerOff, PowerOffWaits
<1>7. ASSUME NEW c \in CommitIds PROVE Awaiting(c)' = Awaiting(c)
  <2>1. \A o \in gone \union On : scheduled[o] # c
    BY <1>2, <1>6, NoCommitIsNone DEF SessionInv, OnlyFlightsWait
  <2> QED
    BY <1>1, <1>6, <2>1 DEF Awaiting
<1>8. QueuesFinite' /\ \A c \in CommitIds : Awaited(c)'
  BY <1>1, <1>7, AwaitedFrame DEF SessionInv
<1> QED
  BY <1>1, <1>5, <1>8 DEF SessionInv

-----------------------------------------------------------------------------
(* Every step. *)

\* The steps that leave queues, pipelines and frames alone.
LEMMA OtherStepsSession ==
    ASSUME IInv, SessionInv,
           \/ RasterStep
           \/ \E s \in fenceSignals : AckFence(s)
           \/ \E o \in Outputs : \/ SubmitWakeFailed(o) \/ NewDamage(o) \/ RetainForCapture(o)
                                  \/ WithholdFlip(o) \/ Vblank(o) \/ WakeRetryDue(o)
           \/ \E o \in Outputs, power \in {"on", "off"} : RequestPower(o, power)
           \/ \E o \in Outputs, i \in Slots : GpuComplete(o, i) \/ DropLease(o, i)
           \/ \E ticks \in SUBSET Outputs : Authorize(ticks) \/ AuthorizeFailed(ticks)
           \/ NextPhase
           \/ UNCHANGED vars
    PROVE  SessionInv'
<1> DEFINE Kept == /\ UNCHANGED <<jobs, volitionEvents, delivered, instance, powered, scheduled,
                                  inFlight, ready, poweringOff>>
                   /\ phase' # "exited"
<1>0. phase # "exited"
  BY DEF SessionInv
<1>1. RasterStep => Kept
  BY <1>0 DEF RasterStep, StartRaster, FinishRaster, AcquireView, SkipView, PresentView,
              AbandonView
<1>2. (\E s \in fenceSignals : AckFence(s)) => Kept
  BY <1>0, NoBufferErrors DEF AckFence, AcknowledgeReadyFence
<1>3. (\E o \in Outputs : RetainForCapture(o)) => Kept
  <2>1. powered \subseteq Outputs
    BY DEF IInv, TypeOK, SchedulerTypeOK
  <2> QED
    BY <1>0, <2>1, NoBufferErrors DEF RetainForCapture
<1>4. (\E o \in Outputs : \/ SubmitWakeFailed(o) \/ NewDamage(o) \/ WithholdFlip(o) \/ Vblank(o)
                          \/ WakeRetryDue(o)) => Kept
  BY <1>0 DEF SubmitWakeFailed, WakeFails, NewDamage, WithholdFlip, Vblank, WakeRetryDue
<1>5. (\E o \in Outputs, power \in {"on", "off"} : RequestPower(o, power)) => Kept
  BY <1>0 DEF RequestPower
<1>6. (\E o \in Outputs, i \in Slots : GpuComplete(o, i) \/ DropLease(o, i)) => Kept
  BY <1>0 DEF GpuComplete, DropLease
<1>7. (\E ticks \in SUBSET Outputs : Authorize(ticks) \/ AuthorizeFailed(ticks)) => Kept
  BY <1>0 DEF Authorize, AuthorizeFailed
<1>8. NextPhase => Kept
  BY DEF NextPhase, Advance, GoTo
<1>9. UNCHANGED vars => Kept
  BY <1>0 DEF vars
<1>10. Kept
  BY <1>1, <1>2, <1>3, <1>4, <1>5, <1>6, <1>7, <1>8, <1>9
<1> QED
  BY <1>10, SessionFrame

\* Every step keeps the count, and none leads to an error return.
LEMMA NextSession == IInv /\ SessionInv /\ [Next]_vars => SessionInv'
<1> SUFFICES ASSUME IInv, SessionInv, [Next]_vars PROVE SessionInv'
  OBVIOUS
<1>1. ASSUME \/ RecoverRequested \/ RecoverStall \/ RecoverWatchdog PROVE SessionInv'
  <2>1. PICK unread \in SUBSET delivered : Recover(unread)
    BY <1>1 DEF RecoverRequested, RecoverStall, RecoverWatchdog
  <2> QED
    BY <2>1, RecoverSession
<1>2. CASE MainStep
  BY <1>1, <1>2, DispatchSession, AckVolitionSession, RebuildSession, HandleCompletionSession,
     SubmitReadySession, SubmitWakeSession, PublishSession, ApplyPowerSession, OtherStepsSession
  DEF MainStep, Terminated
<1>3. CASE EnvironmentStep
  BY <1>1, <1>3, WorkerSession, OtherStepsSession DEF EnvironmentStep
<1>4. CASE \E o \in Outputs : WorkerStep(o)
  BY <1>4, WorkerSession DEF WorkerStep
<1> QED
  BY <1>2, <1>3, <1>4, OtherStepsSession DEF Next

\* The first scheduler waits for nothing.
LEMMA InitSession == Init => SessionInv
<1> SUFFICES ASSUME Init PROVE SessionInv
  OBVIOUS
<1>1. /\ phase = "fences" /\ poweringOff = {} /\ jobs = {} /\ volitionEvents = {}
      /\ delivered = {} /\ powered = Outputs /\ scheduled = [o \in Outputs |-> NoCommit]
  BY DEF Init, VolitionInit, SchedulerInit
<1>2. Stopped /\ OnlyFlightsWait /\ QueuesFinite
  BY <1>1, FS_EmptySet DEF Stopped, OnlyFlightsWait, QueuesFinite
<1>3. ASSUME NEW c \in CommitIds PROVE Awaited(c)
  <2>1. Queued(c) = {} /\ Reports(volitionEvents, c) = {} /\ Reports(delivered, c) = {}
        /\ Awaiting(c) = {}
    BY <1>1, NoCommitIsNone DEF Queued, Reports, Awaiting
  <2>2. Cardinality({}) = 0
    BY FS_EmptySet
  <2> QED
    BY <2>1, <2>2 DEF Awaited
<1> QED
  BY <1>1, <1>2, <1>3 DEF SessionInv

\* The main loop never takes one of its internal error returns: with any number
\* of outputs, however failures, power changes and acknowledgements with equal
\* ids meet, what acknowledge_ready_fences, acknowledge_volition_events,
\* publish_ready, handle_completions and power_off require is there.
THEOREM SessionIsKept == Spec => []SessionSurvives
<1>1. SessionInv => SessionSurvives
  BY DEF SessionInv, SessionSurvives
<1> QED
  BY <1>1, InitSession, NextSession, Invariance, PTL DEF Spec

-----------------------------------------------------------------------------
(* The pipelines and KMS. *)

\* A pipeline retires a frame only when KMS shows it, is removed before its
\* CRTC stays dark, and is added with the CRTC yet to be enabled.
LEMMA NextAgree == IInv /\ PipelinesAgree /\ [Next]_vars => PipelinesAgree'
<1> SUFFICES ASSUME IInv, PipelinesAgree, [Next]_vars PROVE PipelinesAgree'
  OBVIOUS
<1> DEFINE Kept == UNCHANGED <<rebased, recoveryRequested, powered, inFlight, wakeModeset, front,
                               scanning>>
<1>0. /\ powered \subseteq Outputs /\ DOMAIN inFlight = Outputs /\ DOMAIN wakeModeset = Outputs
      /\ DOMAIN front = Outputs /\ DOMAIN scanning = Outputs /\ ready \in [Outputs -> OptionalSlots]
      /\ flip \in [Outputs -> OptionalSlots]
      /\ rebased \in BOOLEAN /\ recoveryRequested \in BOOLEAN
  BY DEF IInv, TypeOK, SchedulerTypeOK
<1>1. Kept => PipelinesAgree'
  BY DEF PipelinesAgree
<1>2. ASSUME RecoverRequested \/ RecoverStall \/ RecoverWatchdog PROVE PipelinesAgree'
  BY <1>2 DEF RecoverRequested, RecoverStall, RecoverWatchdog, Recover, PipelinesAgree
<1>3. CASE Rebuild
  BY <1>0, <1>3 DEF Rebuild, PipelinesAgree
<1>4. ASSUME NEW o \in Outputs, HandleCompletion(o) PROVE PipelinesAgree'
  <2>1. CASE \E drop \in BOOLEAN : RetireCompletion(o, drop) /\ UNCHANGED <<kmsVars, rebased, recoveryRequested>>
    <3>1. ~rebased /\ Flips(o) > 0 /\ inFlight[o] # NoSlot
      <4>1. completed[o] \in Nat /\ flipEvents[o] \in Nat /\ completed[o] > 0
        BY <1>4 DEF HandleCompletion, IInv, TypeOK
      <4> QED
        BY <1>4, <2>1, <4>1 DEF HandleCompletion, Flips, IInv, KmsInv, RecoveryQuiesces,
             RetireCompletion, Submitted
    <3>2. front[o] = inFlight[o]
      BY <3>1 DEF IInv, KmsInv, FlightsTracked
    <3>3. /\ scanning' = [scanning EXCEPT ![o] = inFlight[o]]
          /\ inFlight' = [inFlight EXCEPT ![o] = NoSlot]
          /\ UNCHANGED <<powered, wakeModeset, front, rebased, recoveryRequested>>
      BY <2>1 DEF RetireCompletion
    <3> QED
      BY <1>0, <3>2, <3>3 DEF PipelinesAgree
  <2>2. CASE Kept
    BY <1>1, <2>2
  <2> QED
    BY <1>4, <2>1, <2>2 DEF HandleCompletion, Exit, GoTo
<1>5. ASSUME NEW o \in Outputs, SubmitReady(o) \/ SubmitWake(o) PROVE PipelinesAgree'
  <2>1. /\ inFlight' = [inFlight EXCEPT ![o] = ready[o]] /\ ready[o] # NoSlot
        /\ UNCHANGED <<rebased, recoveryRequested, powered, front, scanning>>
        /\ \A p \in Outputs : p # o => wakeModeset'[p] = wakeModeset[p]
    BY <1>0, <1>5 DEF SubmitReady, ScheduleReady, SubmitWake, WakeReady, WakeDue, Submittable,
         TakeReady
  <2> QED
    BY <1>0, <2>1 DEF PipelinesAgree
<1>6. ASSUME NEW o \in Outputs, SubmitWakeFailed(o) \/ WakeRetryDue(o) PROVE PipelinesAgree'
  <2>1. /\ UNCHANGED <<rebased, powered, front, scanning, inFlight>>
        /\ recoveryRequested => recoveryRequested'
        /\ wakeModeset'[o] # "none"
        /\ \A p \in Outputs : p # o => wakeModeset'[p] = wakeModeset[p]
    BY <1>0, <1>6 DEF SubmitWakeFailed, WakeFails, WakeRetryDue
  <2> QED
    BY <1>0, <2>1 DEF PipelinesAgree
<1>7. ASSUME NEW o \in Outputs, Vblank(o) PROVE PipelinesAgree'
  <2>1. inFlight[o] # NoSlot /\ front' = [front EXCEPT ![o] = flip[o]]
        /\ UNCHANGED <<rebased, recoveryRequested, powered, inFlight, wakeModeset, scanning>>
    BY <1>7 DEF Vblank, IInv, KmsInv, FlightsTracked
  <2> QED
    BY <1>0, <2>1 DEF PipelinesAgree
<1>8. CASE ApplyPower
  <2>1. CASE Exit
    BY <1>1, <2>1 DEF Exit, GoTo
  <2>2. CASE /\ UNCHANGED <<rebased, scanning, inFlight>>
             /\ \/ DeferPowerOff /\ Pipelines({})
                \/ CommitPowerOff /\ Pipelines(Off)
                \/ AbortPowerOff /\ Pipelines({})
    <3>1. Off \subseteq powered /\ On \subseteq Outputs \ powered
      BY DEF Off, On
    <3>2. PICK gone \in SUBSET Off :
             /\ powered' = (powered \ gone) \union On
             /\ wakeModeset' = [o \in Outputs |-> IF o \in On THEN "fresh"
                                    ELSE IF o \in gone THEN "none" ELSE wakeModeset[o]]
             /\ recoveryRequested => recoveryRequested'
             /\ \/ recoveryRequested'
                \/ \A o \in Outputs : front'[o] = front[o] \/ o \in gone \/ front'[o] = scanning[o]
      <4>1. CASE DeferPowerOff /\ Pipelines({})
        BY <4>1 DEF DeferPowerOff, Pipelines
      <4>2. CASE CommitPowerOff /\ Pipelines(Off)
        BY <4>2 DEF CommitPowerOff, Pipelines
      <4>3. CASE AbortPowerOff /\ Pipelines({})
        <5>1. PICK cleared, dark :
                /\ front' = [o \in Outputs |-> IF o \in dark THEN NoSlot
                                               ELSE IF o \in cleared THEN scanning[o]
                                               ELSE front[o]]
                /\ recoveryRequested' = (recoveryRequested \/ dark # {})
          BY <4>3 DEF AbortPowerOff
        <5>2. recoveryRequested => recoveryRequested'
          BY <5>1
        <5>3. CASE dark # {}
          <6>1. recoveryRequested' = TRUE
            BY <5>1, <5>3
          <6> QED
            BY <4>3, <6>1 DEF Pipelines
        <5>4. CASE dark = {}
          <6>1. \A o \in Outputs : front'[o] = front[o] \/ front'[o] = scanning[o]
            BY <5>1, <5>4
          <6> QED
            BY <4>3, <5>2, <6>1 DEF Pipelines
        <5> QED
          BY <5>3, <5>4
      <4> QED
        BY <2>2, <4>1, <4>2, <4>3
    <3> QED
      BY <1>0, <2>2, <3>1, <3>2 DEF PipelinesAgree
  <2> QED
    BY <1>8, <2>1, <2>2 DEF ApplyPower
<1>9. RasterStep => Kept
  BY DEF RasterStep, StartRaster, FinishRaster, AcquireView, SkipView, PresentView, AbandonView
<1>10. (\E s \in fenceSignals : AckFence(s)) => Kept
  BY DEF AckFence, AcknowledgeReadyFence, Exit, GoTo
<1>11. (\E e \in delivered : AckVolition(e)) => Kept
  BY DEF AckVolition, AcknowledgeVolition, Exit, Terminate, GoTo
<1>12. (\E o \in Outputs, i \in Slots : Publish(o, i) \/ GpuComplete(o, i) \/ DropLease(o, i))
          => Kept
  BY DEF Publish, PublishReady, Exit, GoTo, GpuComplete, DropLease
<1>13. (\E o \in Outputs : NewDamage(o) \/ RetainForCapture(o) \/ WithholdFlip(o)) => Kept
  BY DEF NewDamage, RetainForCapture, WithholdFlip, Exit, GoTo
<1>14. (\E o \in Outputs, power \in {"on", "off"} : RequestPower(o, power)) => Kept
  BY DEF RequestPower
<1>15. (\E ticks \in SUBSET Outputs : Authorize(ticks) \/ AuthorizeFailed(ticks)) => Kept
  BY DEF Authorize, AuthorizeFailed
<1>16. Dispatch \/ NextPhase \/ UNCHANGED vars => Kept
  BY DEF Dispatch, NextPhase, Advance, GoTo, vars
<1>17. (\E j \in jobs : KmsAccept(j) \/ KmsReport(j) \/ KmsRefuse(j)) => Kept
  BY DEF KmsAccept, KmsReport, KmsRefuse
<1> HIDE DEF Kept
<1>18. CASE MainStep
  BY <1>1, <1>2, <1>3, <1>4, <1>5, <1>6, <1>8, <1>10, <1>11, <1>12, <1>15, <1>16, <1>18
  DEF MainStep, Terminated
<1>19. CASE EnvironmentStep
  BY <1>1, <1>2, <1>13, <1>14, <1>17, <1>19 DEF EnvironmentStep
<1>20. CASE \E o \in Outputs : \/ WorkerStep(o)
                               \/ Vblank(o)
                               \/ WakeRetryDue(o)
                               \/ \E i \in Slots : GpuComplete(o, i) \/ DropLease(o, i)
  BY <1>1, <1>6, <1>7, <1>12, <1>17, <1>20 DEF WorkerStep
<1> QED
  BY <1>1, <1>9, <1>16, <1>18, <1>19, <1>20 DEF Next

\* What the scheduler believes is on screen is what KMS scans out, and no flip
\* is left behind, after refused power batches, failed wakes and late
\* watchdogs alike.
THEOREM PipelinesAgreeWithKms == Spec => []SchedulerAgreesWithKms
<1>1. Init => PipelinesAgree
  BY DEF Init, SchedulerInit, PipelinesAgree
<1>2. IInv /\ PipelinesAgree => SchedulerAgreesWithKms
  BY DEF IInv, KmsInv, FlightsTracked, PipelinesAgree, SchedulerAgreesWithKms, TypeOK,
         SchedulerTypeOK
<1> QED
  BY <1>1, <1>2, NextAgree, Invariance, PTL DEF Spec

=============================================================================
