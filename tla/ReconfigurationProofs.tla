------------------------ MODULE ReconfigurationProofs -------------------------
(***************************************************************************)
(* Proofs about Reconfiguration, for any outputs, configurations and       *)
(* bounds.                                                                 *)
(***************************************************************************)
EXTENDS Reconfiguration, TLAPS

USE DEF lifecycleVars, requestVars, configVars, clientVars, controlVars, hotplugVars,
        passVars, loopVars, engineVars,
        At, GoTo, Dispatch, EndSession, Raise, Incident, NoIncident

-----------------------------------------------------------------------------
(* What the operators of OutputControl and HotplugTransaction return.      *)

\* Sets of scanouts.
Scanouts == UNION {[outs -> Settings] : outs \in SUBSET Outputs}

\* The scanout vector is a partial function of the outputs.
LEMMA ScanoutsFacts ==
    ASSUME NEW f \in Scanouts
    PROVE  DOMAIN f \subseteq Outputs /\ \A o \in DOMAIN f : f[o] \in Settings
BY DEF Scanouts

\* What a configuration asks of the connectors that are seen.
LEMMA TargetType ==
    ASSUME NEW c \in Configurations, NEW seen \in SUBSET Outputs
    PROVE  Target(c, seen) \in Scanouts
<1> DEFINE outs == {p \in seen : c[p].hw # Off}
<1>1. outs \in SUBSET Outputs
  OBVIOUS
<1>2. Target(c, seen) \in [outs -> Settings]
  BY <1>1 DEF Target, Configurations
<1> QED
  BY <1>1, <1>2 DEF Scanouts

\* A request laid over the configuration is a configuration.
LEMMA StagedType ==
    ASSUME config \in Configurations, NEW request \in Requests
    PROVE  Staged(request) \in Configurations
<1>1. request.wanted \in UNION {[seen -> Settings] : seen \in SUBSET Outputs}
  BY DEF Requests
<1>2. \A o \in DOMAIN request.wanted : request.wanted[o] \in Settings
  BY <1>1
<1> QED
  BY <1>2 DEF Staged, Configurations

\* Queues keep their length and type when the serial moves.
LEMMA OutdatedApplies ==
    ASSUME NEW queue \in Seq(Requests)
    PROVE  OutdatedAll(queue) \in Seq(Requests)
<1>1. \A r \in Requests : Outdated(r) \in Requests
  BY DEF Outdated, Requests
<1>2. \A i \in 1..Len(queue) : Outdated(queue[i]) \in Requests
  BY <1>1
<1> QED
  BY <1>2 DEF OutdatedAll

\* Outdating the answers of the queue keeps them, in their order.
LEMMA OutdatedAnswers ==
    ASSUME NEW queue \in Seq(Answers)
    PROVE  /\ OutdatedAll(queue) \in Seq(Answers)
           /\ Len(OutdatedAll(queue)) = Len(queue)
           /\ \A i \in 1..Len(queue) : ~OutdatedAll(queue)[i].fresh
<1>1. \A r \in Answers : Outdated(r) \in Answers /\ ~Outdated(r).fresh
  BY DEF Outdated, Answers
<1>2. \A i \in 1..Len(queue) : Outdated(queue[i]) \in Answers /\ ~Outdated(queue[i]).fresh
  BY <1>1
<1> QED
  BY <1>2 DEF OutdatedAll

\* A transaction stays one as its journal advances.
LEMMA TransactionUpdates ==
    ASSUME NEW t \in Transactions, NEW b \in BOOLEAN
    PROVE  /\ [t EXCEPT !.pending = b] \in Transactions
           /\ [t EXCEPT !.alive = b] \in Transactions
BY DEF Transactions

\* A transaction whose surfaces are created and that has begun to commit.
LEMMA TransactionStages ==
    ASSUME NEW t \in Transactions, NEW made \in SUBSET Outputs, NEW b \in BOOLEAN
    PROVE  /\ [t EXCEPT !.created = made, !.committed = b] \in Transactions
           /\ [t EXCEPT !.created = made, !.committed = b].created = made
           /\ [t EXCEPT !.created = made, !.committed = b].committed = b
           /\ [t EXCEPT !.created = made, !.committed = TRUE, !.pending = TRUE] \in Transactions
           /\ [t EXCEPT !.created = made, !.committed = TRUE, !.pending = TRUE].created = made
BY DEF Transactions

\* A transaction begins with nothing committed.
LEMMA BeginType ==
    ASSUME NEW origin \in {"control", "topology"}, NEW target \in Scanouts
    PROVE  /\ Begin(origin, target) \in Transactions
           /\ Begin(origin, target).origin = origin
           /\ Begin(origin, target).target = target
           /\ Begin(origin, target).created = {} /\ ~Begin(origin, target).committed
BY DEF Begin, Transactions, Scanouts

-----------------------------------------------------------------------------
(* Types, and the control flow of a pass.                                  *)

\* The steps of a pass after its boundary, unless KMS has accepted a commit
\* of its transaction.
Uncommitted ==
    \/ pc \in {"frames", "answers", "requests", "topology", "background", "commit"}
    \/ pc = "abort" /\ ~txn.committed

\* A transaction waits for its flips, or has presented them.
Waiting == pc \in {"wait", "replace"} \/ (pc = "dispatch" /\ after = "wait")

\* The types the proofs need.
Typed ==
    /\ config \in Configurations /\ file \in Configurations
    /\ confirming \in Confirmations \cup {None}
    /\ ready \in Requests \cup {None}
    /\ applies \in Seq(Requests) /\ answers \in Seq(Answers)
    /\ sent \in Nat /\ answered \in Nat
    /\ connected \in SUBSET Outputs /\ scanned \in SUBSET Outputs
    /\ published.scanned \in SUBSET Outputs
    /\ hardware \in [Outputs -> Modes \cup {Off, Foreign}]
    /\ scanouts \in Scanouts
    /\ txn \in Transactions \cup {None}

\* A transaction is in progress exactly during its steps, and has committed
\* once it waits; a request is in the hands of its transaction, and of no
\* other.  Its journal holds nothing, or every surface it needs.  A pass
\* that found the scanouts rebased ends with the rescan, and took the flag.
Flow ==
    /\ after = "top" \/ (pc = "dispatch" /\ after \in {"recover", "wait"})
    /\ txn # None <=> Waiting \/ pc \in {"commit", "abort"}
    /\ Waiting => txn.committed
    /\ pc = "commit" => ~txn.committed
    /\ txn # None => txn.created \subseteq New /\ (txn.committed => txn.created = New)
    /\ txn # None /\ txn.origin = "control" => ready # None /\ ~rebased
    /\ txn # None /\ txn.origin = "topology" => ready = None
    /\ pc \in {"topology", "background"} => ready = None
    /\ ready # None => confirming = None
    /\ \A i \in 1..Len(answers) : answers[i].fresh => confirming # None
    /\ rebased => Waiting \/ pc \in {"answers", "requests", "topology", "commit", "abort", "ended"}
    /\ Uncommitted => "scanout_rebased" \notin flags
    /\ disconnected /\ Uncommitted => rebased \/ DOMAIN scanouts = {}

\* Commits leave every CRTC in a mode, or off.
LEMMA CommittedType ==
    ASSUME hardware \in [Outputs -> Modes \cup {Off, Foreign}], NEW target \in Scanouts,
           NEW done \in SUBSET DOMAIN target
    PROVE  Committed(target, done) \in [Outputs -> Modes \cup {Off, Foreign}]
<1>1. \A o \in done : target[o].hw \in Modes \cup {Off}
  BY ScanoutsFacts DEF Settings
<1> QED
  BY <1>1 DEF Committed

\* What a transaction drives.
LEMMA TransactionTarget ==
    ASSUME NEW t \in Transactions
    PROVE  /\ t.target \in Scanouts /\ t.origin \in {"control", "topology"}
           /\ t.created \in SUBSET Outputs
BY DEF Transactions, Scanouts

\* A configuration that takes effect is one.
LEMMA AcceptType ==
    ASSUME config \in Configurations, file \in Configurations,
           confirming \in Confirmations \cup {None}, NEW request \in Requests,
           Accept(request) \/ AcceptUnpersisted(request)
    PROVE  /\ config' = Staged(request) /\ config' \in Configurations
           /\ file' \in Configurations
           /\ confirming' \in Confirmations \cup {None}
<1>1. Staged(request) \in Configurations
  BY StagedType
<1>2. request.persist \in BOOLEAN
  BY DEF Requests
<1>3. [rollback |-> config, persist |-> request.persist, expired |-> FALSE] \in Confirmations
  BY <1>2 DEF Confirmations
<1>4. CASE Accept(request)
  BY <1>1, <1>3, <1>4 DEF Accept, Persist
<1>5. CASE AcceptUnpersisted(request)
  BY <1>1, <1>5 DEF AcceptUnpersisted, PersistFails
<1> QED
  BY <1>4, <1>5

\* The rollback of a transaction leaves scanouts, and CRTCs in a mode or off.
LEMMA RestoreType ==
    ASSUME hardware \in [Outputs -> Modes \cup {Off, Foreign}], scanouts \in Scanouts,
           txn \in Transactions, txn.created \subseteq New, NEW bad \in SUBSET Compensated, Restore(bad)
    PROVE  scanouts' \in Scanouts /\ hardware' \in [Outputs -> Modes \cup {Off, Foreign}]
<1> DEFINE outs == DOMAIN scanouts \cup (bad \cap txn.created)
<1>1. txn.target \in Scanouts
  BY TransactionTarget
<1>2. /\ DOMAIN scanouts \subseteq Outputs /\ \A o \in DOMAIN scanouts : scanouts[o] \in Settings
      /\ DOMAIN txn.target \subseteq Outputs
      /\ \A o \in DOMAIN txn.target : txn.target[o] \in Settings
  BY <1>1, ScanoutsFacts
<1>3. outs \in SUBSET Outputs /\ scanouts' \in [outs -> Settings]
  BY <1>2 DEF Restore, New
<1>4. scanouts' \in Scanouts
  BY <1>3 DEF Scanouts
<1>5. \A o \in Outputs : Driving(scanouts)[o] \in Modes \cup {Off}
  BY <1>2 DEF Driving, Settings
<1>6. hardware' \in [Outputs -> Modes \cup {Off, Foreign}]
  BY <1>5 DEF Restore
<1> QED
  BY <1>4, <1>6

\* Types are kept by every action, given where the pass is.
LEMMA NextTyped ==
    ASSUME Typed, Flow, [Next]_vars
    PROVE  Typed'
<1> USE ControlNone, HotplugNone, ControlAssumption
<1>1. CASE Seat
  BY <1>1 DEF Seat, PauseSession, RequestShutdown, ActivateSession, ProgrammedByOthers, Typed
<1>2. CASE Client
  <2>1. CASE \E layout \in Layouts, confirm \in BOOLEAN, persist \in Persistent :
                incidents + sent < MaxEvents /\ RequestApply(layout, confirm, persist)
    <3> PICK layout \in Layouts, confirm \in BOOLEAN, persist \in Persistent :
                RequestApply(layout, confirm, persist)
      BY <2>1
    <3> DEFINE wanted == [o \in published.scanned |-> layout[o]]
               request == [id |-> sent + 1, wanted |-> wanted, confirm |-> confirm,
                           persist |-> persist, fresh |-> TRUE]
    <3>1. layout \in [Outputs -> Settings] /\ persist \in BOOLEAN
      BY DEF Configurations
    <3>2. published.scanned \in SUBSET Outputs /\ wanted \in [published.scanned -> Settings]
      BY <3>1 DEF Typed
    <3>3. wanted \in UNION {[seen -> Settings] : seen \in SUBSET Outputs}
      BY <3>2
    <3>4. sent + 1 \in 1..MaxRequests /\ sent' \in Nat
      BY DEF RequestApply, Typed
    <3>5. request \in Requests
      BY <3>1, <3>3, <3>4 DEF Requests
    <3>6. applies' \in Seq(Requests)
      BY <3>5 DEF RequestApply, Typed
    <3> QED
      BY <1>2, <3>4, <3>6 DEF Client, RequestApply, Typed
  <2>2. CASE \E action \in {"keep", "rollback"} : RequestAnswer(action)
    <3> PICK action \in {"keep", "rollback"} : RequestAnswer(action)
      BY <2>2
    <3> DEFINE request == [id |-> MaxRequests + answered + 1, action |-> action,
                           fresh |-> confirming # None /\ published.waiting]
    <3>1. MaxRequests + answered + 1 \in (MaxRequests + 1)..(MaxRequests + MaxAnswers)
          /\ answered' \in Nat
      BY DEF RequestAnswer, Typed
    <3>2. request \in Answers
      BY <3>1 DEF Answers
    <3>3. answers' \in Seq(Answers)
      BY <3>2 DEF RequestAnswer, Typed
    <3> QED
      BY <1>2, <3>1, <3>3 DEF Client, RequestAnswer, Typed
  <2>3. CASE ConfirmationExpires
    <3>1. \A c \in Confirmations : [c EXCEPT !.expired = TRUE] \in Confirmations
      BY DEF Confirmations
    <3> QED
      BY <1>2, <2>3, <3>1 DEF Client, ConfirmationExpires, Typed
  <2> QED
    BY <1>2, <2>1, <2>2, <2>3 DEF Client
<1>3. CASE Replug
  BY <1>3 DEF Replug, Typed
<1>4. CASE UserSignal
  BY <1>4 DEF UserSignal, Typed
<1>5. CASE FrameProgress
  BY <1>5 DEF FrameProgress, Typed
<1>6. CASE TransactionFlips
  BY <1>6, TransactionUpdates DEF TransactionFlips, Typed
<1>7. CASE Return
  BY <1>7 DEF Return, Typed
<1>8. CASE ServicePause
  BY <1>8, TransactionUpdates DEF ServicePause, TakePause, Typed
<1>9. CASE AwaitSeat
  BY <1>9 DEF AwaitSeat, MustWait, Typed
<1>10. CASE ResumeSession
  <2>1. Committed(scanouts, DOMAIN scanouts) \in [Outputs -> Modes \cup {Off, Foreign}]
    BY CommittedType DEF Typed
  <2>2. txn # None => Committed(txn.target, DOMAIN txn.target) \in [Outputs -> Modes \cup {Off, Foreign}]
    BY CommittedType, TransactionTarget DEF Typed
  <2> QED
    BY <1>10, <2>1, <2>2 DEF ResumeSession, Regain, Typed
<1>11. CASE ResumeRejected
  BY <1>11 DEF ResumeRejected, ResumeFails, MustResume, Typed
<1>12. CASE BeginRecovery
  BY <1>12 DEF BeginRecovery, SeatServed, Typed
<1>13. CASE Recover
  BY <1>13 DEF Recover, Regain, Typed
<1>14. CASE RecoveryInterrupted
  BY <1>14 DEF RecoveryInterrupted, Typed
<1>15. CASE ExpireConfirmation
  <2>1. confirming # None => confirming.rollback \in Configurations
    BY DEF Typed, Confirmations
  <2> QED
    BY <1>15, <2>1, OutdatedAnswers DEF ExpireConfirmation, RollBack, Typed
<1>16. CASE Boundary
  <2>1. Snapshot.scanned = scanned
    BY DEF Snapshot
  <2>2. \A r \in Requests : Outdated(r) \in Requests
    BY DEF Outdated, Requests
  <2>3. published'.scanned \in SUBSET Outputs
    BY <1>16, <2>1 DEF Boundary, Publish, Typed
  <2>4. applies' \in Seq(Requests) /\ ready' \in Requests \cup {None}
    BY <1>16, <2>2, OutdatedApplies DEF Boundary, Publish, Typed
  <2> QED
    BY <1>16, <2>3, <2>4 DEF Boundary, Typed
<1>17. CASE Stall
  BY <1>17 DEF Stall, Typed
<1>18. CASE SubmitToClosedQueue
  BY <1>18 DEF SubmitToClosedQueue, Typed
<1>19. CASE Frames
  BY <1>19 DEF Frames, FirstRequest, Typed
<1>20. CASE Answer
  <2>1. Tail(answers) \in Seq(Answers) /\ answers' \in Seq(Answers)
    <3>1. Tail(answers) \in Seq(Answers)
      BY <1>20 DEF Answer, Typed
    <3>2. OutdatedAll(Tail(answers)) \in Seq(Answers)
      BY <3>1, OutdatedAnswers
    <3> QED
      BY <1>20, <3>1, <3>2 DEF Answer
  <2>2. confirming # None => confirming.rollback \in Configurations
    BY DEF Typed, Confirmations
  <2>3. Head(answers).fresh => confirming # None
    BY <1>20 DEF Answer, Typed, Flow
  <2>4. /\ config' \in Configurations /\ file' \in Configurations
        /\ confirming' \in Confirmations \cup {None}
    BY <1>20, <2>2, <2>3 DEF Answer, Keep, RollBack, Persist, PersistFails, Typed
  <2> QED
    BY <1>20, <2>1, <2>4 DEF Answer, Typed
<1>21. CASE NoRequest
  BY <1>21 DEF NoRequest, MustRescan, Typed
<1>22. CASE ScanRequest
  BY <1>22 DEF ScanRequest, MayStage, Typed
<1>23. CASE RejectUnscanned
  BY <1>23 DEF RejectUnscanned, Reject, Refuse, Typed
<1>24. CASE DrainFrames
  BY <1>24 DEF DrainFrames, Typed
<1>25. CASE RejectReady
  BY <1>25 DEF RejectReady, Reject, Refuse, ApplyTurn, Typed
<1>26. CASE ApplyResident
  <2>1. ready \in Requests
    BY <1>26 DEF ApplyResident, Applicable, ApplyTurn, Typed
  <2>2. Wanted \in Scanouts
    BY <2>1, StagedType, TargetType DEF Wanted, Typed
  <2>3. CASE scanouts' = Wanted /\ (Accept(ready) \/ AcceptUnpersisted(ready))
    BY <1>26, <2>1, <2>2, <2>3, AcceptType DEF ApplyResident, Reject, Typed
  <2>4. CASE Reject(ready, {"output_control_dirty"})
    BY <1>26, <2>4 DEF ApplyResident, Reject, Typed
  <2> QED
    BY <1>26, <2>3, <2>4 DEF ApplyResident
<1>27. CASE ApplyHardware
  <2>1. ready \in Requests
    BY <1>27 DEF ApplyHardware, Applicable, ApplyTurn, Typed
  <2>2. Wanted \in Scanouts
    BY <2>1, StagedType, TargetType DEF Wanted, Typed
  <2> QED
    BY <1>27, <2>2, BeginType DEF ApplyHardware, Typed
<1>28. CASE NothingConnected
  BY <1>28 DEF NothingConnected, RescanFlags, Typed
<1>29. CASE DrainForRescan
  BY <1>29 DEF DrainForRescan, MustDrain, Typed
<1>30. CASE RestoreGeometry
  BY <1>30, TargetType DEF RestoreGeometry, Found, Typed
<1>31. CASE Rebuild
  BY <1>31, TargetType, BeginType DEF Rebuild, Found, Typed
<1>32. CASE NothingChanged
  BY <1>32 DEF NothingChanged, MustRebuild, RescanFlags, Typed
<1>33. CASE Background
  BY <1>33 DEF Background, RebuildScheduler, Typed
<1>34. CASE CommitFails
  <2> PICK done \in SUBSET DOMAIN txn.target :
             /\ hardware' = Committed(txn.target, done)
             /\ txn' = [txn EXCEPT !.created = New, !.committed = (done # {})]
    BY <1>34 DEF CommitFails
  <2>1. txn \in Transactions
    BY <1>34 DEF CommitFails, Typed, Flow
  <2>2. (done # {}) \in BOOLEAN /\ New \in SUBSET Outputs
    BY <2>1, TransactionTarget, ScanoutsFacts DEF New
  <2>3. txn' \in Transactions
    BY <2>1, <2>2, TransactionStages
  <2>4. hardware' \in [Outputs -> Modes \cup {Off, Foreign}]
    BY <2>1, CommittedType, TransactionTarget DEF Typed
  <2> QED
    BY <1>34, <2>3, <2>4 DEF CommitFails, Typed
<1>35. CASE Commit
  <2>1. txn \in Transactions
    BY <1>35 DEF Commit, Typed, Flow
  <2>2. New \in SUBSET Outputs
    BY <2>1, TransactionTarget, ScanoutsFacts DEF New
  <2>4. txn' \in Transactions
    BY <1>35, <2>1, <2>2, TransactionStages DEF Commit
  <2>3. hardware' \in [Outputs -> Modes \cup {Off, Foreign}]
    BY <1>35, <2>1, CommittedType, TransactionTarget DEF Commit, Typed
  <2> QED
    BY <1>35, <2>3, <2>4 DEF Commit, Typed
<1>36. CASE WaitForFlips
  BY <1>36 DEF WaitForFlips, Typed
<1>37. CASE WaitFails
  BY <1>37 DEF WaitFails, ResumeFails, Typed
<1>38. CASE ReplaceFails
  <2>1. txn \in Transactions
    BY <1>38 DEF ReplaceFails, Typed, Flow, Waiting
  <2>2. txn' \in Transactions
    BY <1>38, <2>1, TransactionUpdates DEF ReplaceFails
  <2>3. hardware' \in [Outputs -> Modes \cup {Off, Foreign}]
    BY <1>38 DEF ReplaceFails, Typed
  <2> QED
    BY <1>38, <2>2, <2>3 DEF ReplaceFails, Typed
<1>39. CASE Abort
  <2>1. txn \in Transactions
    BY <1>39 DEF Abort, Typed, Flow
  <2>2. PICK bad \in SUBSET Compensated : Restore(bad)
    BY <1>39 DEF Abort
  <2>3. scanouts' \in Scanouts /\ hardware' \in [Outputs -> Modes \cup {Off, Foreign}]
    BY <1>39, <2>1, <2>2, RestoreType, HotplugNone DEF Typed, Flow
  <2> QED
    BY <1>39, <2>3 DEF Abort, Typed
<1>40. CASE Finish
  <2>1. txn \in Transactions /\ txn.target \in Scanouts
    BY <1>40, TransactionTarget DEF Finish, Typed, Flow, Waiting
  <2>2. scanouts' \in Scanouts /\ hardware' \in [Outputs -> Modes \cup {Off, Foreign}]
    BY <1>40, <2>1 DEF Finish, Install, Typed
  <2>3. CASE txn.origin = "control"
    <3>1. ready \in Requests
      BY <1>40, <2>1, <2>3 DEF Typed, Flow
    <3> QED
      BY <1>40, <2>2, <2>3, <3>1, AcceptType DEF Finish, Typed
  <2>4. CASE txn.origin = "topology"
    BY <1>40, <2>2, <2>4 DEF Finish, Typed
  <2> QED
    BY <1>40, <2>3, <2>4 DEF Finish
<1>41. CASE Ended
  BY <1>41 DEF Ended, vars, Typed
<1>42. CASE UNCHANGED vars
  BY <1>42 DEF vars, Typed
<1>43. CASE ScanFails
  BY <1>43 DEF ScanFails, Typed
<1>44. CASE StagingFails
  BY <1>44 DEF StagingFails, Typed
<1> QED
  BY <1>1, <1>2, <1>3, <1>4, <1>5, <1>6, <1>7, <1>8, <1>9, <1>10, <1>11, <1>12, <1>13, <1>14, <1>15,
     <1>16, <1>17, <1>18, <1>19, <1>20, <1>21, <1>22, <1>23, <1>24, <1>25, <1>26, <1>27, <1>28,
     <1>29, <1>30, <1>31, <1>32, <1>33, <1>34, <1>35, <1>36, <1>37, <1>38, <1>39, <1>40, <1>41,
     <1>42, <1>43, <1>44 DEF Next, Callback, Pass

\* The steps of a transaction change neither its outputs nor its caller.
LEMMA TransactionGoesOn ==
    ASSUME Typed, Flow,
           TransactionFlips \/ ServicePause \/ CommitFails \/ Commit \/ ReplaceFails
    PROVE  /\ txn' = None <=> txn = None
           /\ txn # None => txn'.origin = txn.origin /\ txn'.target = txn.target
           /\ txn # None => \/ txn'.committed = txn.committed /\ txn'.created = txn.created
                            \/ CommitFails \/ Commit
           /\ Commit => txn'.committed
           /\ CommitFails \/ Commit => txn'.created = New
<1> USE HotplugNone
<1>1. CASE TransactionFlips
  <2>1. txn \in Transactions
    BY <1>1 DEF TransactionFlips, Typed
  <2>2. txn' # None
    BY <1>1, <2>1, TransactionUpdates DEF TransactionFlips
  <2> QED
    BY <1>1, <2>1, <2>2 DEF TransactionFlips, Transactions, Commit, CommitFails
<1>2. CASE ServicePause
  <2>1. txn \in Transactions => txn' # None
    BY <1>2, TransactionUpdates DEF ServicePause
  <2>2. txn = None => txn' = None
    BY <1>2 DEF ServicePause
  <2>3. txn \in Transactions => /\ txn'.origin = txn.origin /\ txn'.target = txn.target
                                /\ txn'.committed = txn.committed /\ txn'.created = txn.created
    BY <1>2 DEF ServicePause, Transactions
  <2>4. ~Commit /\ ~CommitFails
    BY <1>2 DEF ServicePause, Commit, CommitFails
  <2> QED
    BY <2>1, <2>2, <2>3, <2>4 DEF Typed
<1>3. CASE CommitFails
  <2>1. txn \in Transactions
    BY <1>3 DEF CommitFails, Typed, Flow
  <2>2. PICK done \in SUBSET DOMAIN txn.target :
             txn' = [txn EXCEPT !.created = New, !.committed = (done # {})]
    BY <1>3 DEF CommitFails
  <2>6. (done # {}) \in BOOLEAN /\ New \in SUBSET Outputs
    BY <2>1, TransactionTarget, ScanoutsFacts DEF New
  <2>7. txn' \in Transactions
    BY <2>1, <2>2, <2>6, TransactionStages
  <2>8. txn'.created = New
    BY <2>1, <2>2 DEF Transactions
  <2>3. txn' # None /\ txn'.created = New
    BY <2>7, <2>8
  <2>4. txn'.origin = txn.origin /\ txn'.target = txn.target
    BY <2>1, <2>2 DEF Transactions
  <2>5. ~Commit
    BY <1>3 DEF CommitFails, Commit
  <2> QED
    BY <1>3, <2>1, <2>3, <2>4, <2>5
<1>4. CASE Commit
  <2>1. txn \in Transactions
    BY <1>4 DEF Commit, Typed, Flow
  <2>4. New \in SUBSET Outputs
    BY <2>1, TransactionTarget, ScanoutsFacts DEF New
  <2>5. txn' = [txn EXCEPT !.created = New, !.committed = TRUE, !.pending = TRUE]
    BY <1>4 DEF Commit
  <2>6. txn' \in Transactions /\ txn'.created = New
    BY <2>1, <2>4, <2>5, TransactionStages
  <2>2. txn' # None /\ txn'.created = New
    BY <2>6
  <2>3. txn'.origin = txn.origin /\ txn'.target = txn.target /\ txn'.committed
    BY <1>4, <2>1 DEF Commit, Transactions
  <2> QED
    BY <1>4, <2>1, <2>2, <2>3
<1>5. CASE ReplaceFails
  <2>1. txn \in Transactions
    BY <1>5 DEF ReplaceFails, Typed, Flow, Waiting
  <2>2. txn' # None
    BY <1>5, <2>1, TransactionUpdates DEF ReplaceFails
  <2>3. /\ txn'.origin = txn.origin /\ txn'.target = txn.target
        /\ txn'.committed = txn.committed /\ txn'.created = txn.created
    BY <1>5, <2>1 DEF ReplaceFails, Transactions
  <2>4. ~Commit /\ ~CommitFails
    BY <1>5 DEF ReplaceFails, Commit, CommitFails
  <2> QED
    BY <2>1, <2>2, <2>3, <2>4
<1> QED
  BY <1>1, <1>2, <1>3, <1>4, <1>5

\* Where a pass is decides what is staged, awaited and under way.
LEMMA NextFlow ==
    ASSUME Typed, Typed', Flow, [Next]_vars
    PROVE  Flow'
<1> USE ControlNone, HotplugNone DEF New
<1>1. CASE Seat
  BY <1>1 DEF Seat, PauseSession, RequestShutdown, ActivateSession, Typed, Flow, Waiting, Uncommitted
<1>2. CASE Client
  <2>1. \A i \in 1..Len(answers') : answers'[i].fresh => confirming' # None
    <3>1. CASE \E action \in {"keep", "rollback"} : RequestAnswer(action)
      <4> PICK action \in {"keep", "rollback"} : RequestAnswer(action)
        BY <3>1
      <4> DEFINE request == [id |-> MaxRequests + answered + 1, action |-> action,
                             fresh |-> confirming # None /\ published.waiting]
      <4>1. request.fresh => confirming # None
        OBVIOUS
      <4> HIDE DEF request
      <4>2. answers' = Append(answers, request)
        BY DEF RequestAnswer, request
      <4> QED
        BY <4>1, <4>2 DEF RequestAnswer, Typed, Flow
    <3>2. CASE UNCHANGED <<answers, confirming>>
      BY <3>2 DEF Flow
    <3>3. CASE ConfirmationExpires
      <4>1. \A c \in Confirmations : [c EXCEPT !.expired = TRUE] \in Confirmations
        BY DEF Confirmations
      <4> QED
        BY <3>3, <4>1 DEF ConfirmationExpires, Typed, Flow
    <3> QED
      BY <1>2, <3>1, <3>2, <3>3 DEF Client, RequestApply
  <2>2. confirming' = None <=> confirming = None
    <3>1. \A c \in Confirmations : [c EXCEPT !.expired = TRUE] \in Confirmations
      BY DEF Confirmations
    <3> QED
      BY <1>2, <3>1 DEF Client, RequestApply, RequestAnswer, ConfirmationExpires, Typed
  <2>3. UNCHANGED ready
    BY <1>2 DEF Client, RequestApply, RequestAnswer, ConfirmationExpires
  <2> QED
    BY <1>2, <2>1, <2>2, <2>3 DEF Client, Flow, Waiting, Uncommitted
<1>3. CASE Replug
  BY <1>3 DEF Replug, Typed, Flow, Waiting, Uncommitted
<1>4. CASE UserSignal
  BY <1>4 DEF UserSignal, Typed, Flow, Waiting, Uncommitted
<1>5. CASE FrameProgress
  BY <1>5 DEF FrameProgress, Typed, Flow, Waiting, Uncommitted
<1>6. CASE TransactionFlips
  BY <1>6, TransactionGoesOn DEF TransactionFlips, Flow, Waiting, Uncommitted
<1>7. CASE Return
  BY <1>7 DEF Return, Typed, Flow, Waiting, Uncommitted
<1>8. CASE ServicePause
  BY <1>8, TransactionGoesOn DEF ServicePause, Flow, Waiting, Uncommitted
<1>9. CASE AwaitSeat
  BY <1>9 DEF AwaitSeat, MustWait, Typed, Flow, Waiting, Uncommitted
<1>10. CASE ResumeSession
  BY <1>10 DEF ResumeSession, Regain, MustResume, Typed, Flow, Waiting, Uncommitted
<1>11. CASE ResumeRejected
  BY <1>11 DEF ResumeRejected, ResumeFails, MustResume, Typed, Flow, Waiting, Uncommitted
<1>12. CASE BeginRecovery
  BY <1>12 DEF BeginRecovery, SeatServed, Typed, Flow, Waiting, Uncommitted
<1>13. CASE Recover
  BY <1>13 DEF Recover, Regain, Typed, Flow, Waiting, Uncommitted
<1>14. CASE RecoveryInterrupted
  BY <1>14 DEF RecoveryInterrupted, Typed, Flow, Waiting, Uncommitted
<1>15. CASE ExpireConfirmation
  <2>1. \A i \in 1..Len(answers') : answers'[i].fresh => confirming' # None
    BY <1>15, OutdatedAnswers DEF ExpireConfirmation, RollBack, Typed, Flow
  <2> QED
    BY <1>15, <2>1 DEF ExpireConfirmation, RollBack, Flow, Waiting, Uncommitted
<1>16. CASE Boundary
  BY <1>16 DEF Boundary, Publish, AnswerSucceeded, FirstRequest, Typed, Flow, Waiting, Uncommitted
<1>17. CASE Stall
  BY <1>17 DEF Stall, Typed, Flow, Waiting, Uncommitted
<1>18. CASE SubmitToClosedQueue
  BY <1>18 DEF SubmitToClosedQueue, Typed, Flow, Waiting, Uncommitted
<1>19. CASE Frames
  BY <1>19 DEF Frames, FirstRequest, Typed, Flow, Waiting, Uncommitted
<1>20. CASE Answer
  <2>1. Tail(answers) \in Seq(Answers) /\ Len(Tail(answers)) = Len(answers) - 1
        /\ \A i \in 1..Len(Tail(answers)) : Tail(answers)[i] = answers[i + 1]
    BY <1>20 DEF Answer, Typed
  <2>2. CASE ~Head(answers).fresh
    <3>1. answers' = Tail(answers) /\ UNCHANGED <<confirming, ready, flags>>
      BY <1>20, <2>2 DEF Answer
    <3>2. \A i \in 1..Len(answers') : answers'[i].fresh => confirming' # None
      BY <2>1, <3>1 DEF Typed, Flow
    <3> QED
      BY <1>20, <3>1, <3>2 DEF Answer, AnswerDone, Flow, Waiting, Uncommitted
  <2>3. CASE Head(answers).fresh
    <3>1. confirming # None
      BY <1>20, <2>3 DEF Answer, Typed, Flow
    <3>2. answers' = OutdatedAll(Tail(answers))
      BY <1>20, <2>3 DEF Answer
    <3>3. \A i \in 1..Len(answers') : ~answers'[i].fresh
      BY <2>1, <3>2, OutdatedAnswers
    <3>4. ready = None /\ UNCHANGED ready
      BY <1>20, <3>1 DEF Answer, Flow
    <3>5. \/ UNCHANGED <<pc, after, rebased>>
          \/ pc' = "top" /\ after' = "top" /\ ~rebased'
      BY <1>20, <2>3 DEF Answer, AnswerDone
    <3>6. "scanout_rebased" \in flags' <=> "scanout_rebased" \in flags
      BY <1>20, <2>3 DEF Answer
    <3>7. UNCHANGED <<txn, scanouts, disconnected>> /\ pc = "answers"
      BY <1>20 DEF Answer
    <3> QED
      BY <3>3, <3>4, <3>5, <3>6, <3>7 DEF Flow, Waiting, Uncommitted
  <2> QED
    BY <2>2, <2>3
<1>21. CASE NoRequest
  BY <1>21 DEF NoRequest, MustRescan, Typed, Flow, Waiting, Uncommitted
<1>22. CASE ScanRequest
  BY <1>22 DEF ScanRequest, MayStage, Typed, Flow, Waiting, Uncommitted
<1>23. CASE RejectUnscanned
  BY <1>23 DEF RejectUnscanned, Reject, Refuse, Typed, Flow, Waiting, Uncommitted
<1>24. CASE DrainFrames
  BY <1>24 DEF DrainFrames, Typed, Flow, Waiting, Uncommitted
<1>25. CASE RejectReady
  BY <1>25 DEF RejectReady, Reject, Refuse, ApplyTurn, Typed, Flow, Waiting, Uncommitted
<1>26. CASE ApplyResident
  BY <1>26
     DEF ApplyResident, Applicable, ApplyTurn, Accept, AcceptUnpersisted, Reject, Refuse, Persist,
         PersistFails, Typed, Flow, Waiting, Uncommitted
<1>27. CASE ApplyHardware
  <2>1. txn' = Begin("control", Wanted)
    BY <1>27 DEF ApplyHardware
  <2>2. ready \in Requests
    BY <1>27 DEF ApplyHardware, Applicable, ApplyTurn, Typed
  <2>3. Wanted \in Scanouts
    BY <2>2, StagedType, TargetType DEF Wanted, Typed
  <2>4. txn' # None /\ txn'.origin = "control" /\ ~txn'.committed /\ txn'.created = {}
    BY <2>1, <2>3, BeginType
  <2> QED
    BY <1>27, <2>4 DEF ApplyHardware, Applicable, ApplyTurn, Flow, Waiting, Uncommitted
<1>28. CASE NothingConnected
  BY <1>28 DEF NothingConnected, RescanFlags, Typed, Flow, Waiting, Uncommitted
<1>29. CASE DrainForRescan
  BY <1>29 DEF DrainForRescan, MustDrain, Typed, Flow, Waiting, Uncommitted
<1>30. CASE RestoreGeometry
  BY <1>30 DEF RestoreGeometry, MustRebuild, RescanFlags, Typed, Flow, Waiting, Uncommitted
<1>31. CASE Rebuild
  <2>1. txn' = Begin("topology", Found)
    BY <1>31 DEF Rebuild
  <2>2. Found \in Scanouts
    BY TargetType DEF Found, Typed
  <2>3. txn' # None /\ txn'.origin = "topology" /\ ~txn'.committed /\ txn'.created = {}
    BY <2>1, <2>2, BeginType
  <2> QED
    BY <1>31, <2>3 DEF Rebuild, RescanFlags, Flow, Waiting, Uncommitted
<1>32. CASE NothingChanged
  BY <1>32 DEF NothingChanged, MustRebuild, RescanFlags, Typed, Flow, Waiting, Uncommitted
<1>33. CASE Background
  BY <1>33 DEF Background, RebuildScheduler, Typed, Flow, Waiting, Uncommitted
<1>34. CASE CommitFails
  BY <1>34, TransactionGoesOn DEF CommitFails, Flow, Waiting, Uncommitted
<1>35. CASE Commit
  BY <1>35, TransactionGoesOn DEF Commit, Flow, Waiting, Uncommitted
<1>36. CASE WaitForFlips
  BY <1>36 DEF WaitForFlips, Typed, Flow, Waiting, Uncommitted
<1>37. CASE WaitFails
  BY <1>37 DEF WaitFails, ResumeFails, Typed, Flow, Waiting, Uncommitted
<1>38. CASE ReplaceFails
  BY <1>38, TransactionGoesOn DEF ReplaceFails, CommitFails, Commit, Flow, Waiting, Uncommitted
<1>39. CASE Abort
  BY <1>39 DEF Abort, Refuse, RebuildScheduler, Restore, Typed, Flow, Waiting, Uncommitted
<1>40. CASE Finish
  BY <1>40
     DEF Finish, Install, RebuildScheduler, Accept, AcceptUnpersisted, Refuse, Persist,
         PersistFails, Typed, Flow, Waiting, Uncommitted
<1>41. CASE Ended
  BY <1>41 DEF Ended, vars, Typed, Flow, Waiting, Uncommitted
<1>42. CASE UNCHANGED vars
  BY <1>42 DEF vars, Typed, Flow, Waiting, Uncommitted
<1>43. CASE ScanFails
  BY <1>43 DEF ScanFails, Typed, Flow, Waiting, Uncommitted
<1>44. CASE StagingFails
  BY <1>44 DEF StagingFails, Typed, Flow, Waiting, Uncommitted
<1> QED
  BY <1>1, <1>2, <1>3, <1>4, <1>5, <1>6, <1>7, <1>8, <1>9, <1>10, <1>11, <1>12, <1>13, <1>14, <1>15,
     <1>16, <1>17, <1>18, <1>19, <1>20, <1>21, <1>22, <1>23, <1>24, <1>25, <1>26, <1>27, <1>28,
     <1>29, <1>30, <1>31, <1>32, <1>33, <1>34, <1>35, <1>36, <1>37, <1>38, <1>39, <1>40, <1>41,
     <1>42, <1>43, <1>44 DEF Next, Callback, Pass

\* The first pass begins with nothing under way.
LEMMA InitFlow == Init => Typed /\ Flow
<1> SUFFICES ASSUME Init PROVE Typed /\ Flow
  OBVIOUS
<1>1. Outputs \in SUBSET Outputs /\ Boot \in Configurations
  BY ControlAssumption
<1>2. scanouts \in Scanouts
  BY <1>1, TargetType DEF Init, HotplugInit
<1>3. hardware \in [Outputs -> Modes \cup {Off, Foreign}]
  BY <1>2, ScanoutsFacts DEF Init, HotplugInit, Driving, Settings
<1>4. published.scanned = scanned
  BY DEF Init, Snapshot
<1> QED
  BY <1>1, <1>2, <1>3, <1>4 DEF Init, ControlInit, HotplugInit, Typed, Flow, Waiting, Uncommitted

-----------------------------------------------------------------------------
(* KMS is programmed by this session alone.                                *)

\* A recovery is due: the flag is up where the next pass sees it.
RecoveryDue ==
    /\ "kms_presentation_recovery" \in flags
    /\ pc \in {"top", "boundary"} \/ (pc = "dispatch" /\ after = "top")

\* A recovery is under way.
Recovering == pc = "recover" \/ after = "recover"

\* The session is ending, and gives KMS back as it is.
Leaving == pc = "ended" \/ (shutdown /\ pc \in {"top", "boundary"})

\* A device that is active and was lost, with the pause already served, is
\* about to be recovered or rolled back.
Regained ==
    /\ pc = "boundary" => shutdown \/ (drm_active /\ owned)
    /\ drm_active /\ ~owned /\ ~pause_pending =>
           RecoveryDue \/ Recovering \/ Leaving \/ (pc = "abort" /\ txn.committed)

\* While the seat is away KMS is not ours, and is not touched: a rollback
\* runs only after the pause has been served.
Away ==
    /\ ~seat_active => ~owned /\ (pause_pending \/ ~drm_active)
    /\ pause_pending => ~owned
    /\ pc \in {"replace", "abort"} => ~pause_pending

KmsInv == Regained /\ Away /\ KmsIsOurs

\* KMS is regained before a pass goes on: one step per action.
LEMMA NextKms ==
    ASSUME Typed, Flow, KmsInv, [Next]_vars
    PROVE  KmsInv'
<1> USE DEF KmsInv, Regained, Away, KmsIsOurs, RecoveryDue, Recovering, Leaving
<1>1. CASE Seat
  BY <1>1 DEF Seat, PauseSession, RequestShutdown, ActivateSession, Flow, Waiting
<1>2. CASE Client
  BY <1>2 DEF Client, RequestApply, RequestAnswer, ConfirmationExpires, Flow, Waiting
<1>3. CASE Replug
  BY <1>3 DEF Replug, Flow, Waiting
<1>4. CASE UserSignal
  BY <1>4 DEF UserSignal, Flow, Waiting
<1>5. CASE FrameProgress
  BY <1>5 DEF FrameProgress, Flow, Waiting
<1>6. CASE TransactionFlips
  BY <1>6, TransactionGoesOn DEF TransactionFlips, Flow, Waiting
<1>7. CASE Return
  BY <1>7 DEF Return, Flow, Waiting
<1>8. CASE ServicePause
  BY <1>8, TransactionGoesOn DEF ServicePause, TakePause, Flow, Waiting
<1>9. CASE AwaitSeat
  BY <1>9 DEF AwaitSeat, MustWait, Flow, Waiting
<1>10. CASE ResumeSession
  BY <1>10 DEF ResumeSession, Regain, MustResume, Flow, Waiting
<1>11. CASE ResumeRejected
  BY <1>11 DEF ResumeRejected, ResumeFails, MustResume, Flow, Waiting
<1>12. CASE BeginRecovery
  BY <1>12 DEF BeginRecovery, SeatServed, Flow, Waiting
<1>13. CASE Recover
  <2>1. /\ seat_active /\ ~pause_pending /\ pc = "recover"
        /\ UNCHANGED <<seat_active, pause_pending, shutdown>>
    BY <1>13 DEF Recover, Regain
  <2>2. CASE drm_active' /\ owned' /\ pc' = "top"
    BY <2>1, <2>2
  <2>3. CASE ~drm_active' /\ pc' = "dispatch" /\ after' = "recover"
    BY <2>1, <2>3
  <2> QED
    BY <1>13, <2>2, <2>3 DEF Recover, Regain
<1>14. CASE RecoveryInterrupted
  BY <1>14 DEF RecoveryInterrupted, Flow, Waiting
<1>15. CASE ExpireConfirmation
  BY <1>15 DEF ExpireConfirmation, SeatServed, RollBack, Flow, Waiting
<1>16. CASE Boundary
  BY <1>16 DEF Boundary, Publish, AnswerSucceeded, FirstRequest, Flow, Waiting
<1>17. CASE Stall
  BY <1>17 DEF Stall, Flow, Waiting
<1>18. CASE SubmitToClosedQueue
  BY <1>18 DEF SubmitToClosedQueue, Flow, Waiting
<1>19. CASE Frames
  BY <1>19 DEF Frames, FirstRequest, Flow, Waiting
<1>20. CASE Answer
  BY <1>20 DEF Answer, AnswerDone, Refuse, Keep, RollBack, Persist, PersistFails, Flow, Waiting
<1>21. CASE NoRequest
  BY <1>21 DEF NoRequest, MustRescan, Flow, Waiting
<1>22. CASE ScanRequest
  BY <1>22 DEF ScanRequest, MayStage, Flow, Waiting
<1>23. CASE RejectUnscanned
  BY <1>23 DEF RejectUnscanned, Reject, Refuse, Flow, Waiting
<1>24. CASE DrainFrames
  BY <1>24 DEF DrainFrames, Flow, Waiting
<1>25. CASE RejectReady
  BY <1>25 DEF RejectReady, Reject, Refuse, ApplyTurn, Flow, Waiting
<1>26. CASE ApplyResident
  BY <1>26
     DEF ApplyResident, Applicable, ApplyTurn, Accept, AcceptUnpersisted, Reject, Refuse, Persist,
         PersistFails, Flow, Waiting
<1>27. CASE ApplyHardware
  BY <1>27 DEF ApplyHardware, Applicable, ApplyTurn, Begin, Flow, Waiting
<1>28. CASE NothingConnected
  BY <1>28 DEF NothingConnected, RescanFlags, Flow, Waiting
<1>29. CASE DrainForRescan
  BY <1>29 DEF DrainForRescan, MustDrain, Flow, Waiting
<1>30. CASE RestoreGeometry
  BY <1>30 DEF RestoreGeometry, MustRebuild, RescanFlags, Flow, Waiting
<1>31. CASE Rebuild
  BY <1>31 DEF Rebuild, Begin, RescanFlags, Flow, Waiting
<1>32. CASE NothingChanged
  BY <1>32 DEF NothingChanged, MustRebuild, RescanFlags, Flow, Waiting
<1>33. CASE Background
  BY <1>33 DEF Background, RebuildScheduler, Flow, Waiting
<1>34. CASE CommitFails
  BY <1>34, TransactionGoesOn DEF CommitFails, Flow, Waiting
<1>35. CASE Commit
  BY <1>35, TransactionGoesOn DEF Commit, Flow, Waiting
<1>36. CASE WaitForFlips
  BY <1>36 DEF WaitForFlips, Flow, Waiting
<1>37. CASE WaitFails
  BY <1>37 DEF WaitFails, ResumeFails, MustResume, Flow, Waiting
<1>38. CASE ReplaceFails
  BY <1>38, TransactionGoesOn DEF ReplaceFails, Flow, Waiting
<1>39. CASE Abort
  <2>1. PICK bad \in SUBSET Compensated :
           /\ owned' = (owned \/ (drm_active /\ RollbackRequired /\ bad = {}))
           /\ bad # {} => "kms_presentation_recovery" \in flags'
    BY <1>39 DEF Abort
  <2>2. pc' \in {"top", "ended"} \/ (pc' = "dispatch" /\ after' = "top")
    BY <1>39 DEF Abort
  <2>3. UNCHANGED <<drm_active, pause_pending, shutdown, seat_active>> /\ pc = "abort"
    BY <1>39 DEF Abort
  <2> QED
    BY <2>1, <2>2, <2>3 DEF RollbackRequired, Flow
<1>40. CASE Finish
  BY <1>40
     DEF Finish, Install, RebuildScheduler, Accept, AcceptUnpersisted, Refuse, Persist,
         PersistFails, Flow, Waiting
<1>41. CASE Ended
  BY <1>41 DEF Ended, vars, Flow, Waiting
<1>42. CASE UNCHANGED vars
  BY <1>42 DEF vars, Flow, Waiting
<1>43. CASE ScanFails
  BY <1>43 DEF ScanFails, Flow, Waiting
<1>44. CASE StagingFails
  BY <1>44 DEF StagingFails, Flow, Waiting
<1> QED
  BY <1>1, <1>2, <1>3, <1>4, <1>5, <1>6, <1>7, <1>8, <1>9, <1>10, <1>11, <1>12, <1>13, <1>14, <1>15,
     <1>16, <1>17, <1>18, <1>19, <1>20, <1>21, <1>22, <1>23, <1>24, <1>25, <1>26, <1>27, <1>28,
     <1>29, <1>30, <1>31, <1>32, <1>33, <1>34, <1>35, <1>36, <1>37, <1>38, <1>39, <1>40, <1>41,
     <1>42, <1>43, <1>44 DEF Next, Callback, Pass

-----------------------------------------------------------------------------
(* The kernel scans out what the scanout vector says.                      *)

\* Every output that is driven is as the vector says, and no other output is
\* in a mode of this session.
Match ==
    \A o \in Outputs : IF o \in DOMAIN scanouts THEN hardware[o] = scanouts[o].hw
                                               ELSE hardware[o] \in {Off, Foreign}

\* Every output of a set of scanouts is on.
Lit(target) == \A o \in DOMAIN target : target[o].hw # Off

\* Why they may differ: the device is not ours, a transaction has begun to
\* commit, or a recovery has reset the CRTCs and the rebuild is on its way.
Excused ==
    \/ forgotten \/ ~drm_active \/ ~owned \/ "kms_presentation_recovery" \in flags
    \/ txn # None /\ txn.committed
    \/ Recovering
    \/ /\ scheduler = "shut"
       /\ \/ Leaving \/ "scanout_rebased" \in flags \/ rebased
          \/ disconnected /\ DOMAIN scanouts # {}

\* CRTCs outside the scanouts, and outside a transaction that has begun to
\* commit, are off or foreign, and a transaction that waits is what the
\* hardware shows while KMS is ours.
HardwareInv ==
    /\ Recovering => scheduler = "shut"
    /\ Lit(scanouts) /\ (txn # None => Lit(txn.target))
    /\ \A o \in Outputs :
          o \notin DOMAIN scanouts /\ (txn # None /\ txn.committed => o \notin DOMAIN txn.target)
              => hardware[o] \in {Off, Foreign}
    /\ Waiting /\ owned => \A o \in DOMAIN txn.target : hardware[o] = txn.target[o].hw
    /\ Excused \/ Match

\* Target drives no output that is off.
LEMMA TargetLit == \A c, seen : Lit(Target(c, seen))
BY DEF Lit, Target

\* Scanouts that drive the same hardware are the same outputs.
LEMMA SameHardware ==
    ASSUME NEW one \in Scanouts, NEW other \in Scanouts, Lit(one), Lit(other),
           Driving(one) = Driving(other)
    PROVE  DOMAIN one = DOMAIN other /\ \A o \in DOMAIN other : one[o].hw = other[o].hw
<1>1. DOMAIN one \subseteq Outputs /\ DOMAIN other \subseteq Outputs
  BY ScanoutsFacts
<1>2. \A o \in Outputs : Driving(one)[o] = Driving(other)[o]
  OBVIOUS
<1> QED
  BY <1>1, <1>2 DEF Driving, Lit

\* Commits, rollbacks, recoveries and installations keep the hardware and the
\* scanout vector in step: one step per action.
LEMMA NextHardware ==
    ASSUME Typed, Typed', Flow, KmsInv, HardwareInv, [Next]_vars
    PROVE  HardwareInv'
<1> USE DEF HardwareInv, Excused, Match, Recovering, Leaving
<1>1. CASE Seat
  <2>1. CASE UNCHANGED hardware /\ (PauseSession \/ RequestShutdown)
    BY <1>1, <2>1 DEF Seat, PauseSession, RequestShutdown, Flow, Waiting
  <2>2. CASE ActivateSession /\ ProgrammedByOthers
    <3>1. ~owned /\ UNCHANGED owned
      BY <2>2 DEF ActivateSession, KmsInv, Away
    <3>2. \A o \in Outputs : hardware'[o] \in {Off, Foreign}
      BY <2>2 DEF ProgrammedByOthers
    <3> QED
      BY <1>1, <3>1, <3>2 DEF Seat, Flow, Waiting
  <2> QED
    BY <1>1, <2>1, <2>2 DEF Seat
<1>2. CASE Client
  BY <1>2 DEF Client, RequestApply, RequestAnswer, ConfirmationExpires, Flow, Waiting, Uncommitted
<1>3. CASE Replug
  BY <1>3 DEF Replug, Flow, Waiting, Uncommitted
<1>4. CASE UserSignal
  BY <1>4 DEF UserSignal, Flow, Waiting, Uncommitted
<1>5. CASE FrameProgress
  BY <1>5 DEF FrameProgress, Flow, Waiting, Uncommitted
<1>6. CASE TransactionFlips
  BY <1>6, TransactionGoesOn DEF TransactionFlips, Flow, Waiting
<1>7. CASE Return
  BY <1>7 DEF Return, Flow, Waiting, Uncommitted
<1>8. CASE ServicePause
  BY <1>8, TransactionGoesOn DEF ServicePause, CommitFails, Commit, TakePause, Flow, Waiting
<1>9. CASE AwaitSeat
  BY <1>9 DEF AwaitSeat, MustWait, Flow, Waiting, Uncommitted
<1>10. CASE ResumeSession
  <2>1. CASE txn = None
    <3>1. hardware' = Committed(scanouts, DOMAIN scanouts)
      BY <1>10, <2>1 DEF ResumeSession
    <3>2. \A o \in Outputs :
             hardware'[o] = IF o \in DOMAIN scanouts THEN scanouts[o].hw ELSE hardware[o]
      BY <3>1 DEF Committed
    <3> QED
      BY <1>10, <2>1, <3>2 DEF ResumeSession, Flow, Waiting
  <2>2. CASE txn # None
    <3>1. hardware' = Committed(txn.target, DOMAIN txn.target)
      BY <1>10, <2>2 DEF ResumeSession
    <3>2. DOMAIN txn.target \subseteq Outputs
      BY <2>2, TransactionTarget, ScanoutsFacts DEF Typed
    <3>3. \A o \in Outputs :
             hardware'[o] = IF o \in DOMAIN txn.target THEN txn.target[o].hw ELSE hardware[o]
      BY <3>1 DEF Committed
    <3> QED
      BY <1>10, <2>2, <3>2, <3>3 DEF ResumeSession, Flow, Waiting
  <2> QED
    BY <2>1, <2>2
<1>11. CASE ResumeRejected
  BY <1>11 DEF ResumeRejected, ResumeFails, MustResume, Flow, Waiting, Uncommitted
<1>12. CASE BeginRecovery
  BY <1>12 DEF BeginRecovery, SeatServed, Flow, Waiting, Uncommitted
<1>13. CASE Recover
  BY <1>13 DEF Recover, Regain, Flow, Waiting, Uncommitted
<1>14. CASE RecoveryInterrupted
  BY <1>14 DEF RecoveryInterrupted, Flow, Waiting, Uncommitted
<1>15. CASE ExpireConfirmation
  BY <1>15 DEF ExpireConfirmation, SeatServed, RollBack, Flow, Waiting, Uncommitted
<1>16. CASE Boundary
  BY <1>16 DEF Boundary, Publish, AnswerSucceeded, FirstRequest, Flow, Waiting, Uncommitted
<1>17. CASE Stall
  BY <1>17 DEF Stall, Flow, Waiting, Uncommitted
<1>18. CASE SubmitToClosedQueue
  BY <1>18 DEF SubmitToClosedQueue, Flow, Waiting, Uncommitted
<1>19. CASE Frames
  BY <1>19 DEF Frames, FirstRequest, Flow, Waiting, Uncommitted
<1>20. CASE Answer
  BY <1>20
     DEF Answer, AnswerDone, Refuse, Keep, RollBack, Persist, PersistFails, Flow, Waiting,
         Uncommitted
<1>21. CASE NoRequest
  BY <1>21 DEF NoRequest, MustRescan, Flow, Waiting, Uncommitted
<1>22. CASE ScanRequest
  BY <1>22 DEF ScanRequest, MayStage, Flow, Waiting, Uncommitted
<1>23. CASE RejectUnscanned
  BY <1>23 DEF RejectUnscanned, Reject, Refuse, Flow, Waiting, Uncommitted
<1>24. CASE DrainFrames
  BY <1>24 DEF DrainFrames, Flow, Waiting, Uncommitted
<1>25. CASE RejectReady
  BY <1>25 DEF RejectReady, Reject, Refuse, ApplyTurn, Flow, Waiting, Uncommitted
<1>26. CASE ApplyResident
  <2>1. ready \in Requests
    BY <1>26 DEF ApplyResident, Applicable, ApplyTurn, Typed
  <2>2. Wanted \in Scanouts /\ Lit(Wanted)
    BY <2>1, StagedType, TargetType, TargetLit DEF Wanted, Typed
  <2>3. Driving(Wanted) = Driving(scanouts)
    BY <1>26 DEF ApplyResident, HardwareDiffers
  <2>4. DOMAIN Wanted = DOMAIN scanouts /\ \A o \in DOMAIN scanouts : Wanted[o].hw = scanouts[o].hw
    BY <2>2, <2>3, SameHardware DEF Typed
  <2>5. scanouts' = Wanted \/ scanouts' = scanouts
    BY <1>26 DEF ApplyResident, Reject
  <2> QED
    BY <1>26, <2>2, <2>3, <2>4, <2>5
    DEF ApplyResident, Reject, Applicable, ApplyTurn, Flow, Waiting, Uncommitted
<1>27. CASE ApplyHardware
  <2>1. ready \in Requests
    BY <1>27 DEF ApplyHardware, Applicable, ApplyTurn, Typed
  <2>2. Wanted \in Scanouts /\ Lit(Wanted)
    BY <2>1, StagedType, TargetType, TargetLit DEF Wanted, Typed
  <2>3. txn' # None /\ txn'.target = Wanted /\ ~txn'.committed
    BY <1>27, <2>2, BeginType, HotplugNone DEF ApplyHardware
  <2> QED
    BY <1>27, <2>2, <2>3 DEF ApplyHardware, Applicable, ApplyTurn, Flow, Waiting, Uncommitted
<1>28. CASE NothingConnected
  <2>1. DOMAIN scanouts = {} => Match
    BY <1>28 DEF NothingConnected, Flow, Waiting
  <2> QED
    BY <1>28, <2>1 DEF NothingConnected, RescanFlags, Flow, Waiting, Uncommitted
<1>29. CASE DrainForRescan
  BY <1>29 DEF DrainForRescan, MustDrain, Flow, Waiting, Uncommitted
<1>30. CASE RestoreGeometry
  <2>1. Found \in Scanouts /\ Lit(Found)
    BY TargetType, TargetLit DEF Found, Typed
  <2>2. Driving(Found) = Driving(scanouts)
    BY <1>30 DEF RestoreGeometry, MustRebuild, HardwareDiffers
  <2>3. DOMAIN Found = DOMAIN scanouts /\ \A o \in DOMAIN scanouts : Found[o].hw = scanouts[o].hw
    BY <2>1, <2>2, SameHardware DEF Typed
  <2>4. scanouts' = Found \/ scanouts' = scanouts
    BY <1>30 DEF RestoreGeometry
  <2> QED
    BY <1>30, <2>1, <2>2, <2>3, <2>4
    DEF RestoreGeometry, RescanFlags, MustRebuild, Flow, Waiting, Uncommitted
<1>31. CASE Rebuild
  <2>1. Found \in Scanouts /\ Lit(Found)
    BY TargetType, TargetLit DEF Found, Typed
  <2>2. txn' # None /\ txn'.target = Found /\ ~txn'.committed
    BY <1>31, <2>1, BeginType, HotplugNone DEF Rebuild
  <2> QED
    BY <1>31, <2>1, <2>2 DEF Rebuild, RescanFlags, MustRebuild, Flow, Waiting, Uncommitted
<1>32. CASE NothingChanged
  BY <1>32 DEF NothingChanged, MustRebuild, RescanFlags, Flow, Waiting, Uncommitted
<1>33. CASE Background
  BY <1>33 DEF Background, RebuildScheduler, Flow, Waiting, Uncommitted
<1>34. CASE CommitFails
  <2>1. txn \in Transactions
    BY <1>34 DEF CommitFails, Typed, Flow
  <2>2. txn' # None /\ txn'.target = txn.target
    BY <1>34, <2>1, TransactionGoesOn, HotplugNone
  <2>3. PICK done \in SUBSET DOMAIN txn.target :
           hardware' = Committed(txn.target, done) /\ txn' = [txn EXCEPT !.created = New, !.committed = (done # {})]
    BY <1>34 DEF CommitFails
  <2>4. txn'.committed = (done # {})
    BY <2>1, <2>3 DEF Transactions
  <2>5. \A o \in Outputs : o \notin DOMAIN txn.target => hardware'[o] = hardware[o]
    BY <2>3 DEF Committed
  <2>6. done = {} => hardware' = hardware
    BY <2>3 DEF Committed, Typed
  <2>7. UNCHANGED <<scanouts, scheduler, passVars, flags, lifecycleVars>>
        /\ pc = "commit" /\ pc' = "abort" /\ after' = "top"
    BY <1>34 DEF CommitFails
  <2> QED
    BY <2>1, <2>2, <2>4, <2>5, <2>6, <2>7 DEF Flow, Waiting
<1>35. CASE Commit
  <2>1. txn \in Transactions /\ DOMAIN txn.target \subseteq Outputs
    BY <1>35, TransactionTarget, ScanoutsFacts DEF Commit, Typed, Flow
  <2>2. txn' # None /\ txn'.target = txn.target /\ txn'.committed
    BY <1>35, <2>1, TransactionGoesOn, HotplugNone
  <2>3. \A o \in Outputs :
           hardware'[o] = IF o \in DOMAIN txn.target THEN txn.target[o].hw ELSE hardware[o]
    BY <1>35 DEF Commit, Committed
  <2> QED
    BY <1>35, <2>1, <2>2, <2>3, HotplugNone DEF Commit, Flow, Waiting
<1>36. CASE WaitForFlips
  BY <1>36 DEF WaitForFlips, Flow, Waiting, Uncommitted
<1>37. CASE WaitFails
  BY <1>37 DEF WaitFails, ResumeFails, Flow, Waiting, Uncommitted
<1>38. CASE ReplaceFails
  <2>1. txn \in Transactions
    BY <1>38 DEF ReplaceFails, Typed, Flow, Waiting
  <2>2. txn' # None /\ txn'.target = txn.target /\ txn'.committed
    BY <1>38, <2>1, TransactionGoesOn, HotplugNone DEF Flow, Waiting, ReplaceFails, CommitFails, Commit
  <2>3. \A o \in Outputs : hardware'[o] \in {hardware[o], Off}
    BY <1>38 DEF ReplaceFails
  <2>4. UNCHANGED scanouts /\ pc' = "abort" /\ after' = "top"
    BY <1>38 DEF ReplaceFails
  <2> QED
    BY <2>1, <2>2, <2>3, <2>4, HotplugNone DEF Waiting
<1>39. CASE Abort
  <2>1. txn \in Transactions /\ txn' = None /\ pc = "abort" /\ after = "top"
    BY <1>39 DEF Abort, Typed, Flow
  <2>2. PICK bad \in SUBSET Compensated :
           /\ Restore(bad)
           /\ owned' = (owned \/ (drm_active /\ RollbackRequired /\ bad = {}))
           /\ bad # {} => "kms_presentation_recovery" \in flags'
    BY <1>39 DEF Abort
  <2>3. /\ flags \subseteq flags'
        /\ UNCHANGED <<drm_active, shutdown, forgotten, disconnected>>
        /\ pc' \in {"top", "ended"} \/ (pc' = "dispatch" /\ after' = "top")
        /\ after' = "top"
        /\ \/ txn.origin = "control"
           \/ UNCHANGED scheduler /\ (pc' = "ended" \/ "scanout_rebased" \in flags')
    BY <1>39 DEF Abort
  <2>4. /\ DOMAIN scanouts' = DOMAIN scanouts \cup (bad \cap txn.created)
        /\ \A o \in DOMAIN scanouts' :
              scanouts'[o] = IF o \in DOMAIN scanouts THEN scanouts[o] ELSE txn.target[o]
    BY <2>2 DEF Restore
  <2>5. \A o \in Outputs :
           hardware'[o] = IF o \in Compensated \ bad THEN Driving(scanouts)[o] ELSE hardware[o]
    BY <2>2 DEF Restore
  <2>6. \A o \in Outputs :
           Driving(scanouts)[o] = IF o \in DOMAIN scanouts THEN scanouts[o].hw ELSE Off
    BY DEF Driving
  <2>11. txn # None /\ txn.created \subseteq New /\ (txn.committed => txn.created = New)
    BY <2>1, HotplugNone DEF Flow
  <2>7. Lit(scanouts')
    BY <2>4, <2>11 DEF Lit, New
  <2>8. \A o \in Outputs : o \notin DOMAIN scanouts' => hardware'[o] \in {Off, Foreign}
    <3> SUFFICES ASSUME NEW o \in Outputs, o \notin DOMAIN scanouts'
                 PROVE  hardware'[o] \in {Off, Foreign}
      OBVIOUS
    <3>1. CASE o \in txn.created
      BY <2>4, <2>5, <2>6, <3>1 DEF Compensated
    <3>2. CASE o \notin txn.created
      <4>1. hardware'[o] = hardware[o] /\ o \notin DOMAIN scanouts
        BY <2>4, <2>5, <3>2 DEF Compensated
      <4> QED
        BY <2>11, <3>2, <4>1 DEF New
    <3> QED
      BY <3>1, <3>2
  <2>9. Excused' \/ Match'
    <3>1. CASE bad # {}
      BY <2>2, <3>1
    <3>2. CASE bad = {} /\ (txn.committed \/ Match)
      <4>1. DOMAIN scanouts' = DOMAIN scanouts
            /\ \A o \in DOMAIN scanouts : scanouts'[o] = scanouts[o]
        BY <2>4, <3>2
      <4>2. \A o \in DOMAIN scanouts \cap Outputs : hardware'[o] = scanouts[o].hw
        BY <2>5, <2>6, <3>2 DEF Compensated, RollbackRequired
      <4> QED
        BY <2>8, <4>1, <4>2
    <3>3. CASE bad = {} /\ ~txn.committed /\ Excused
      <4>1. ~owned => ~owned'
        BY <2>2, <3>3 DEF RollbackRequired
      <4>2. txn.origin = "control" =>
               ~rebased /\ "scanout_rebased" \notin flags /\ ~(disconnected /\ DOMAIN scanouts # {})
        BY <2>1, <3>3, HotplugNone DEF Flow, Uncommitted
      <4> QED
        BY <2>1, <2>3, <3>3, <4>1, <4>2
    <3> QED
      BY <3>1, <3>2, <3>3
  <2>10. ~Recovering' /\ ~Waiting'
    BY <2>3 DEF Waiting
  <2> QED
    BY <2>1, <2>7, <2>8, <2>9, <2>10
<1>40. CASE Finish
  <2>1. txn \in Transactions /\ txn.target \in Scanouts /\ txn # None
    BY <1>40, TransactionTarget, HotplugNone DEF Finish, Typed, Flow, Waiting
  <2>2. /\ scanouts' = txn.target
        /\ \A o \in Outputs : hardware'[o] = IF o \in Retired THEN Off ELSE hardware[o]
    BY <1>40 DEF Finish, Install
  <2>3. owned => \A o \in DOMAIN txn.target : hardware[o] = txn.target[o].hw
    BY <1>40 DEF Finish, Waiting
  <2>4. \A o \in Outputs : o \notin DOMAIN scanouts' => hardware'[o] \in {Off, Foreign}
    BY <2>1, <2>2 DEF Retired
  <2>5. owned => \A o \in DOMAIN scanouts' : hardware'[o] = scanouts'[o].hw
    BY <2>1, <2>2, <2>3, ScanoutsFacts DEF Retired
  <2>6. txn' = None /\ pc' = "top" /\ after' = "top" /\ UNCHANGED owned
    BY <1>40 DEF Finish
  <2>7. Lit(scanouts') /\ (Match' \/ ~owned')
    BY <2>1, <2>2, <2>4, <2>5, <2>6
  <2> QED
    BY <2>4, <2>6, <2>7 DEF Waiting
<1>41. CASE Ended
  BY <1>41 DEF Ended, vars, Flow, Waiting, Uncommitted
<1>42. CASE UNCHANGED vars
  BY <1>42 DEF vars, Flow, Waiting, Uncommitted
<1>43. CASE ScanFails
  BY <1>43 DEF ScanFails, RescanFlags, Flow, Waiting, Uncommitted
<1>44. CASE StagingFails
  BY <1>44 DEF StagingFails, Flow, Waiting, Uncommitted
<1> QED
  BY <1>1, <1>2, <1>3, <1>4, <1>5, <1>6, <1>7, <1>8, <1>9, <1>10, <1>11, <1>12, <1>13, <1>14, <1>15,
     <1>16, <1>17, <1>18, <1>19, <1>20, <1>21, <1>22, <1>23, <1>24, <1>25, <1>26, <1>27, <1>28,
     <1>29, <1>30, <1>31, <1>32, <1>33, <1>34, <1>35, <1>36, <1>37, <1>38, <1>39, <1>40, <1>41,
     <1>42, <1>43, <1>44 DEF Next, Callback, Pass

-----------------------------------------------------------------------------
(* A request is judged against the published state.                        *)

\* While a request waits, the snapshot is current or about to be published.
SnapshotInv ==
    /\ ready # None => published = Snapshot \/ "output_control_dirty" \in flags
    /\ ready # None /\ pc \in {"frames", "answers", "requests"} => published = Snapshot

\* Whatever changes the outputs publishes, or outdates, before a request is judged.
LEMMA NextSnapshot ==
    ASSUME Typed, Flow, SnapshotInv, [Next]_vars
    PROVE  SnapshotInv'
<1> USE DEF SnapshotInv, Snapshot
<1>1. CASE Seat
  BY <1>1 DEF Seat, PauseSession, RequestShutdown, ActivateSession, Flow
<1>2. CASE Client
  BY <1>2 DEF Client, RequestApply, RequestAnswer, ConfirmationExpires, Flow
<1>3. CASE Replug
  BY <1>3 DEF Replug, Flow
<1>4. CASE UserSignal
  BY <1>4 DEF UserSignal, Flow
<1>5. CASE FrameProgress
  BY <1>5 DEF FrameProgress, Flow
<1>6. CASE TransactionFlips
  BY <1>6 DEF TransactionFlips, Flow
<1>7. CASE Return
  BY <1>7 DEF Return, Flow
<1>8. CASE ServicePause
  BY <1>8 DEF ServicePause, TakePause, Flow
<1>9. CASE AwaitSeat
  BY <1>9 DEF AwaitSeat, MustWait, Flow
<1>10. CASE ResumeSession
  BY <1>10 DEF ResumeSession, Regain, MustResume, Flow
<1>11. CASE ResumeRejected
  BY <1>11 DEF ResumeRejected, ResumeFails, MustResume, Flow
<1>12. CASE BeginRecovery
  BY <1>12 DEF BeginRecovery, SeatServed, Flow
<1>13. CASE Recover
  BY <1>13 DEF Recover, Regain, Flow
<1>14. CASE RecoveryInterrupted
  BY <1>14 DEF RecoveryInterrupted, Flow
<1>15. CASE ExpireConfirmation
  BY <1>15 DEF ExpireConfirmation, SeatServed, RollBack, Flow
<1>16. CASE Boundary
  BY <1>16 DEF Boundary, Publish, AnswerSucceeded, FirstRequest, Flow
<1>17. CASE Stall
  BY <1>17 DEF Stall, Flow
<1>18. CASE SubmitToClosedQueue
  BY <1>18 DEF SubmitToClosedQueue, Flow
<1>19. CASE Frames
  BY <1>19 DEF Frames, FirstRequest, Flow
<1>20. CASE Answer
  BY <1>20 DEF Answer, AnswerDone, Refuse, Keep, RollBack, Persist, PersistFails, Flow
<1>21. CASE NoRequest
  BY <1>21 DEF NoRequest, MustRescan, Flow
<1>22. CASE ScanRequest
  BY <1>22 DEF ScanRequest, MayStage, Flow
<1>23. CASE RejectUnscanned
  BY <1>23 DEF RejectUnscanned, Reject, Refuse, Flow
<1>24. CASE DrainFrames
  BY <1>24 DEF DrainFrames, Flow
<1>25. CASE RejectReady
  BY <1>25 DEF RejectReady, Reject, Refuse, ApplyTurn, Flow
<1>26. CASE ApplyResident
  BY <1>26
     DEF ApplyResident, Applicable, ApplyTurn, Accept, AcceptUnpersisted, Reject, Refuse, Persist,
         PersistFails, Flow
<1>27. CASE ApplyHardware
  BY <1>27 DEF ApplyHardware, Applicable, ApplyTurn, Begin, Flow
<1>28. CASE NothingConnected
  BY <1>28 DEF NothingConnected, RescanFlags, Flow
<1>29. CASE DrainForRescan
  BY <1>29 DEF DrainForRescan, MustDrain, Flow
<1>30. CASE RestoreGeometry
  BY <1>30 DEF RestoreGeometry, MustRebuild, RescanFlags, Flow
<1>31. CASE Rebuild
  BY <1>31 DEF Rebuild, Begin, RescanFlags, Flow
<1>32. CASE NothingChanged
  BY <1>32 DEF NothingChanged, MustRebuild, RescanFlags, Flow
<1>33. CASE Background
  BY <1>33 DEF Background, RebuildScheduler, Flow
<1>34. CASE CommitFails
  BY <1>34 DEF CommitFails, Flow
<1>35. CASE Commit
  BY <1>35 DEF Commit, Flow
<1>36. CASE WaitForFlips
  BY <1>36 DEF WaitForFlips, Flow
<1>37. CASE WaitFails
  BY <1>37 DEF WaitFails, ResumeFails, Flow
<1>38. CASE ReplaceFails
  BY <1>38 DEF ReplaceFails, Flow
<1>39. CASE Abort
  BY <1>39 DEF Abort, Refuse, RebuildScheduler, Restore, Flow
<1>40. CASE Finish
  BY <1>40
     DEF Finish, Install, RebuildScheduler, Accept, AcceptUnpersisted, Refuse, Persist,
         PersistFails, Flow
<1>41. CASE Ended
  BY <1>41 DEF Ended, vars, Flow
<1>42. CASE UNCHANGED vars
  BY <1>42 DEF vars, Flow
<1>43. CASE ScanFails
  BY <1>43 DEF ScanFails, RescanFlags, Flow
<1>44. CASE StagingFails
  BY <1>44 DEF StagingFails, Flow
<1> QED
  BY <1>1, <1>2, <1>3, <1>4, <1>5, <1>6, <1>7, <1>8, <1>9, <1>10, <1>11, <1>12, <1>13, <1>14, <1>15,
     <1>16, <1>17, <1>18, <1>19, <1>20, <1>21, <1>22, <1>23, <1>24, <1>25, <1>26, <1>27, <1>28,
     <1>29, <1>30, <1>31, <1>32, <1>33, <1>34, <1>35, <1>36, <1>37, <1>38, <1>39, <1>40, <1>41,
     <1>42, <1>43, <1>44 DEF Next, Callback, Pass

-----------------------------------------------------------------------------
(* The configuration is what is driven.                                    *)

Applied == Driving(scanouts) = Driving(Target(config, scanned))

\* A rescan, or the recovery that asks for one, is due.
RescanDue == flags \cap (RescanFlags \cup {"kms_presentation_recovery"}) # {}

\* A connector that changed is known to have changed; a transaction drives
\* what its caller wants; and where the scanouts are not the configuration's,
\* a rescan is on its way.
AppliedInv ==
    /\ connected # scanned => "topology_dirty" \in flags \/ pc = "ended"
    /\ txn # None => txn.target = Target(IF txn.origin = "control" THEN Staged(ready) ELSE config,
                                         scanned)
    /\ \/ Applied \/ RescanDue \/ Recovering \/ Leaving
       \/ txn # None /\ txn.origin = "topology"

\* A pass that leaves the configuration unapplied leaves a flag or a transaction
\* that leads back to it.
LEMMA NextApplied ==
    ASSUME Typed, Flow, AppliedInv, [Next]_vars
    PROVE  AppliedInv'
<1> USE DEF AppliedInv, Applied, RescanDue, Recovering, Leaving, RescanFlags
<1>1. CASE Seat
  BY <1>1 DEF Seat, PauseSession, RequestShutdown, ActivateSession, Staged, Flow, Waiting
<1>2. CASE Client
  BY <1>2 DEF Client, RequestApply, RequestAnswer, ConfirmationExpires, Staged, Flow, Waiting
<1>3. CASE Replug
  BY <1>3 DEF Replug, Staged, Flow, Waiting
<1>4. CASE UserSignal
  BY <1>4 DEF UserSignal, Staged, Flow, Waiting
<1>5. CASE FrameProgress
  BY <1>5 DEF FrameProgress, Staged, Flow, Waiting
<1>6. CASE TransactionFlips
  BY <1>6, TransactionGoesOn DEF TransactionFlips, Staged, Flow, Waiting
<1>7. CASE Return
  BY <1>7 DEF Return, Staged, Flow, Waiting
<1>8. CASE ServicePause
  BY <1>8, TransactionGoesOn DEF ServicePause, TakePause, Staged, Flow, Waiting
<1>9. CASE AwaitSeat
  BY <1>9 DEF AwaitSeat, MustWait, Staged, Flow, Waiting
<1>10. CASE ResumeSession
  BY <1>10 DEF ResumeSession, Regain, MustResume, Staged, Flow, Waiting
<1>11. CASE ResumeRejected
  BY <1>11 DEF ResumeRejected, ResumeFails, MustResume, Staged, Flow, Waiting
<1>12. CASE BeginRecovery
  BY <1>12 DEF BeginRecovery, SeatServed, Staged, Flow, Waiting
<1>13. CASE Recover
  BY <1>13 DEF Recover, Regain, Staged, Flow, Waiting
<1>14. CASE RecoveryInterrupted
  BY <1>14 DEF RecoveryInterrupted, Staged, Flow, Waiting
<1>15. CASE ExpireConfirmation
  BY <1>15 DEF ExpireConfirmation, SeatServed, RollBack, Staged, Flow, Waiting
<1>16. CASE Boundary
  BY <1>16 DEF Boundary, Publish, AnswerSucceeded, FirstRequest, Staged, Flow, Waiting
<1>17. CASE Stall
  BY <1>17 DEF Stall, Staged, Flow, Waiting
<1>18. CASE SubmitToClosedQueue
  BY <1>18 DEF SubmitToClosedQueue, Staged, Flow, Waiting
<1>19. CASE Frames
  BY <1>19 DEF Frames, FirstRequest, Staged, Flow, Waiting
<1>20. CASE Answer
  BY <1>20 DEF Answer, AnswerDone, Refuse, Keep, RollBack, Persist, PersistFails, Staged, Flow, Waiting
<1>21. CASE NoRequest
  BY <1>21 DEF NoRequest, MustRescan, Staged, Flow, Waiting
<1>22. CASE ScanRequest
  BY <1>22 DEF ScanRequest, MayStage, Staged, Flow, Waiting
<1>23. CASE RejectUnscanned
  BY <1>23 DEF RejectUnscanned, Reject, Refuse, Staged, Flow, Waiting
<1>24. CASE DrainFrames
  BY <1>24 DEF DrainFrames, Staged, Flow, Waiting
<1>25. CASE RejectReady
  BY <1>25 DEF RejectReady, Reject, Refuse, ApplyTurn, Staged, Flow, Waiting
<1>26. CASE ApplyResident
  <2>1. ready # None /\ txn = None /\ pc = "requests"
    BY <1>26 DEF ApplyResident, Applicable, ApplyTurn, Flow, Waiting
  <2>2. CASE scanouts' = Wanted /\ (Accept(ready) \/ AcceptUnpersisted(ready))
    <3>1. config' = Staged(ready)
      BY <2>2 DEF Accept, AcceptUnpersisted
    <3>2. UNCHANGED <<connected, scanned, txn>> /\ flags \subseteq flags'
      BY <1>26 DEF ApplyResident, Reject
    <3> QED
      BY <2>1, <2>2, <3>1, <3>2 DEF Wanted
  <2>3. CASE Reject(ready, {"output_control_dirty"})
    BY <1>26, <2>1, <2>3 DEF ApplyResident, Applicable, ApplyTurn, Reject, Flow
  <2> QED
    BY <1>26, <2>2, <2>3 DEF ApplyResident
<1>27. CASE ApplyHardware
  <2>1. ready \in Requests
    BY <1>27 DEF ApplyHardware, Applicable, ApplyTurn, Typed
  <2>2. Wanted \in Scanouts
    BY <2>1, StagedType, TargetType DEF Wanted, Typed
  <2>3. txn'.origin = "control" /\ txn'.target = Wanted
    BY <1>27, <2>2, BeginType DEF ApplyHardware
  <2>4. Staged(ready)' = Staged(ready)
    BY <1>27 DEF ApplyHardware, Staged
  <2> QED
    BY <1>27, <2>3, <2>4 DEF ApplyHardware, Applicable, ApplyTurn, Wanted, Flow, Waiting
<1>28. CASE NothingConnected
  BY <1>28 DEF NothingConnected, RescanFlags, Staged, Flow, Waiting
<1>29. CASE DrainForRescan
  BY <1>29 DEF DrainForRescan, MustDrain, Staged, Flow, Waiting
<1>30. CASE RestoreGeometry
  BY <1>30 DEF RestoreGeometry, Found, Flow, Waiting
<1>31. CASE Rebuild
  <2>1. Found \in Scanouts
    BY TargetType DEF Found, Typed
  <2>2. txn' # None /\ txn'.origin = "topology" /\ txn'.target = Found
    BY <1>31, <2>1, BeginType, HotplugNone DEF Rebuild
  <2> QED
    BY <1>31, <2>2 DEF Rebuild, Found
<1>32. CASE NothingChanged
  BY <1>32 DEF NothingChanged, MustRebuild, HardwareDiffers, Found, Flow, Waiting
<1>33. CASE Background
  BY <1>33 DEF Background, RebuildScheduler, Staged, Flow, Waiting
<1>34. CASE CommitFails
  BY <1>34, TransactionGoesOn DEF CommitFails, Staged, Flow, Waiting
<1>35. CASE Commit
  BY <1>35, TransactionGoesOn DEF Commit, Staged, Flow, Waiting
<1>36. CASE WaitForFlips
  BY <1>36 DEF WaitForFlips, Staged, Flow, Waiting
<1>37. CASE WaitFails
  BY <1>37 DEF WaitFails, ResumeFails, Staged, Flow, Waiting
<1>38. CASE ReplaceFails
  BY <1>38, TransactionGoesOn DEF ReplaceFails, Staged, Flow, Waiting
<1>39. CASE Abort
  <2>1. txn \in Transactions /\ txn # None /\ txn' = None /\ pc = "abort" /\ after = "top"
    BY <1>39, HotplugNone DEF Abort, Typed, Flow
  <2>2. PICK bad \in SUBSET Compensated :
           Restore(bad) /\ (bad # {} => "kms_presentation_recovery" \in flags')
    BY <1>39 DEF Abort
  <2>3. flags \subseteq flags' /\ UNCHANGED <<config, connected, scanned>>
    BY <1>39 DEF Abort
  <2>4. CASE txn.origin = "topology"
    BY <1>39, <2>1, <2>3, <2>4 DEF Abort
  <2>5. CASE txn.origin = "control" /\ bad # {}
    BY <2>1, <2>2, <2>3, <2>5
  <2>6. CASE txn.origin = "control" /\ bad = {}
    <3>1. Driving(scanouts') = Driving(scanouts)
      BY <2>2, <2>6 DEF Restore, Driving
    <3> QED
      BY <2>1, <2>3, <2>6, <3>1
  <2> QED
    BY <2>1, <2>4, <2>5, <2>6, TransactionTarget
<1>40. CASE Finish
  BY <1>40
     DEF Finish, Install, RebuildScheduler, Accept, AcceptUnpersisted, Refuse, Persist,
         PersistFails, Staged, Flow, Waiting
<1>41. CASE Ended
  BY <1>41 DEF Ended, vars, Staged, Flow, Waiting
<1>42. CASE UNCHANGED vars
  BY <1>42 DEF vars, Staged, Flow, Waiting
<1>43. CASE ScanFails
  BY <1>43 DEF ScanFails, Staged, Flow, Waiting
<1>44. CASE StagingFails
  BY <1>44 DEF StagingFails, Staged, Flow, Waiting
<1> QED
  BY <1>1, <1>2, <1>3, <1>4, <1>5, <1>6, <1>7, <1>8, <1>9, <1>10, <1>11, <1>12, <1>13, <1>14, <1>15,
     <1>16, <1>17, <1>18, <1>19, <1>20, <1>21, <1>22, <1>23, <1>24, <1>25, <1>26, <1>27, <1>28,
     <1>29, <1>30, <1>31, <1>32, <1>33, <1>34, <1>35, <1>36, <1>37, <1>38, <1>39, <1>40, <1>41,
     <1>42, <1>43, <1>44 DEF Next, Callback, Pass

-----------------------------------------------------------------------------
(* Output control implements the trial of a configuration.                 *)

\* A configuration that takes effect is on trial, or final.
LEMMA AcceptTrial ==
    ASSUME Typed, Flow, ready # None, Accept(ready) \/ AcceptUnpersisted(ready)
    PROVE  Trial!Next
<1>1. confirming = None /\ ready \in Requests
  BY DEF Flow, Typed
<1>2. config' = Staged(ready) /\ Staged(ready) \in Configurations
  BY <1>1, AcceptType, StagedType DEF Typed
<1>3. CASE Accept(ready) /\ ready.confirm
  <2>1. [rollback |-> config, persist |-> ready.persist, expired |-> FALSE] \in Confirmations
    BY <1>1 DEF Requests, Confirmations, Typed
  <2>2. /\ confirming' = [rollback |-> config, persist |-> ready.persist, expired |-> FALSE]
        /\ UNCHANGED file
    BY <1>3 DEF Accept
  <2>3. confirming' # None
    BY <2>1, <2>2, ControlNone
  <2>4. confirming'.rollback = config
    BY <2>2
  <2>5. Trial!Try(Staged(ready))
    BY <1>1, <1>2, <2>2, <2>3, <2>4 DEF Trial!Try
  <2> QED
    BY <1>2, <2>5 DEF Trial!Next
<1>4. CASE AcceptUnpersisted(ready) \/ ~ready.confirm
  <2>1. confirming' = None /\ file' \in {file, Staged(ready)}
    BY <1>1, <1>4 DEF Accept, AcceptUnpersisted, Persist, PersistFails
  <2>2. Trial!Change(Staged(ready))
    BY <1>1, <1>2, <2>1 DEF Trial!Change
  <2> QED
    BY <1>2, <2>2 DEF Trial!Next
<1> QED
  BY <1>3, <1>4

\* Every step of the loop is one of ConfigurationTrial or a stutter of it.
LEMMA NextTrial ==
    ASSUME Typed, Flow, [Next]_vars
    PROVE  [Trial!Next]_(Trial!trialVars)
<1> USE DEF Trial!trialVars
<1> DEFINE Stutter == /\ UNCHANGED <<config, file>> /\ (confirming' = None <=> confirming = None)
                      /\ confirming # None => confirming'.rollback = confirming.rollback
<1>1. CASE Seat
  BY <1>1 DEF Seat, PauseSession, RequestShutdown, ActivateSession, Flow
<1>2. CASE Client
  <2>1. \A c \in Confirmations : [c EXCEPT !.expired = TRUE] \in Confirmations
    BY DEF Confirmations
  <2>2. \A c \in Confirmations : [c EXCEPT !.expired = TRUE].rollback = c.rollback
    BY DEF Confirmations
  <2>3. ConfirmationExpires => Stutter
    BY <2>1, <2>2, ControlNone DEF ConfirmationExpires, Typed
  <2> QED
    BY <1>2, <2>3 DEF Client, RequestApply, RequestAnswer
<1>3. CASE Replug
  BY <1>3 DEF Replug, Flow
<1>4. CASE UserSignal
  BY <1>4 DEF UserSignal, Flow
<1>5. CASE FrameProgress
  BY <1>5 DEF FrameProgress, Flow
<1>6. CASE TransactionFlips
  BY <1>6 DEF TransactionFlips, Flow
<1>7. CASE Return
  BY <1>7 DEF Return, Flow
<1>8. CASE ServicePause
  BY <1>8 DEF ServicePause, TakePause, Flow
<1>9. CASE AwaitSeat
  BY <1>9 DEF AwaitSeat, MustWait, Flow
<1>10. CASE ResumeSession
  BY <1>10 DEF ResumeSession, Regain, MustResume, Flow
<1>11. CASE ResumeRejected
  BY <1>11 DEF ResumeRejected, ResumeFails, MustResume, Flow
<1>12. CASE BeginRecovery
  BY <1>12 DEF BeginRecovery, SeatServed, Flow
<1>13. CASE Recover
  BY <1>13 DEF Recover, Regain, Flow
<1>14. CASE RecoveryInterrupted
  BY <1>14 DEF RecoveryInterrupted, Flow
<1>15. CASE ExpireConfirmation
  <2>1. CASE confirming # None /\ confirming.expired
    <3>1. confirming' = None /\ config' = confirming.rollback /\ UNCHANGED file
      BY <1>15, <2>1 DEF ExpireConfirmation, RollBack
    <3>2. config # None
      BY ControlNone DEF Typed
    <3>3. Trial!Undo
      BY <2>1, <3>1, <3>2 DEF Trial!Undo
    <3> QED
      BY <3>3 DEF Trial!Next
  <2>2. CASE ~(confirming # None /\ confirming.expired)
    BY <1>15, <2>2 DEF ExpireConfirmation
  <2> QED
    BY <2>1, <2>2
<1>16. CASE Boundary
  BY <1>16 DEF Boundary, Publish, AnswerSucceeded, FirstRequest, Flow
<1>17. CASE Stall
  BY <1>17 DEF Stall, Flow
<1>18. CASE SubmitToClosedQueue
  BY <1>18 DEF SubmitToClosedQueue, Flow
<1>19. CASE Frames
  BY <1>19 DEF Frames, FirstRequest, Flow
<1>20. CASE Answer
  <2>1. CASE ~Head(answers).fresh
    BY <1>20, <2>1 DEF Answer
  <2>2. CASE Head(answers).fresh
    <3>1. confirming # None /\ config # None
      BY <1>20, <2>2, ControlNone DEF Answer, Typed, Flow
    <3>2. \/ Keep /\ Persist(confirming.persist, config)
          \/ RollBack /\ (PersistFails(config) \/ UNCHANGED file)
      BY <1>20, <2>2 DEF Answer
    <3>3. CASE Keep /\ Persist(confirming.persist, config)
      <4>1. Trial!Keep
        BY <3>1, <3>3 DEF Keep, Persist, Trial!Keep
      <4> QED
        BY <4>1 DEF Trial!Next
    <3>4. CASE RollBack /\ (PersistFails(config) \/ UNCHANGED file)
      <4>1. Trial!Undo
        BY <3>1, <3>4 DEF RollBack, PersistFails, Trial!Undo
      <4> QED
        BY <4>1 DEF Trial!Next
    <3> QED
      BY <3>2, <3>3, <3>4
  <2> QED
    BY <2>1, <2>2
<1>21. CASE NoRequest
  BY <1>21 DEF NoRequest, MustRescan, Flow
<1>22. CASE ScanRequest
  BY <1>22 DEF ScanRequest, MayStage, Flow
<1>23. CASE RejectUnscanned
  BY <1>23 DEF RejectUnscanned, Reject, Refuse, Flow
<1>24. CASE DrainFrames
  BY <1>24 DEF DrainFrames, Flow
<1>25. CASE RejectReady
  BY <1>25 DEF RejectReady, Reject, Refuse, ApplyTurn, Flow
<1>26. CASE ApplyResident
  <2>1. CASE Accept(ready) \/ AcceptUnpersisted(ready)
    BY <1>26, AcceptTrial, <2>1 DEF ApplyResident, Applicable, ApplyTurn
  <2>2. CASE Reject(ready, {"output_control_dirty"})
    BY <2>2 DEF Reject
  <2> QED
    BY <1>26, <2>1, <2>2 DEF ApplyResident
<1>27. CASE ApplyHardware
  BY <1>27 DEF ApplyHardware, Applicable, ApplyTurn, Begin, Flow
<1>28. CASE NothingConnected
  BY <1>28 DEF NothingConnected, RescanFlags, Flow
<1>29. CASE DrainForRescan
  BY <1>29 DEF DrainForRescan, MustDrain, Flow
<1>30. CASE RestoreGeometry
  BY <1>30 DEF RestoreGeometry, MustRebuild, RescanFlags, Flow
<1>31. CASE Rebuild
  BY <1>31 DEF Rebuild, Begin, RescanFlags, Flow
<1>32. CASE NothingChanged
  BY <1>32 DEF NothingChanged, MustRebuild, RescanFlags, Flow
<1>33. CASE Background
  BY <1>33 DEF Background, RebuildScheduler, Flow
<1>34. CASE CommitFails
  BY <1>34 DEF CommitFails, Flow
<1>35. CASE Commit
  BY <1>35 DEF Commit, Flow
<1>36. CASE WaitForFlips
  BY <1>36 DEF WaitForFlips, Flow
<1>37. CASE WaitFails
  BY <1>37 DEF WaitFails, ResumeFails, Flow
<1>38. CASE ReplaceFails
  BY <1>38 DEF ReplaceFails, Flow
<1>39. CASE Abort
  BY <1>39 DEF Abort, Refuse, RebuildScheduler, Restore, Flow
<1>40. CASE Finish
  <2>1. txn # None /\ (txn.origin = "control" => ready # None)
    BY <1>40 DEF Finish, Flow, Waiting
  <2>2. CASE txn.origin = "control"
    BY <1>40, AcceptTrial, <2>1, <2>2 DEF Finish
  <2>3. CASE txn.origin = "topology"
    BY <1>40, <2>3 DEF Finish
  <2> QED
    BY <1>40, <2>2, <2>3 DEF Finish
<1>41. CASE Ended
  BY <1>41 DEF Ended, vars, Flow
<1>42. CASE UNCHANGED vars
  BY <1>42 DEF vars, Flow
<1>43. CASE ScanFails
  BY <1>43 DEF ScanFails, Flow
<1>44. CASE StagingFails
  BY <1>44 DEF StagingFails, Flow
<1> QED
  BY <1>1, <1>2, <1>3, <1>4, <1>5, <1>6, <1>7, <1>8, <1>9, <1>10, <1>11, <1>12, <1>13, <1>14, <1>15,
     <1>16, <1>17, <1>18, <1>19, <1>20, <1>21, <1>22, <1>23, <1>24, <1>25, <1>26, <1>27, <1>28,
     <1>29, <1>30, <1>31, <1>32, <1>33, <1>34, <1>35, <1>36, <1>37, <1>38, <1>39, <1>40, <1>41,
     <1>42, <1>43, <1>44 DEF Next, Callback, Pass

-----------------------------------------------------------------------------
(* The theorems.                                                           *)

\* The loop's control flow is what its steps rely on.
LEMMA FlowHolds == Spec => [](Typed /\ Flow)
<1>1. Typed /\ Flow /\ [Next]_vars => (Typed /\ Flow)'
  BY NextTyped, NextFlow
<1> QED
  BY <1>1, InitFlow, PTL DEF Spec

\* The seat and KMS ownership agree.
LEMMA KmsHolds == Spec => []KmsInv
<1>1. Init => KmsInv
  BY DEF Init, LifecycleInit, KmsInv, Regained, Away, KmsIsOurs
<1>2. Typed /\ Flow /\ KmsInv /\ [Next]_vars => KmsInv'
  BY NextKms
<1> QED
  BY <1>1, <1>2, FlowHolds, PTL DEF Spec

\* After its service of the seat a pass finds KMS as this session left it: a
\* VT switch away and back within a dispatch, a failed resume or a failed
\* rollback never lets it commit on top of another session's state.
THEOREM KmsStaysOurs == Spec => []KmsIsOurs
<1>1. KmsInv => KmsIsOurs
  BY DEF KmsInv
<1> QED
  BY <1>1, KmsHolds, PTL

\* Whatever other sessions leave on the CRTCs, partial commits, failed flips,
\* rollbacks, quarantined outputs and resumes leave the driven outputs as the
\* scanout vector says and no mode of this session elsewhere, unless a
\* recovery is due, under way or was forgotten.
THEOREM HardwareAgrees == Spec => []HardwareMatchesScanouts
<1>1. Init => HardwareInv
  <2> SUFFICES ASSUME Init PROVE HardwareInv
    OBVIOUS
  <2>1. Lit(scanouts) /\ hardware = Driving(scanouts) /\ txn = None /\ pc = "top" /\ after = "top"
    BY TargetLit DEF Init, HotplugInit
  <2>2. Match
    BY <2>1 DEF Driving, Match
  <2> QED
    BY <2>1, <2>2 DEF HardwareInv, Recovering, Waiting, Match
<1>2. Typed /\ Typed' /\ Flow /\ KmsInv /\ HardwareInv /\ [Next]_vars => HardwareInv'
  BY NextHardware
<1>3. Flow /\ HardwareInv => HardwareMatchesScanouts
  BY DEF Flow, HardwareInv, Excused, Match, HardwareMatchesScanouts
<1> QED
  BY <1>1, <1>2, <1>3, FlowHolds, KmsHolds, PTL DEF Spec

\* A request whose serial passes for current is judged against the state that
\* its client was shown.
THEOREM SnapshotsAreCurrent == Spec => []SnapshotIsCurrent
<1>1. Init => SnapshotInv
  BY DEF Init, ControlInit, SnapshotInv
<1>2. Typed /\ Flow /\ SnapshotInv /\ [Next]_vars => SnapshotInv'
  BY NextSnapshot
<1>3. SnapshotInv => SnapshotIsCurrent
  BY DEF SnapshotInv, SnapshotIsCurrent, ApplyTurn
<1> QED
  BY <1>1, <1>2, <1>3, FlowHolds, PTL DEF Spec

\* A loop with no flag up drives the configuration's outputs in the
\* configuration's modes.
THEOREM ConfigurationHolds == Spec => []ConfigurationIsApplied
<1>1. Init => AppliedInv
  BY DEF Init, ControlInit, HotplugInit, AppliedInv, Applied
<1>2. Typed /\ Flow /\ AppliedInv /\ [Next]_vars => AppliedInv'
  BY NextApplied
<1>3. Flow /\ AppliedInv => ConfigurationIsApplied
  BY DEF Flow, Waiting, AppliedInv, Applied, RescanDue, Recovering, Leaving,
         ConfigurationIsApplied
<1> QED
  BY <1>1, <1>2, <1>3, FlowHolds, PTL DEF Spec

\* Output control, with its deadlines, failed writes, VT switches and
\* recoveries, implements the trial of a configuration.
THEOREM TrialImplemented == Spec => ImplementsTrial
<1>1. Init => Trial!Init
  BY ControlAssumption DEF Init, ControlInit, Trial!Init
<1>2. Typed /\ Flow /\ [Next]_vars => [Trial!Next]_(Trial!trialVars)
  BY NextTrial
<1> QED
  BY <1>1, <1>2, FlowHolds, PTL DEF Spec, ImplementsTrial, Trial!Spec

=============================================================================
