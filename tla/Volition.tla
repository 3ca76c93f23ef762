------------------------------- MODULE Volition -------------------------------
(***************************************************************************)
(* The KMS commit scheduler (compositor/src/volition/mod.rs): the          *)
(* compositor thread hands it render-complete frames, a worker thread      *)
(* enters KMS with nonblocking atomic commits, retries a busy CRTC, and    *)
(* reports each outcome on a channel.                                      *)
(*                                                                         *)
(* Deadlines are abstracted: the earliest-deadline order only decides      *)
(* when a job is attempted, so any queued job may be attempted at any      *)
(* time.  A refused attempt that is retried leaves the job queued; only    *)
(* the attempt that ends the retries (RefuseJob) is a step.                *)
(***************************************************************************)
EXTENDS OutputBufferBroker, FiniteSets

\* A commit is named by the position of its pipeline and its slot.
CommitIds == [stream : Int, frame : Slots]

\* An accepted job is one whose ioctl returned 0 and whose outcome the worker
\* has not reported yet.
Jobs == [output : Outputs, slot : Slots, commit : CommitIds, accepted : BOOLEAN]

\* The output of an event is not part of volition::Event; it only keeps two
\* reports with the same CommitId apart, as the channel does.
Events == [kind : {"Submitted", "Stalled", "Failed"}, instance : Nat,
           commit : CommitIds, output : Outputs]

VARIABLES
    jobs,             \* the channel to the worker and its deadline queue
    volitionEvents,   \* the channel of reported outcomes
    instance          \* Volition::instance of the running worker

volitionVars == <<jobs, volitionEvents, instance>>

VolitionTypeOK ==
    /\ jobs \subseteq Jobs
    /\ volitionEvents \subseteq Events
    /\ instance \in Nat

VolitionInit ==
    /\ jobs = {}
    /\ volitionEvents = {}
    /\ instance = 1

\* OutputScheduler::new sizes the queue for one lookahead commit per scanout.
LookaheadCapacity == Cardinality(Outputs)

Job(o, i, c) == [output |-> o, slot |-> i, commit |-> c, accepted |-> FALSE]

EventOf(kind, j) ==
    [kind |-> kind, instance |-> instance, commit |-> j.commit, output |-> j.output]

\* try_submit refuses a job (Backpressured) at capacity.
Backpressured == Cardinality(jobs) >= LookaheadCapacity

SubmitForTarget(o, i, c) ==
    /\ ~Backpressured
    /\ jobs' = jobs \union {Job(o, i, c)}
    /\ UNCHANGED <<volitionEvents, instance>>

\* The ioctl of job j returns 0.
AcceptJob(j) ==
    /\ j \in jobs /\ ~j.accepted
    /\ jobs' = (jobs \ {j}) \union {[j EXCEPT !.accepted = TRUE]}
    /\ UNCHANGED <<volitionEvents, instance>>

\* finish_job after a successful ioctl.
ReportSubmitted(j) ==
    /\ j \in jobs /\ j.accepted
    /\ jobs' = jobs \ {j}
    /\ volitionEvents' = volitionEvents \union {EventOf("Submitted", j)}
    /\ UNCHANGED instance

\* The last attempt of job j is refused: a retryable refusal outlived
\* LOOKAHEAD_MAX_WAIT or the error is recoverable (Stalled), or it is neither
\* (Failed).
RefuseJob(j, kind) ==
    /\ j \in jobs /\ ~j.accepted
    /\ jobs' = jobs \ {j}
    /\ volitionEvents' = volitionEvents \union {EventOf(kind, j)}
    /\ UNCHANGED instance

\* The worker still reports a commit whose ioctl had already returned.
EventsAtShutdown ==
    volitionEvents \union {EventOf("Submitted", j) : j \in {k \in jobs : k.accepted}}

\* shutdown cancels the queue and joins the worker.  The compositor thread has
\* received its events except those left in the channel.
ShutdownVolition(left) ==
    /\ jobs' = {}
    /\ volitionEvents' = left
    /\ UNCHANGED instance

\* Mutant: events of replaced workers are accepted.
Owns_Any(event) == TRUE

\* The instance filter on events of workers that were replaced.
Owns(event) == event.instance = instance

=============================================================================
