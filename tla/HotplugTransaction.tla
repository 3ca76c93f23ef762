-------------------------- MODULE HotplugTransaction --------------------------
(***************************************************************************)
(* Connectors, CRTCs and the transaction that moves the session from one   *)
(* set of scanouts to another: apply_hotplug_topology and its journal      *)
(* (kms_pipeline.rs, kms_state.rs, hotplug_transaction.rs).                *)
(*                                                                         *)
(* Scanouts are a function from the outputs that are driven to their       *)
(* settings.  `hardware' is what the kernel scans out, whoever set it: a   *)
(* mode of this session, Off, or Foreign for what another session lit.     *)
(***************************************************************************)
EXTENDS SessionLifecycle, OutputControl

CONSTANT Foreign      \* a CRTC that another session left lit

ASSUME ForeignAssumption == Foreign \notin Modes \cup {Off}

VARIABLES
    connected,        \* connectors that report a monitor
    scanned,          \* the same as the DRM scanner last saw them
    hardware,         \* what every CRTC scans out
    scanouts,         \* the scanout vector of the main loop
    txn               \* the transaction in progress, or None

hotplugVars == <<connected, scanned, hardware, scanouts, txn>>

\* What a transaction keeps on the stack of apply_hotplug_topology.
Transactions ==
    [origin : {"control", "topology"},
     target : UNION {[outs -> Settings] : outs \in SUBSET Outputs},
     created : SUBSET Outputs,  \* new surfaces in the journal
     committed : BOOLEAN,     \* HotplugProgress::committed_outputs is not zero
     pending : BOOLEAN,       \* RuntimeState::pending is not empty
     alive : BOOLEAN]         \* Flutter runs, or can be started again

\* Option::None is told from Some.
ASSUME HotplugNone == None \notin Transactions

HotplugTypeOK ==
    /\ connected \subseteq Outputs /\ scanned \subseteq Outputs
    /\ hardware \in [Outputs -> Modes \cup {Off, Foreign}]
    /\ DOMAIN scanouts \subseteq Outputs
    /\ \A o \in DOMAIN scanouts : scanouts[o] \in Settings
    /\ txn \in Transactions \cup {None}

-----------------------------------------------------------------------------
\* A transaction before it is staged.
Begin(origin, target) ==
    [origin |-> origin, target |-> target, created |-> {}, committed |-> FALSE,
     pending |-> FALSE, alive |-> TRUE]

\* configured_outputs: what a configuration drives of the connectors seen.
Target(configuration, seen) ==
    [o \in {p \in seen : configuration[p].hw # Off} |-> configuration[o]]

\* KMS state that agrees with a set of scanouts.
Driving(target) == [o \in Outputs |-> IF o \in DOMAIN target THEN target[o].hw ELSE Off]

\* Another set of outputs, or an output with another CRTC, mode or VRR.
HardwareDiffers(target) == Driving(target) # Driving(scanouts)

HotplugInit ==
    /\ connected = Outputs /\ scanned = Outputs
    /\ scanouts = Target(Boot, Outputs)
    /\ hardware = Driving(scanouts)
    /\ txn = None

\* Commits for the outputs in `done'; other CRTCs keep what they have.
Committed(target, done) ==
    [o \in Outputs |-> IF o \in done THEN target[o].hw ELSE hardware[o]]

\* What the session that had the seat left on the CRTCs, a mode it found and
\* kept included.  It may have set them at any time since the pause: nothing
\* here looks at one in between.
ProgrammedByOthers == hardware' \in [Outputs -> {Off, Foreign}]

\* Surfaces the transaction needs, and those it would retire.
New == DOMAIN txn.target \ DOMAIN scanouts
Retired == DOMAIN scanouts \ DOMAIN txn.target

\* reconcile_scanouts creates no surface on a CRTC that is lit: it would
\* take an active foreign CRTC away.
Stageable == \A o \in New : hardware[o] = Off

\* Mutant: only a failure after the page flips counts as a commit.
RollbackRequired_OncePresented == txn.committed /\ ~txn.pending

\* HotplugProgress::rollback_required.
RollbackRequired == txn.committed

\* Outputs ScanoutReconciliation::rollback touches: what was created is
\* cleared, and every old scanout is committed again when required.
Compensated == txn.created \cup (IF RollbackRequired THEN DOMAIN scanouts ELSE {})

\* The rollback, `bad' being the outputs KMS refused it for.  A created
\* surface that could not be cleared is quarantined among the scanouts.
Restore(bad) ==
    /\ hardware' = [o \in Outputs |->
                      IF o \in Compensated \ bad THEN Driving(scanouts)[o] ELSE hardware[o]]
    /\ scanouts' = [o \in DOMAIN scanouts \cup (bad \cap txn.created) |->
                      IF o \in DOMAIN scanouts THEN scanouts[o] ELSE txn.target[o]]

\* clear_retired, then ScanoutReconciliation::commit.
Install ==
    /\ hardware' = [o \in Outputs |-> IF o \in Retired THEN Off ELSE hardware[o]]
    /\ scanouts' = txn.target

=============================================================================
