------------------------- MODULE OutputBufferBroker -------------------------
(***************************************************************************)
(* The pools of native framebuffers that Flutter renders into, one pool    *)
(* per physical output (compositor flutter_runtime/output_pipeline.rs).    *)
(*                                                                         *)
(* The broker is one mutex: the raster thread calls BeginTransaction,      *)
(* Acquire, MarkReady and FinishTransaction, the compositor thread the     *)
(* rest.  Every operator below is the effect of one call under that lock   *)
(* on the broker's own variables.  Sizes, damage and feedback are left     *)
(* out; the dirty serial of a request is kept as one bit, whether it is    *)
(* still the latest serial of its output.                                  *)
(***************************************************************************)
EXTENDS Integers

CONSTANTS
    Outputs,    \* the physical outputs of the topology
    SlotCount   \* framebuffers per output pool

ASSUME SlotCountAssumption == SlotCount \in Nat /\ SlotCount >= 3

Slots == 0 .. (SlotCount - 1)

\* BufferState of a slot.
BufferStates == {"Free", "Rendering", "Ready", "Pending"}

\* A request (an authorization, or the request a slot was rendered for)
\* carries the output's latest dirty serial, or one that newer damage has
\* superseded.
Serials == {"latest", "superseded"}

VARIABLES
    bufferState,   \* OutputBufferSlot::state
    outputRefs,    \* OutputBufferSlot::output_refs
    slotSerial,    \* dirty serial of the content of a slot
    authorized     \* OutputBufferPool::authorized_request, or "none"

brokerVars == <<bufferState, outputRefs, slotSerial, authorized>>

BrokerTypeOK ==
    /\ bufferState \in [Outputs -> [Slots -> BufferStates]]
    /\ outputRefs \in [Outputs -> [Slots -> Nat]]
    /\ slotSerial \in [Outputs -> [Slots -> Serials]]
    /\ authorized \in [Outputs -> Serials \union {"none"}]

\* A new broker: the initial scanout buffer, slot 0, has its output as owner.
BrokerInit ==
    /\ bufferState = [o \in Outputs |-> [i \in Slots |-> "Free"]]
    /\ outputRefs = [o \in Outputs |-> [i \in Slots |-> IF i = 0 THEN 1 ELSE 0]]
    /\ slotSerial = [o \in Outputs |-> [i \in Slots |-> "superseded"]]
    /\ authorized = [o \in Outputs |-> "none"]

-----------------------------------------------------------------------------

\* Mutant: the raster thread claims a slot its output still refers to.
Claimable_Referenced(o, i) == bufferState[o][i] = "Free"

\* The slots that a raster transaction may claim.
Claimable(o, i) == bufferState[o][i] = "Free" /\ outputRefs[o][i] = 0

\* Nothing of the output is in production and a slot is free for it.
HasTarget(o) ==
    /\ \A i \in Slots : bufferState[o][i] = "Free"
    /\ \E i \in Slots : Claimable(o, i)

\* target_available, once the authorizations of expired are released.
TargetAvailable(o, expired) ==
    /\ authorized[o] = "none" \/ o \in expired
    /\ HasTarget(o)

\* A slot that an earlier transaction left Rendering is recycled.
BeginTransaction ==
    /\ bufferState' = [o \in Outputs |-> [i \in Slots |->
            IF bufferState[o][i] = "Rendering" /\ outputRefs[o][i] = 0
            THEN "Free" ELSE bufferState[o][i]]]
    /\ UNCHANGED <<outputRefs, slotSerial, authorized>>

\* Expiry of the authorizations in expired, then one authorization for each
\* output of due that has a target.  The two calls take the lock separately;
\* the raster thread cannot make an available target unavailable in between,
\* because Acquire needs the authorization that TargetAvailable excludes.
ExpireAndAuthorize(expired, due) ==
    /\ \A o \in due : TargetAvailable(o, expired)
    /\ authorized' = [o \in Outputs |->
            IF o \in due THEN "latest"
            ELSE IF o \in expired THEN "none"
            ELSE authorized[o]]
    /\ UNCHANGED <<bufferState, outputRefs, slotSerial>>

\* acquire takes the first claimable slot of the pool.
AcquireBlocked(o) ==
    \/ authorized[o] = "none"
    \/ \E i \in Slots : bufferState[o][i] = "Ready"
    \/ \A i \in Slots : ~Claimable(o, i)

Acquire(o, i) ==
    /\ ~AcquireBlocked(o)
    /\ Claimable(o, i)
    /\ \A j \in Slots : j < i => ~Claimable(o, j)
    /\ bufferState' = [bufferState EXCEPT ![o][i] = "Rendering"]
    /\ slotSerial' = [slotSerial EXCEPT ![o][i] = authorized[o]]
    /\ authorized' = [authorized EXCEPT ![o] = "none"]
    /\ UNCHANGED outputRefs

MarkReady(o, i) ==
    /\ bufferState[o][i] = "Rendering"
    /\ \A j \in Slots \ {i} : bufferState[o][j] # "Ready"
    /\ bufferState' = [bufferState EXCEPT ![o][i] = "Ready"]
    /\ UNCHANGED <<outputRefs, slotSerial, authorized>>

\* Every Ready slot belongs to the open transaction, because the producer
\* arbiter closes a transaction before the next one begins; sealing it makes
\* them Pending, that is, members of the handler's ready_frames queue.
FinishTransaction ==
    /\ bufferState' = [o \in Outputs |-> [i \in Slots |->
            IF bufferState[o][i] = "Ready" THEN "Pending" ELSE bufferState[o][i]]]
    /\ UNCHANGED <<outputRefs, slotSerial, authorized>>

\* publish, release_output and retain_output refuse a slot that is not in the
\* state they need; the caller turns the refusal into a fatal error.
Publishable(o, i) == bufferState[o][i] = "Pending" /\ outputRefs[o][i] = 0

Releasable(o, i) == outputRefs[o][i] > 0

Retainable(o, i) == bufferState[o][i] = "Free" /\ outputRefs[o][i] > 0

=============================================================================
