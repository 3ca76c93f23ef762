-------------------------- MODULE DpmsTopologyGuard ---------------------------
(***************************************************************************)
(* DpmsTopologyGuard of dpms.rs.  A monitor that is off, or has just been  *)
(* told to wake, may drop its connector for a while; the guard keeps such  *)
(* an output in place, for as long as it is off and until a grace has      *)
(* passed after it woke.  The grace is none, running or over.              *)
(***************************************************************************)
VARIABLES
    parked,           \* parked_outputs
    waking,           \* waking_outputs
    grace,            \* wake_grace_until
    deferred          \* deferred_removal

guardVars == <<parked, waking, grace, deferred>>

GuardTypeOK(outputs) ==
    /\ parked \subseteq outputs /\ waking \subseteq outputs
    /\ grace \in {"none", "running", "over"}
    /\ deferred \in BOOLEAN

GuardInit == parked = {} /\ waking = {} /\ grace = "none" /\ deferred = FALSE

GracePasses == grace = "running" /\ grace' = "over" /\ UNCHANGED <<parked, waking, deferred>>

\* note_powered_off and note_wake for every output of a batch, in that order.
NotePower(off, on) ==
    /\ waking' = (waking \ off) \cup on
    /\ parked' = (parked \cup off) \ on
    /\ grace' = CASE on # {} -> "running"
                  [] on = {} /\ off # {} /\ waking \subseteq off -> "none"
                  [] OTHER -> grace
    /\ UNCHANGED deferred

\* Mutant: the grace is dropped as in expire_wake_grace, and the removal with it.
RemovalDue_Dropped == FALSE

\* service_deadline; it reports a removal that was put off.
RemovalDue == grace = "over" /\ deferred

ServiceDeadline ==
    IF grace = "over"
    THEN waking' = {} /\ grace' = "none" /\ deferred' = FALSE /\ UNCHANGED parked
    ELSE UNCHANGED guardVars

Cancel == parked' = {} /\ waking' = {} /\ grace' = "none" /\ deferred' = FALSE

\* defer_missing_outputs, which drops a grace that is over first: whether
\* the outputs missing from a scan are kept, and what becomes of the guard.
Awakening == IF grace = "over" THEN {} ELSE waking

Excused(missing) == missing # {} /\ missing \subseteq parked \cup Awakening

DeferMissing(missing) ==
    IF missing = {} \/ Excused(missing)
    THEN /\ waking' = Awakening
         /\ grace' = IF grace = "over" THEN "none" ELSE grace
         /\ deferred' = (missing # {})
         /\ UNCHANGED parked
    ELSE Cancel
===============================================================================
