------------------------------ MODULE IdlePolicy ------------------------------
(***************************************************************************)
(* The inactivity policy of idle_policy.rs: it counts from the last        *)
(* activity, fires each of its three timeouts once per idle interval, and  *)
(* remembers the outputs it turned off itself, so that it wakes those and  *)
(* no others.  Its operators name the outputs to turn on or off; the queue *)
(* they go to belongs to DisplayPower.                                     *)
(*                                                                         *)
(* Time is the number of idle steps since the last activity, up to         *)
(* MaxIdle; a timeout of Never is a None of the code.                      *)
(***************************************************************************)
EXTENDS Naturals

CONSTANTS
    Outputs,          \* OutputId
    Policies,         \* IdlePolicyConfiguration: [lock, dpms, suspend : Nat]
    MaxIdle           \* bound on the idle steps counted

ASSUME IdleAssumption ==
    /\ MaxIdle \in Nat
    /\ \A policy \in Policies : policy \in [{"lock", "dpms", "suspend"} -> Nat]

VARIABLES
    policy,           \* configuration; Disabled until the shell has sent one
    idle,             \* now - last_activity
    inhibited,        \* what the last evaluation saw
    triggered,        \* lock_triggered, dpms_triggered, suspend_triggered
    blanked,          \* blanked_outputs
    manual            \* manually_blanked

policyVars == <<policy, idle, inhibited, triggered, blanked, manual>>

Timeouts == {"lock", "dpms", "suspend"}
Never == MaxIdle + 1
Disabled == [timeout \in Timeouts |-> Never]

PolicyTypeOK ==
    /\ policy \in Policies \cup {Disabled}
    /\ idle \in 0..MaxIdle
    /\ inhibited \in BOOLEAN /\ manual \in BOOLEAN
    /\ triggered \subseteq Timeouts
    /\ blanked \subseteq Outputs

\* At the end of the startup, with or without a configuration yet.
PolicyInit ==
    /\ policy \in Policies \cup {Disabled} /\ idle = 0 /\ inhibited = FALSE /\ triggered = {}
    /\ blanked = {} /\ manual = FALSE

Elapses ==
    /\ idle < MaxIdle /\ idle' = idle + 1
    /\ UNCHANGED <<policy, inhibited, triggered, blanked, manual>>

ResetInterval == idle' = 0 /\ triggered' = {}

\* wake_blanked_outputs: what is blanked is to be turned on.
WakeBlanked == blanked' = {} /\ manual' = FALSE

NoteActivity == ResetInterval /\ WakeBlanked /\ UNCHANGED <<policy, inhibited>>

\* configure with a new configuration; without a display timeout everything
\* it blanked is to be turned on.
Configure(new) ==
    /\ new # policy
    /\ policy' = new
    /\ ResetInterval
    /\ IF new["dpms"] = Never THEN WakeBlanked ELSE UNCHANGED <<blanked, manual>>
    /\ UNCHANGED inhibited

\* blank_now, of the outputs that are on: the ones it turns off.
NewlyBlanked(on) == on \ blanked

BlankNow(on) ==
    /\ blanked' = blanked \cup on
    /\ manual' = (manual \/ NewlyBlanked(on) # {})

\* toggle_now when some output is on, and when all are off.
ToggleOff(on) == ResetInterval /\ BlankNow(on) /\ UNCHANGED <<policy, inhibited>>
ToggleOn == ResetInterval /\ WakeBlanked /\ UNCHANGED <<policy, inhibited>>

\* Mutant: what the user blanked is woken as well.
InhibitedWake_Manual == blanked

\* evaluate while something inhibits idling; what the user blanked stays.
InhibitedWake == IF manual THEN {} ELSE blanked

EvaluateInhibited ==
    /\ inhibited' = TRUE
    /\ IF inhibited THEN UNCHANGED <<idle, triggered>> ELSE ResetInterval
    /\ IF manual THEN UNCHANGED <<blanked, manual>> ELSE WakeBlanked
    /\ UNCHANGED policy

\* evaluate otherwise, with the outputs driven and those that are on.  The
\* interval starts anew when an inhibitor has ended.
Elapsed == IF inhibited THEN 0 ELSE idle
Triggered == IF inhibited THEN {} ELSE triggered
Due == {timeout \in Timeouts \ Triggered : Elapsed >= policy[timeout]}

IdleOff(live, on) == IF "dpms" \in Due THEN on \ (blanked \cap live) ELSE {}

\* Mutant: an output that is off is taken for one that is gone.
Evaluate_ForgetsDark(live, on) ==
    /\ inhibited' = FALSE /\ idle' = Elapsed
    /\ blanked' = (blanked \cap on) \cup IdleOff(live, on)
    /\ triggered' = Triggered \cup (IF IdleOff(live, on) = {} THEN Due ELSE Due \ {"suspend"})
    /\ UNCHANGED <<policy, manual>>

Evaluate(live, on) ==
    /\ inhibited' = FALSE /\ idle' = Elapsed
    /\ blanked' = (blanked \cap live) \cup IdleOff(live, on)
    /\ triggered' = Triggered \cup (IF IdleOff(live, on) = {} THEN Due ELSE Due \ {"suspend"})
    /\ UNCHANGED <<policy, manual>>

\* next_deadline has passed.
DeadlinePassed == ~inhibited /\ \E timeout \in Timeouts \ triggered : idle >= policy[timeout]

\* note_external_power_request and note_power_failure.
Forget(outputs) ==
    /\ blanked' = blanked \ outputs
    /\ UNCHANGED <<policy, idle, inhibited, triggered, manual>>
===============================================================================
