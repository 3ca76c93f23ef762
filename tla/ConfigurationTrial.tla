-------------------------- MODULE ConfigurationTrial --------------------------
(***************************************************************************)
(* What output control promises about configurations: there is a final     *)
(* one; another may be on trial; a trial ends by becoming final or by      *)
(* leaving the final one as it was before the trial began; and a trial is  *)
(* not what a restart comes back to while it lasts.                        *)
(***************************************************************************)
CONSTANTS Configurations, None

VARIABLES
    final,            \* the configuration no deadline can take back
    trial,            \* the configuration that awaits its confirmation, or None
    saved             \* what a restart comes back to

trialVars == <<final, trial, saved>>

Init ==
    /\ final \in Configurations /\ trial = None /\ saved = final

\* A configuration is applied for good.
Change(c) ==
    /\ trial = None
    /\ final' = c /\ saved' \in {saved, c}
    /\ UNCHANGED trial

\* A configuration is applied until it is confirmed.
Try(c) ==
    /\ trial = None
    /\ trial' = c
    /\ UNCHANGED <<final, saved>>

\* It is confirmed.
Keep ==
    /\ trial # None
    /\ final' = trial /\ saved' \in {saved, trial}
    /\ trial' = None

\* It is taken back; a failed confirmation may have written it all the same.
Undo ==
    /\ trial # None
    /\ trial' = None
    /\ saved' \in {saved, trial}
    /\ UNCHANGED final

Next ==
    \/ \E c \in Configurations : Change(c) \/ Try(c)
    \/ Keep \/ Undo

Spec == Init /\ [][Next]_trialVars

=============================================================================
