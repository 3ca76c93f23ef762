-------------------------- MODULE DisplayPowerProofs --------------------------
(***************************************************************************)
(* Proofs about DisplayPower, for any outputs, policies and bounds: what   *)
(* the compositor turned off it remembers to turn on, and what the user    *)
(* turned off stays off.                                                   *)
(***************************************************************************)
EXTENDS DisplayPower, TLAPS

USE DEF policyVars, guardVars, kmsVars, askVars, userVars, loopVars

\* The variables the proofs are about.
AskTypes ==
    /\ scanouts \subseteq Outputs /\ connected \subseteq Outputs /\ powered \subseteq scanouts
    /\ requests \in [Outputs -> Asked]
    /\ source \in [Outputs -> {"none", "idle", "user", "client", "control"}]
    /\ manual \in BOOLEAN

\* What BlankIsRemembered says of one output.
Remembered(output) ==
    (source[output] \in {"idle", "user"} /\ (output \notin powered \/ requests[output] = "off"))
        => output \in blanked

\* What UserOffIsKept says of one output, and that the policy knows of it: an
\* inhibitor wakes what is blanked unless the user blanked something.
Kept(output) ==
    source[output] = "user" => /\ requests[output] # "on"
                               /\ output \in powered => requests[output] = "off"
                               /\ manual

\* The inductive invariant.
PowerInv == AskTypes /\ \A output \in scanouts : Remembered(output) /\ Kept(output)

-----------------------------------------------------------------------------
\* The queue and its history, output by output.
LEMMA QueueAt ==
    ASSUME AskTypes, NEW on, NEW off, NEW party \in {"idle", "user", "client", "control", "inhibitor"},
           on \cap off = {},
           requests' = Queued(requests, on, off), source' = Attributed(on, off, party),
           off = {} \/ party # "inhibitor"
    PROVE  /\ requests' \in [Outputs -> Asked]
           /\ source' \in [Outputs -> {"none", "idle", "user", "client", "control"}]
           /\ \A output \in Outputs :
                 /\ output \in on => requests'[output] = "on"
                 /\ output \in off => requests'[output] = "off" /\ source'[output] = party
                 /\ output \notin on \cup off =>
                        requests'[output] = requests[output] /\ source'[output] = source[output]
                 /\ output \in on /\ party # "inhibitor" => source'[output] = "none"
                 /\ output \in on /\ party = "inhibitor" =>
                        source'[output] = IF source[output] = "user" THEN "user" ELSE "none"
<1>1. \A output \in Outputs :
         requests'[output] = CASE output \in on -> "on"
                               [] output \in off -> "off"
                               [] OTHER -> requests[output]
  BY DEF Queued
<1>2. \A output \in Outputs :
         source'[output] = CASE output \in off -> party
                             [] output \in on /\ party # "inhibitor" -> "none"
                             [] output \in on /\ source[output] # "user" -> "none"
                             [] OTHER -> source[output]
  BY DEF Attributed
<1>3. requests' \in [Outputs -> Asked]
  BY <1>1 DEF Queued, Asked, AskTypes
<1>4. ASSUME NEW output \in Outputs
      PROVE  source'[output] \in {"none", "idle", "user", "client", "control"}
  <2>1. source[output] \in {"none", "idle", "user", "client", "control"}
    BY DEF AskTypes
  <2> QED
    BY <1>2, <2>1
<1>5. source' \in [Outputs -> {"none", "idle", "user", "client", "control"}]
  BY <1>4 DEF Attributed
<1> QED
  BY <1>1, <1>2, <1>3, <1>5

\* Turning on everything that is blanked, by activity, by the user or by an inhibitor
\* that may, leaves nothing that the compositor turned off.
LEMMA WakeKeeps ==
    ASSUME PowerInv, NEW party \in {"user", "inhibitor"}, party = "inhibitor" => ~manual,
           Queue(blanked, {}, party), WakeBlanked,
           UNCHANGED <<scanouts, powered, connected>>
    PROVE  PowerInv'
<1>1. /\ requests' \in [Outputs -> Asked]
      /\ source' \in [Outputs -> {"none", "idle", "user", "client", "control"}]
      /\ \A output \in Outputs :
            /\ output \notin blanked => requests'[output] = requests[output] /\ source'[output] = source[output]
            /\ output \in blanked /\ party # "inhibitor" => source'[output] = "none"
            /\ output \in blanked /\ party = "inhibitor" =>
                   source'[output] = IF source[output] = "user" THEN "user" ELSE "none"
  BY QueueAt DEF Queue, PowerInv
<1>2. AskTypes'
  BY <1>1 DEF PowerInv, AskTypes, WakeBlanked
<1>3. ASSUME NEW output \in scanouts PROVE Remembered(output)' /\ Kept(output)'
  <2>1. Remembered(output) /\ Kept(output) /\ output \in Outputs
    BY DEF PowerInv, AskTypes
  <2>2. CASE output \in blanked
    <3>1. source'[output] = "none"
      BY <1>1, <2>1, <2>2 DEF Kept
    <3> QED
      BY <3>1 DEF Remembered, Kept
  <2>3. CASE output \notin blanked
    BY <1>1, <2>1, <2>3 DEF Remembered, Kept
  <2> QED
    BY <2>2, <2>3
<1> QED
  BY <1>2, <1>3 DEF PowerInv

\* Turning on nothing.
LEMMA NothingQueued ==
    ASSUME AskTypes, NEW party \in {"user", "idle", "inhibitor"}, Queue({}, {}, party)
    PROVE  requests' = requests /\ source' = source
<1>1. /\ requests' \in [Outputs -> Asked]
      /\ source' \in [Outputs -> {"none", "idle", "user", "client", "control"}]
      /\ \A output \in Outputs : requests'[output] = requests[output] /\ source'[output] = source[output]
  BY QueueAt DEF Queue
<1> QED
  BY <1>1 DEF AskTypes

\* Turning off outputs and remembering them, for the policy or for the user.
LEMMA BlankKeeps ==
    ASSUME PowerInv, NEW party \in {"idle", "user"}, NEW off, off \subseteq scanouts,
           Queue({}, off, party), off \subseteq blanked', blanked \cap scanouts \subseteq blanked',
           manual' \in BOOLEAN, manual => manual', party = "user" /\ off # {} => manual',
           UNCHANGED <<scanouts, powered, connected>>
    PROVE  PowerInv'
<1>1. /\ requests' \in [Outputs -> Asked]
      /\ source' \in [Outputs -> {"none", "idle", "user", "client", "control"}]
      /\ \A output \in Outputs :
            /\ output \in off => requests'[output] = "off" /\ source'[output] = party
            /\ output \notin off => requests'[output] = requests[output] /\ source'[output] = source[output]
  BY QueueAt DEF Queue, PowerInv
<1>2. AskTypes'
  BY <1>1 DEF PowerInv, AskTypes
<1>3. ASSUME NEW output \in scanouts PROVE Remembered(output)' /\ Kept(output)'
  <2>1. Remembered(output) /\ Kept(output) /\ output \in Outputs
    BY DEF PowerInv, AskTypes
  <2>2. CASE output \in off
    BY <1>1, <2>1, <2>2 DEF Remembered, Kept
  <2>3. CASE output \notin off
    BY <1>1, <2>1, <2>3 DEF Remembered, Kept
  <2> QED
    BY <2>2, <2>3
<1> QED
  BY <1>2, <1>3 DEF PowerInv

\* Requests of clients and of configurations: the outputs they name are theirs.
LEMMA OthersKeep ==
    ASSUME PowerInv, NEW party \in {"client", "control"}, NEW on, NEW off, on \cap off = {},
           requests' = Queued(requests, on, off), source' = Attributed(on, off, party),
           \A output \in scanouts \ (on \cup off) : output \in blanked => output \in blanked',
           UNCHANGED <<scanouts, powered, connected, manual>>
    PROVE  PowerInv'
<1>1. /\ requests' \in [Outputs -> Asked]
      /\ source' \in [Outputs -> {"none", "idle", "user", "client", "control"}]
      /\ \A output \in Outputs :
            /\ output \in off => source'[output] = party
            /\ output \in on => source'[output] = "none"
            /\ output \notin on \cup off => requests'[output] = requests[output] /\ source'[output] = source[output]
  BY QueueAt DEF PowerInv
<1>2. AskTypes'
  BY <1>1 DEF PowerInv, AskTypes
<1>3. ASSUME NEW output \in scanouts PROVE Remembered(output)' /\ Kept(output)'
  <2>1. Remembered(output) /\ Kept(output) /\ output \in Outputs
    BY DEF PowerInv, AskTypes
  <2>2. CASE output \in on \cup off
    BY <1>1, <2>1, <2>2 DEF Remembered, Kept
  <2>3. CASE output \notin on \cup off
    BY <1>1, <2>1, <2>3 DEF Remembered, Kept
  <2> QED
    BY <2>2, <2>3
<1> QED
  BY <1>2, <1>3 DEF PowerInv

\* Steps that touch none of this.
LEMMA UnchangedKeeps ==
    ASSUME PowerInv, UNCHANGED <<scanouts, powered, requests, source, blanked, manual>>,
           connected' \subseteq Outputs
    PROVE  PowerInv'
BY DEF PowerInv, AskTypes, Remembered, Kept

\* apply_output_power_requests: `off' are the outputs it turns off, `waiting' those
\* that stay in the queue, `failed' those KMS refused.
LEMMA ApplyKeeps ==
    ASSUME PowerInv, NEW off, NEW waiting, NEW failed,
           off \cup waiting \cup failed = TurnOff, waiting \cap (off \cup failed) = {},
           requests' = Queued(Nothing, {}, waiting),
           powered' = (powered \ off) \cup TurnOn,
           Failed(Unknown \cup failed),
           UNCHANGED <<scanouts, connected>>
    PROVE  PowerInv'
<1>1. /\ requests' \in [Outputs -> Asked]
      /\ \A output \in Outputs : requests'[output] = IF output \in waiting THEN "off" ELSE "none"
  BY DEF Queued, Nothing, Asked
<1>2. /\ source' \in [Outputs -> {"none", "idle", "user", "client", "control"}]
      /\ \A output \in scanouts : source'[output] = IF output \in failed THEN "none" ELSE source[output]
      /\ \A output \in scanouts \ failed : output \in blanked => output \in blanked'
      /\ manual' = manual
  BY DEF Failed, Forget, Unknown, PowerInv, AskTypes
<1>3. AskTypes'
  BY <1>1, <1>2 DEF PowerInv, AskTypes, TurnOn, Wanting
<1>4. ASSUME NEW output \in scanouts PROVE Remembered(output)' /\ Kept(output)'
  <2>1. /\ Remembered(output) /\ Kept(output) /\ output \in Outputs
        /\ output \in TurnOff <=> requests[output] = "off" /\ output \in powered
        /\ output \in TurnOn <=> requests[output] = "on" /\ output \notin powered
    BY DEF PowerInv, AskTypes, TurnOff, TurnOn, Wanting
  <2>2. CASE output \in failed
    BY <1>2, <2>2 DEF Remembered, Kept
  <2>3. CASE output \notin failed
    BY <1>1, <1>2, <2>1, <2>3 DEF Remembered, Kept
  <2> QED
    BY <2>2, <2>3
<1> QED
  BY <1>3, <1>4 DEF PowerInv

\* Every action keeps the invariant.
LEMMA NextKeeps == PowerInv /\ [Next]_vars => PowerInv'
<1> SUFFICES ASSUME PowerInv, [Next]_vars PROVE PowerInv'
  OBVIOUS
<1>0. AskTypes /\ connected \subseteq Outputs
  BY DEF PowerInv, AskTypes
<1>1. CASE Activity
  BY <1>1, WakeKeeps DEF Activity, NoteActivity
<1>2. CASE PowerKey \/ Inhibit \/ ClientAsks \/ Replug \/ Rebases
  BY <1>0, <1>2, UnchangedKeeps DEF PowerKey, Inhibit, ClientAsks, Replug, Rebases
<1>3. CASE TimePasses \/ FlipArrives
  BY <1>0, <1>3, UnchangedKeeps DEF TimePasses, FlipArrives, Elapses
<1>4. CASE Top
  <2>1. CASE Collect
    <3> DEFINE asked == {output \in Outputs : pending[output] # "none"}
               on == {output \in asked : pending[output] = "on"}
               off == asked \ on
    <3>1. /\ requests' = Queued(requests, on, off) /\ source' = Attributed(on, off, "client")
          /\ blanked' = blanked \ asked /\ manual' = manual
      BY <2>1 DEF Collect, Forget
    <3>2. on \cap off = {} /\ on \cup off = asked
      OBVIOUS
    <3> HIDE DEF asked, on, off
    <3> QED
      BY <1>4, <3>1, <3>2, OthersKeep DEF Top
  <2>2. CASE UNCHANGED <<policyVars, askVars>>
    BY <1>0, <1>4, <2>2, UnchangedKeeps DEF Top
  <2> QED
    BY <1>4, <2>1, <2>2 DEF Top
<1>5. CASE Idle
  <2>1. CASE inhibitor /\ ~manual
    BY <1>5, <2>1, WakeKeeps DEF Idle, EvaluateInhibited, InhibitedWake
  <2>2. CASE inhibitor /\ manual
    <3>1. Queue({}, {}, "inhibitor") /\ UNCHANGED <<blanked, manual>>
      BY <1>5, <2>2 DEF Idle, EvaluateInhibited, InhibitedWake
    <3> QED
      BY <1>0, <1>5, <3>1, NothingQueued, UnchangedKeeps DEF Idle
  <2>3. CASE ~inhibitor
    <3>1. /\ Queue({}, IdleOff(scanouts, powered), "idle") /\ manual' = manual
          /\ blanked' = (blanked \cap scanouts) \cup IdleOff(scanouts, powered)
      BY <1>5, <2>3 DEF Idle, Evaluate
    <3>2. IdleOff(scanouts, powered) \subseteq scanouts
      BY DEF IdleOff, PowerInv, AskTypes
    <3> QED
      BY <1>0, <1>5, <3>1, <3>2, BlankKeeps DEF Idle, AskTypes
  <2> QED
    BY <2>1, <2>2, <2>3
<1>6. CASE IdleLater
  BY <1>0, <1>6, UnchangedKeeps DEF IdleLater
<1>7. CASE Button
  <2>1. CASE Effective # {}
    <3>1. /\ Queue({}, NewlyBlanked(Effective), "user") /\ blanked' = blanked \cup Effective
          /\ manual' = (manual \/ NewlyBlanked(Effective) # {})
      BY <1>7, <2>1 DEF Button, ToggleOff, BlankNow
    <3>2. NewlyBlanked(Effective) \subseteq scanouts /\ NewlyBlanked(Effective) \subseteq Effective
      BY DEF NewlyBlanked, Effective
    <3> QED
      BY <1>0, <1>7, <3>1, <3>2, BlankKeeps DEF Button, AskTypes
  <2>2. CASE Effective = {}
    <3>1. Queue(scanouts, {}, "user") /\ manual' = FALSE
      BY <1>7, <2>2 DEF Button, ToggleOn, WakeBlanked
    <3>2. /\ requests' \in [Outputs -> Asked]
          /\ source' \in [Outputs -> {"none", "idle", "user", "client", "control"}]
          /\ \A output \in scanouts : source'[output] = "none"
      BY <1>0, <3>1, QueueAt DEF Queue, AskTypes
    <3> QED
      BY <1>7, <3>1, <3>2 DEF Button, PowerInv, AskTypes, Remembered, Kept
  <2> QED
    BY <2>1, <2>2
<1>8. CASE PowerOffWaits
  <2>1. /\ requests' = Queued(Nothing, {}, TurnOff) /\ powered' = (powered \ {}) \cup TurnOn
        /\ Failed(Unknown \cup {}) /\ UNCHANGED <<scanouts, connected>>
    BY <1>8 DEF PowerOffWaits, PowerChanges
  <2> QED
    BY <2>1, ApplyKeeps
<1>9. CASE PowerOffFails
  <2>1. /\ powered' = (powered \ {}) \cup TurnOn
        /\ Failed(Unknown \cup TurnOff) /\ UNCHANGED <<scanouts, connected>>
    BY <1>9 DEF PowerOffFails, PowerChanges
  <2>2. requests' = Queued(Nothing, {}, {})
    BY <1>9 DEF PowerOffFails, Nothing, Queued
  <2> QED
    BY <2>1, <2>2, ApplyKeeps
<1>10. CASE PowerApplied
  <2>1. /\ powered' = (powered \ TurnOff) \cup TurnOn
        /\ Failed(Unknown \cup {}) /\ UNCHANGED <<scanouts, connected>>
    BY <1>10 DEF PowerApplied, PowerChanges
  <2>2. requests' = Queued(Nothing, {}, {})
    BY <1>10 DEF PowerApplied, Nothing, Queued
  <2> QED
    BY <2>1, <2>2, ApplyKeeps
<1>11. CASE ControlApply
  <2>1. PICK on \in SUBSET scanouts : Queue(on, scanouts \ on, "control")
    BY <1>11 DEF ControlApply
  <2> QED
    BY <1>11, <2>1, OthersKeep DEF ControlApply, Queue
<1>12. CASE TrialEnds
  <2>1. CASE UNCHANGED askVars
    BY <1>0, <1>12, <2>1, UnchangedKeeps DEF TrialEnds
  <2>2. ASSUME NEW on, NEW off, on = {output \in Outputs : rollback[output] = "on"},
               off = {output \in Outputs : rollback[output] = "off"}, Queue(on, off, "control")
        PROVE  PowerInv'
    BY <1>12, <2>2, OthersKeep DEF TrialEnds, Queue
  <2> QED
    BY <1>12, <2>1, <2>2 DEF TrialEnds
<1>13. CASE NoRescan
  BY <1>0, <1>13, UnchangedKeeps DEF NoRescan
<1>14. CASE Defer \/ NothingConnected \/ Drain \/ NothingChanged
  BY <1>0, <1>14, UnchangedKeeps DEF Defer, NothingConnected, Drain, NothingChanged, Rescan
<1>15. CASE Rebuild
  <2>1. /\ scanouts' = connected /\ powered' = connected \ (scanouts \ powered)
        /\ source' = [output \in Outputs |-> IF output \in connected \cap scanouts
                                             THEN source[output] ELSE "none"]
        /\ UNCHANGED <<connected, requests, blanked, manual>>
    BY <1>15 DEF Rebuild, Rescan
  <2>2. AskTypes'
    BY <2>1 DEF PowerInv, AskTypes
  <2>3. ASSUME NEW output \in connected PROVE Remembered(output)' /\ Kept(output)'
    BY <1>0, <2>1 DEF PowerInv, Remembered, Kept
  <2> QED
    BY <2>1, <2>2, <2>3 DEF PowerInv
<1>16. CASE ShellConfigures
  <2>1. PICK new \in Policies : Configure(new) /\ Queue(IF new["dpms"] = Never THEN blanked ELSE {}, {}, "user")
    BY <1>16 DEF ShellConfigures
  <2>2. CASE new["dpms"] = Never
    BY <1>16, <2>1, <2>2, WakeKeeps DEF ShellConfigures, Configure
  <2>3. CASE new["dpms"] # Never
    <3>1. Queue({}, {}, "user") /\ UNCHANGED <<blanked, manual>>
      BY <2>1, <2>3 DEF Configure
    <3> QED
      BY <1>0, <1>16, <3>1, NothingQueued, UnchangedKeeps DEF ShellConfigures
  <2> QED
    BY <2>2, <2>3
<1>17. CASE ShellBlanks
  <2>1. /\ Queue({}, NewlyBlanked(powered), "user") /\ blanked' = blanked \cup powered
        /\ manual' = (manual \/ NewlyBlanked(powered) # {})
    BY <1>17 DEF ShellBlanks, BlankNow
  <2>2. NewlyBlanked(powered) \subseteq scanouts /\ NewlyBlanked(powered) \subseteq powered
    BY DEF NewlyBlanked, PowerInv, AskTypes
  <2> QED
    BY <1>0, <1>17, <2>1, <2>2, BlankKeeps DEF ShellBlanks, AskTypes
<1>18. CASE UNCHANGED vars
  BY <1>0, <1>18, UnchangedKeeps DEF vars
<1> QED
  BY <1>1, <1>2, <1>3, <1>4, <1>5, <1>6, <1>7, <1>8, <1>9, <1>10, <1>11, <1>12, <1>13, <1>14,
     <1>15, <1>16, <1>17, <1>18 DEF Next, Callback, Pass

\* At the start nothing is off.
LEMMA InitKeeps == Init => PowerInv
BY DEF Init, PolicyInit, PowerInv, AskTypes, Remembered, Kept, Nothing, Asked

\* An output that evaluate, the power button or the shell's screen-off turned off, or
\* is about to, is one that the next note_activity turns on again: for any number
\* of outputs and events.
THEOREM BlankRemembered == Spec => []BlankIsRemembered
<1>1. PowerInv => BlankIsRemembered
  BY DEF PowerInv, Remembered, BlankIsRemembered
<1> QED
  BY <1>1, InitKeeps, NextKeeps, PTL DEF Spec

\* What the user turned off stays off until the user, a client or a configuration
\* asks for it, whatever inhibits idling (toggle_now, blank_now).
THEOREM UserOffKept == Spec => []UserOffIsKept
<1>1. PowerInv => UserOffIsKept
  BY DEF PowerInv, Kept, UserOffIsKept
<1> QED
  BY <1>1, InitKeeps, NextKeeps, PTL DEF Spec

=============================================================================
