---------------------------- MODULE MCPresentation ----------------------------
(***************************************************************************)
(* Power requests of the instances of Presentation that TLC checks.        *)
(***************************************************************************)
EXTENDS Presentation

\* No output is ever powered off.
NoPowerRequests == {}

\* Every output is powered off and on again.
AllPowerRequests == Outputs \X {"on", "off"}

\* Outputs go off, several possibly in one batch, and stay off.
OffRequests == Outputs \X {"off"}

=============================================================================
