---------------------------- MODULE MCDisplayPower ----------------------------
(***************************************************************************)
(* Constants of the DisplayPower runs.                                     *)
(***************************************************************************)
EXTENDS DisplayPower

\* All timeouts at the first idle step, and a policy that only locks.
TwoPolicies == {[lock |-> 1, dpms |-> 1, suspend |-> 1], [lock |-> 1, dpms |-> 2, suspend |-> 2]}
===============================================================================
