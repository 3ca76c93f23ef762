--------------------------- MODULE MCReconfiguration --------------------------
(***************************************************************************)
(* Configurations of the instances of Reconfiguration that TLC checks: two *)
(* outputs, one request that only moves them in the desktop and one that   *)
(* gives the first another mode and disables the second.                   *)
(***************************************************************************)
EXTENDS Reconfiguration

On(m, p) == [hw |-> m, place |-> p]

\* Both outputs are on when the session starts.
BootLayout == [o \in Outputs |-> On("m1", "p1")]

TwoLayouts == {[o \in Outputs |-> On("m1", "p2")],
               [o \in Outputs |-> On(IF o = 1 THEN "m2" ELSE Off, "p1")]}

=============================================================================
