------------------------- MODULE MCSynthesisBudget -------------------------
(* Instances of SynthesisBudget for TLC. *)
EXTENDS SynthesisBudget, TLC

CONSTANTS r1, r2, packet

TwoUnits == (packet :> 2)
AboveEstimate == (packet :> {1, 3})
WithinEstimate == (packet :> {1, 2})
Invocations == Permutations({r1, r2})
=============================================================================
