----------------------------- MODULE MCBackfill -----------------------------
(* Instances of Backfill for TLC. *)
EXTENDS Backfill

CONSTANTS a, b

Everything == [s \in Symbol |-> Session]
\* The second symbol did not trade in the second session.
Thin == [s \in Symbol |-> IF s = b THEN Session \ {2} ELSE Session]
=============================================================================
