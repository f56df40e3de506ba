--------------------------- MODULE MCPaperEngine ---------------------------
(* Instances of PaperEngine for TLC. *)
EXTENDS PaperEngine, TLC

CONSTANTS i1, i2

OneInstr == {i1}
TwoInstr == {i1, i2}
Symbols == Permutations(TwoInstr)

C(l, c, h) == [low |-> l, close |-> c, high |-> h]

\* A slide of two bars and its recovery, far from any stop.
Slide == {C(8, 8, 8), C(7, 7, 7), C(6, 6, 6)}
\* A bar up and one whose low crosses the stop of an entry on the first.
UpDown == {C(5, 5, 6), C(2, 3, 3)}
=============================================================================
