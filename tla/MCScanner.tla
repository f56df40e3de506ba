----------------------------- MODULE MCScanner -----------------------------
(* Instances of Scanner for TLC. *)
EXTENDS Scanner, TLC

CONSTANTS p1, p2, x1, x2

OneSymbol == <<"a">>
TwoSymbols == <<"a", "b">>
Kinds == Permutations({p1, p2}) \union Permutations({x1, x2})
=============================================================================
