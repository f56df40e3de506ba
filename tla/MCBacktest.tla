----------------------------- MODULE MCBacktest -----------------------------
(* Instances of Backtest for TLC. *)
EXTENDS Backtest

\* Symbol 1 has every bar, symbol 2 stopped trading, symbol 3 was never imported.
Stored == <<0 .. 4, {1, 2}, {}>>
Every == <<0 .. 6, 0 .. 6>>
Limits == <<2, 1>>
Capital == <<2, 1>>
Half == <<5, 5>>
Swings == {-10, 10}
Lone == <<3>>
Ten == <<10>>
Four == <<4>>
=============================================================================
