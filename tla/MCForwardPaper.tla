--------------------------- MODULE MCForwardPaper ---------------------------
(* One paper account small enough to explore completely.                   *)
EXTENDS ForwardPaper

CONSTANTS c1, c2

OneCand == {c1}
TwoCand == {c1, c2}
=============================================================================
