--------------------------- MODULE MCDivisionRoute ---------------------------
(* DivisionRoute on a small instance: one division asked for twice at once. *)
EXTENDS DivisionRoute

CONSTANTS d1, c1, c2, v1

OneDivision == {d1}
TwoDivides == {c1, c2}
OnePoll == {v1}
=============================================================================
