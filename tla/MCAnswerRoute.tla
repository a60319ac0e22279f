---------------------------- MODULE MCAnswerRoute ----------------------------
(* AnswerRoute on small instances.                                         *)
EXTENDS AnswerRoute, TLC

CONSTANTS k1, k2, h1, h2

ThreeGames == {Game, Other, Upcoming}
TwoKeys == {k1, k2}
TwoRoutes == {h1, h2}
Symmetry == Permutations(TwoKeys) \cup Permutations(TwoRoutes)
=============================================================================
