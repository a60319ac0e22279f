----------------------------- MODULE MCGameStore -----------------------------
(* GameStore on small instances.                                           *)
EXTENDS GameStore, TLC

CONSTANTS g1, g2, g3, k1, k2, h1, h2, a1

ThreeGames == {g1, g2, g3}
TwoKeys == {k1, k2}
TwoHandlers == {h1, h2}
OneAnswer == {a1}
FinalPass == {<<FALSE>>, <<TRUE>>, <<FALSE, TRUE>>}

(* Bound: two tabs with keys of their own in two games, or with one key in  *)
(* three.                                                                  *)
InUse ==
  {k \in MoveKeys : (\E g \in GameIds : acked[g][k] # None)
                      \/ (\E h \in Handlers : handler[h] # Idle /\ handler[h].key = k)}
Bounded == Cardinality({g \in GameIds : Exists(g)}) + Cardinality(InUse) <= 4

Symmetry == Permutations(GameIds) \cup Permutations(MoveKeys) \cup Permutations(Handlers)
=============================================================================
