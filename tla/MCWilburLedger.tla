---------------------------- MODULE MCWilburLedger ----------------------------
(* WilburLedger on a small instance: one suggestion of Charlotte, two keys   *)
(* and two requests at once.                                                 *)
EXTENDS WilburLedger, TLC

CONSTANTS h1, h2, k1, k2, s1

TwoHandlers == {h1, h2}
TwoKeys == {k1, k2}
OneSuggestion == {s1}

Asked(op, revision, status) ==
  [op |-> op, on |-> s1, revision |-> revision, status |-> status]
OneOfEach ==
  {Asked("create_action", 0, "planned"),
   Asked("update_action", 0, "in_progress"),
   Asked("append_observation", 0, "planned")}

Symmetry == Permutations(Handlers) \cup Permutations(Keys)
=============================================================================
