--------------------------- MODULE MCRetryLineage ---------------------------
(* RetryLineage on small instances.                                        *)
EXTENDS RetryLineage, TLC

CONSTANTS k1, k2, k3, k4, h1, h2, f1, f2, f3

Permit == [decision |-> "permit", missing |-> FALSE, broken |-> FALSE]
Replay == [decision |-> "retry_game", missing |-> TRUE, broken |-> FALSE]
Broken == [decision |-> "retry_field", missing |-> TRUE, broken |-> TRUE]

TwoHandlers == {h1, h2}
TwoKeys == {k1, k2}
FourKeys == {k1, k2, k3, k4}
TwoEcologies == {f1, f2}
ThreeEcologies == {f1, f2, f3}

AnyReview == {Permit, Replay, Broken}
AnyFailure == {Replay, Broken}
OnlyReplay == {Replay}

Symmetry == Permutations(Handlers) \cup Permutations(Keys) \cup Permutations(Fingerprints)
=============================================================================
