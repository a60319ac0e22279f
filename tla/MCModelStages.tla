--------------------------- MODULE MCModelStages ---------------------------
(* ModelStages on small instances.                                         *)
EXTENDS ModelStages

CONSTANTS r1, r2, r3, r4, h1, h2

Permit == [decision |-> "permit", missing |-> FALSE, broken |-> FALSE]
Deny == [decision |-> "deny", missing |-> TRUE, broken |-> FALSE]
Replay == [decision |-> "retry_game", missing |-> TRUE, broken |-> FALSE]

TwoHandlers == {h1, h2}
TwoRequests == {r1, r2}
FourRequests == {r1, r2, r3, r4}

AnyReview == {Permit, Deny, Replay}

Symmetry == Permutations(Handlers) \cup Permutations(Requests)
=============================================================================
