----------------------------- MODULE Lifecycle -----------------------------
(***************************************************************************)
(* The pure policy of src/lib/lifecycle: the table of legal state changes  *)
(* (state-machine.ts), what a Gate decides about a review (gate.ts), and   *)
(* what Retry decides about a failed Gate (retry.ts).  No variables: the   *)
(* modules that keep lifecycle rows read these operators.                  *)
(***************************************************************************)
EXTENDS Naturals

Transitions == [
  anansi_pending        |-> {"anansi_running", "abandoned"},
  anansi_running        |-> {"field_ready", "abandoned"},
  field_ready           |-> {"chess_ready", "abandoned"},
  chess_ready           |-> {"chess_playing", "abandoned"},
  chess_playing         |-> {"chess_terminal", "abandoned"},
  chess_terminal        |-> {"portia_pending", "abandoned"},
  portia_pending        |-> {"portia_running", "abandoned"},
  portia_running        |-> {"portia_complete", "portia_pending", "portia_unavailable", "abandoned"},
  portia_unavailable    |-> {"abandoned"},
  portia_complete       |-> {"gate_passed", "gate_failed", "abandoned"},
  gate_passed           |-> {"charlotte_pending", "abandoned"},
  gate_failed           |-> {"retry_ready", "insufficient_basis", "abandoned"},
  retry_ready           |-> {"retry_running", "insufficient_basis", "abandoned"},
  retry_running         |-> {"anansi_pending", "chess_ready", "insufficient_basis", "abandoned"},
  charlotte_pending     |-> {"charlotte_running", "abandoned"},
  charlotte_running     |-> {"charlotte_complete", "charlotte_pending", "charlotte_unavailable",
                             "abandoned"},
  charlotte_unavailable |-> {"abandoned"},
  charlotte_complete    |-> {"wilbur_planning", "abandoned"},
  wilbur_planning       |-> {"wilbur_in_progress", "wilbur_observed", "abandoned"},
  wilbur_in_progress    |-> {"wilbur_observed", "abandoned"},
  wilbur_observed       |-> {"wilbur_in_progress", "abandoned"},
  insufficient_basis    |-> {"retry_ready", "abandoned"},
  abandoned             |-> {}]

LifecycleStates == DOMAIN Transitions

CanTransition(from, to) == from = to \/ to \in Transitions[from]

-----------------------------------------------------------------------------
(* The Gate.  A review is Portia's decision about the answer prompt,       *)
(* whether one of the other sufficiency requirements is missing, and       *)
(* whether the field looks broken.                                         *)

Decisions == {"permit", "deny", "retry_game", "retry_field"}

Review == [decision : Decisions, missing : BOOLEAN, broken : BOOLEAN]

SameFieldReplays == 2
FieldRegenerations == 1

Passes(review) == review.decision = "permit" /\ ~review.missing

(* Mutant: the Gate gives up on a field that could still be woven anew.     *)
FieldOrStop_Never(regenerations) == "insufficient_basis"

FieldOrStop(regenerations) ==
  IF regenerations < 1 THEN "retry_field" ELSE "insufficient_basis"

(* evaluateGate's recommendedNextTransition.                               *)
Recommend(review, replays, regenerations) ==
  LET fieldSpent == replays >= 2
      fieldAtFault == \/ review.decision \in {"deny", "retry_field"}
                      \/ review.decision = "permit" /\ review.broken
  IN  CASE Passes(review)             -> "answer"
        [] ~Passes(review) /\ (fieldAtFault \/ fieldSpent) -> FieldOrStop(regenerations)
        [] OTHER                      -> "retry_game"

-----------------------------------------------------------------------------
(* The Retry policy.                                                       *)

Modes == {"replay_game", "regenerate_field"}

(* decideRetry, for a Gate that failed.                                    *)
DecideRetry(recommendation, replays, regenerations, duplicate) ==
  LET mayRegenerate == regenerations < FieldRegenerations
      fieldRequired == duplicate \/ recommendation = "retry_field"
      mayReplay == /\ recommendation = "retry_game"
                   /\ ~fieldRequired
                   /\ replays < SameFieldReplays
  IN  CASE recommendation = "insufficient_basis" -> "insufficient_basis"
        [] recommendation # "insufficient_basis" /\ mayReplay -> "replay_game"
        [] recommendation # "insufficient_basis" /\ ~mayReplay /\ mayRegenerate -> "regenerate_field"
        [] OTHER -> "insufficient_basis"

(* canReopenInsufficientBasis, for a run with a prompt-bound review.       *)
CanReopen(state, regenerations) ==
  state = "insufficient_basis" /\ regenerations < FieldRegenerations
=============================================================================
