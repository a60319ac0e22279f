----------------------- MODULE UsageLedgerRefinement -----------------------
(***************************************************************************)
(* UsageLedger implements ModelCalls: whatever its slots, leases, buckets  *)
(* and clocks do, a caller sees calls that are admitted within the limits, *)
(* made, and decided once.                                                 *)
(***************************************************************************)
EXTENDS UsageLedger

(* model_requests.status as a caller understands it.                       *)
Stage(status) ==
  CASE status = "absent"      -> "none"
    [] status = "erased"      -> "gone"
    [] status = "reserved"    -> "waiting"
    [] status = "in_progress" -> "calling"
    [] status = "succeeded"   -> "won"
    [] OTHER                  -> "lost"

Promise == INSTANCE ModelCalls WITH
  Calls <- Requests, Callers <- Users, Nobody <- None, Limit <- SlotLimit,
  stage <- [r \in Requests |-> Stage(requests[r].status)],
  owner <- [r \in Requests |-> requests[r].user]

(* Every transaction of the ledger is a step of ModelCalls: it admits a    *)
(* call only under the deployment's and the user's limit of live calls     *)
(* (usage/queries.ts:1176-1200 chooses a slot, and counts no rows), starts *)
(* a call once, decides it once, and forgets a user's calls all together.  *)
ImplementsModelCalls == Promise!Spec
=============================================================================
