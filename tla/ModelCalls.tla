----------------------------- MODULE ModelCalls -----------------------------
(***************************************************************************)
(* What the usage ledger promises about paid model calls, without slots,   *)
(* leases, buckets or clocks: a call waits, is made, and is won or lost,   *)
(* once; at most Limit calls are alive, and one of each user.  Calls are   *)
(* lost in groups, because one transaction may find several of them dead,  *)
(* and an admission or a deletion may find them too.                       *)
(***************************************************************************)
EXTENDS Integers, FiniteSets

CONSTANTS
  Calls,    \* ids of calls
  Callers,  \* users
  Nobody,   \* the owner of a call that does not exist
  Limit     \* how many calls may be alive at once

VARIABLES
  stage,    \* call -> where it is
  owner     \* call -> who asked for it

callVars == <<stage, owner>>

Alive == {c \in Calls : stage[c] \in {"waiting", "calling"}}

Losing(lost) == [c \in Calls |-> IF c \in lost THEN "lost" ELSE stage[c]]

Init ==
  /\ stage = [c \in Calls |-> "none"]
  /\ owner = [c \in Calls |-> Nobody]

Admit(c, u, lost) ==
  /\ stage[c] = "none"
  /\ Cardinality(Alive \ lost) < Limit
  /\ \A other \in Alive \ lost : owner[other] # u
  /\ stage' = [Losing(lost) EXCEPT ![c] = "waiting"]
  /\ owner' = [owner EXCEPT ![c] = u]

Call(c) ==
  /\ stage[c] = "waiting"
  /\ stage' = [stage EXCEPT ![c] = "calling"]
  /\ UNCHANGED owner

Win(c) ==
  /\ stage[c] = "calling"
  /\ stage' = [stage EXCEPT ![c] = "won"]
  /\ UNCHANGED owner

Lose(lost) ==
  /\ stage' = Losing(lost)
  /\ UNCHANGED owner

Forget(u, lost) ==
  /\ stage' = [c \in Calls |-> IF owner[c] = u THEN "gone" ELSE Losing(lost)[c]]
  /\ owner' = [c \in Calls |-> IF owner[c] = u THEN Nobody ELSE owner[c]]

Next ==
  \/ \E c \in Calls : Call(c) \/ Win(c)
  \/ \E lost \in SUBSET Alive :
       \/ Lose(lost)
       \/ \E c \in Calls, u \in Callers : Admit(c, u, lost)
       \/ \E u \in Callers : Forget(u, lost)

Spec == Init /\ [][Next]_callVars
=============================================================================
