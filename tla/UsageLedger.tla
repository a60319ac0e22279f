---------------------------- MODULE UsageLedger ----------------------------
(***************************************************************************)
(* The durable usage ledger of src/server/usage: every paid model call is  *)
(* admitted, started, settled, released or expired here.  Each exported    *)
(* controller method is one PostgreSQL transaction that first takes the    *)
(* advisory lock webchess-usage-reservation-v1, so each is one action.     *)
(*                                                                         *)
(* State: model_requests (requests), model_concurrency_slots (slots), the  *)
(* user and global usage_buckets (userModel, userGames, globalModel),      *)
(* user_controls with deleted_user_tombstones (account), and the rows of   *)
(* games the ledger's foreign keys refer to (shells: a game is named by    *)
(* the division request that created it).                                  *)
(*                                                                         *)
(* Abstracted: a lease token stands and falls with the slot's request and  *)
(* is not a variable; hourly rate windows and temporary blocks are the     *)
(* nondeterministic refusal ReserveRefused; tokens, digests and payloads   *)
(* of a result are left out; per-user quota overrides are not set.         *)
(***************************************************************************)
EXTENDS Integers, FiniteSets

CONSTANTS
  Users,         \* clerk_user_id values
  Requests,      \* model request ids; also the ids of the games they create
  Keys,          \* idempotency keys
  Operations,    \* the model operations in play, a subset of AllOperations
  None,          \* SQL NULL
  SlotLimit,     \* config.globalModelConcurrentLimit
  ModelLimit,    \* config.dailyModelRequestLimit
  GlobalLimit,   \* config.dailyGlobalModelRequestLimit
  GameLimit,     \* config.dailyGameLimit
  LeaseTicks,    \* config.modelLeaseSeconds
  AnswerTicks,   \* ANSWER_OPERATION_TIMEOUT_MS
  Headroom,      \* MODEL_SETTLEMENT_HEADROOM_MS
  DayTicks,      \* length of a UTC day
  MaxWait,       \* bound: how stale requestedAt may be once the lock is held
  MaxTurns,      \* provider turns of one request (initial and corrective)
  MaxTime,       \* bound on the clock
  LastReserve    \* bound: no reservation is requested after this instant

AllOperations == {"division", "answer", "portia", "charlotte"}

ASSUME ConstantsAssumption ==
  /\ None \notin Requests \cup Users \cup Keys \cup AllOperations
  /\ IsFiniteSet(Requests)
  /\ Operations \subseteq AllOperations
  /\ SlotLimit \in Nat \ {0}
  /\ {ModelLimit, GlobalLimit, GameLimit} \subseteq Nat
  /\ {LeaseTicks, AnswerTicks, DayTicks, MaxTurns} \subseteq Nat \ {0}
  /\ {Headroom, MaxWait, MaxTime, LastReserve} \subseteq Nat

VARIABLES
  now,          \* clock_timestamp() read after the lock
  requests,     \* model_requests
  slots,        \* model_concurrency_slots
  userModel,    \* usage_buckets ('user', u, 'model_requests', day)
  userGames,    \* usage_buckets ('user', u, 'game_starts', day)
  globalModel,  \* usage_buckets ('global', 'deployment', 'model_requests', day)
  account,      \* user_controls and deleted_user_tombstones
  shells        \* games rows

buckets == <<userModel, userGames, globalModel>>
vars == <<now, requests, slots, userModel, userGames, globalModel, account, shells>>

-----------------------------------------------------------------------------
(* Rows.                                                                   *)

Slots == 1..SlotLimit
Times == 0..MaxTime
Day(t) == t \div DayTicks
Days == {Day(t) : t \in Times}

ActiveStatus == {"reserved", "in_progress"}
TerminalStatus == {"succeeded", "failed", "indeterminate", "rejected"}

(* "absent": the id was never used.  "erased": account deletion removed    *)
(* the row; ids are UUIDs and are not used again.                          *)
Status == {"absent", "erased"} \cup ActiveStatus \cup TerminalStatus

(* failure_code: the codes the ledger writes itself, and "reported" for    *)
(* whatever code a caller settles or releases with.                        *)
Failures == {"none", "reported", "released",
             "lease_expired_before_provider",
             "answer_operation_timeout_before_provider",
             "provider_outcome_unknown",
             "answer_operation_timeout",
             "operation_already_succeeded"}

Row == [status   : Status,
        user     : Users \cup {None},
        op       : AllOperations \cup {None},
        key      : Keys \cup {None},
        game     : Requests \cup {None},
        created  : Times,
        deadline : Int,               \* operation_deadline_at; 0 when NULL
        turns    : 0..MaxTurns,       \* > 0 iff provider_started_at is set
        failure  : Failures]

BlankRow(s) == [status |-> s, user |-> None, op |-> None, key |-> None,
                game |-> None, created |-> 0, deadline |-> 0, turns |-> 0,
                failure |-> "none"]

Slot == [request : Requests \cup {None}, expires : Nat]
FreeSlot == [request |-> None, expires |-> 0]

Bucket == [used : Nat, reserved : Nat]
EmptyBucket == [used |-> 0, reserved |-> 0]
EmptyDays == [d \in Days |-> EmptyBucket]

Accounts == {"unseen", "active", "suspended", "deletion_pending", "deleted"}

Stored(r) == requests[r].status \notin {"absent", "erased"}
Active(r) == requests[r].status \in ActiveStatus
Terminal(r) == requests[r].status \in TerminalStatus
DayOf(r) == Day(requests[r].created)

Holds(s, r) == slots[s].request = r
Held(r) == \E s \in Slots : Holds(s, r)

(* used = used + du, reserved = reserved + dr, both with greatest(..., 0). *)
Clamp(n) == IF n < 0 THEN 0 ELSE n
Move(b, du, dr) == [used |-> Clamp(b.used + du), reserved |-> Clamp(b.reserved + dr)]

Expired(deadlineOrLease) == deadlineOrLease <= now
PastDeadline(r) == requests[r].op = "answer" /\ Expired(requests[r].deadline)

-----------------------------------------------------------------------------
(* cleanupExpiredLeases: the first statement of every reservation and      *)
(* account deletion, and the whole of the watchdog's reconciliation.       *)

(* Mutant: only started work is reconciled.                                *)
Overdue_StartedOnly ==
  {r \in Requests : /\ requests[r].status = "in_progress"
                    /\ \E s \in Slots : Holds(s, r) /\ Expired(slots[s].expires)}

(* The requests whose slot lease, or logical Answer deadline, has passed.  *)
Overdue ==
  {r \in Requests : /\ Active(r)
                    /\ \E s \in Slots : /\ Holds(s, r)
                                        /\ Expired(slots[s].expires) \/ PastDeadline(r)}

OverdueOf(u, d, status) ==
  {r \in Overdue : /\ requests[r].user = u
                   /\ DayOf(r) = d
                   /\ requests[r].status = status}

OverdueOn(d) == {r \in Overdue : requests[r].status = "reserved" /\ DayOf(r) = d}

DivisionsIn(S) == {r \in S : requests[r].op = "division"}

(* Work that never reached the provider fails; started work has an unknown *)
(* outcome.                                                                *)
Lapse(row) ==
  IF row.status = "reserved"
  THEN [row EXCEPT !.status = "failed",
                   !.failure = IF row.op = "answer"
                               THEN "answer_operation_timeout_before_provider"
                               ELSE "lease_expired_before_provider"]
  ELSE [row EXCEPT !.status = "indeterminate",
                   !.failure = IF row.op = "answer"
                               THEN "answer_operation_timeout"
                               ELSE "provider_outcome_unknown"]

SweptRequests == [r \in Requests |-> IF r \in Overdue THEN Lapse(requests[r]) ELSE requests[r]]

SweptSlots == [s \in Slots |-> IF slots[s].request \in Overdue THEN FreeSlot ELSE slots[s]]

(* Mutant: a refund without its clamp, taken twice.                        *)
SweptUserModel_Twice ==
  [u \in Users |-> [d \in Days |->
    [userModel[u][d] EXCEPT !.reserved = @ - 2 * Cardinality(OverdueOf(u, d, "reserved"))]]]

SweptUserModel ==
  [u \in Users |-> [d \in Days |->
    Move(userModel[u][d], 0, -Cardinality(OverdueOf(u, d, "reserved")))]]

SweptGlobalModel ==
  [d \in Days |-> Move(globalModel[d], 0, -Cardinality(OverdueOn(d)))]

(* A started division is charged as a game start when its outcome is lost. *)
SweptUserGames ==
  [u \in Users |-> [d \in Days |->
    LET started == Cardinality(DivisionsIn(OverdueOf(u, d, "in_progress")))
        unsent  == Cardinality(DivisionsIn(OverdueOf(u, d, "reserved")))
    IN  Move(userGames[u][d], started, -(started + unsent))]]

Reconcile ==
  /\ Overdue # {}
  /\ requests' = SweptRequests
  /\ slots' = SweptSlots
  /\ userModel' = SweptUserModel
  /\ userGames' = SweptUserGames
  /\ globalModel' = SweptGlobalModel
  /\ UNCHANGED <<now, account, shells>>

-----------------------------------------------------------------------------
(* reserveModelRequest.                                                    *)

(* Mutant: a key is free again once its request has ended badly.           *)
Existing_Unfinished(u, op, k, g) ==
  \E x \in Requests :
    /\ Active(x) \/ requests[x].status = "succeeded"
    /\ requests[x].user = u /\ requests[x].op = op /\ requests[x].key = k

(* The row an idempotent retry finds: same key, or the operation already   *)
(* succeeded for the game.                                                 *)
Existing(u, op, k, g) ==
  \E x \in Requests :
    /\ Stored(x)
    /\ requests[x].user = u /\ requests[x].op = op
    /\ \/ requests[x].key = k
       \/ g # None /\ requests[x].game = g /\ requests[x].status = "succeeded"

OwnedShell(u, g) == g \in shells /\ requests[g].user = u

(* enabled slots that the sweep left free, lowest first.                   *)
FirstFree(held) ==
  {s \in Slots : /\ held[s].request = None
                 /\ \A t \in Slots : t < s => held[t].request # None}

(* Mutant: only a call under way bars its user from another.              *)
HasLease_Calling(u, at) ==
  \E s \in Slots : /\ SweptSlots[s].request # None
                   /\ requests[SweptSlots[s].request].user = u
                   /\ requests[SweptSlots[s].request].status = "in_progress"
                   /\ SweptSlots[s].expires > at

HasLease(u, at) ==
  \E s \in Slots : /\ SweptSlots[s].request # None
                   /\ requests[SweptSlots[s].request].user = u
                   /\ SweptSlots[s].expires > at

Spent(b) == b.used + b.reserved

WithinQuotas(u, op, d) ==
  /\ Spent(SweptUserModel[u][d]) < ModelLimit
  /\ Spent(SweptGlobalModel[d]) < GlobalLimit
  /\ op = "division" => Spent(SweptUserGames[u][d]) < GameLimit

(* An answer's lease is capped by its logical deadline plus the headroom.  *)
LeaseEnd(op, at, deadline) ==
  IF op = "answer" /\ deadline + Headroom < at + LeaseTicks
  THEN deadline + Headroom
  ELSE at + LeaseTicks

Hold(b) == Move(b, 0, 1)

(* Mutant: only the tombstone of a forced deletion bars a user.            *)
MayReserve_Untombstoned(u) == account[u] # "deleted"

MayReserve(u) == account[u] \in {"unseen", "active"}

(* The user_controls row is inserted or touched, never otherwise changed.  *)
Seen(u) == [account EXCEPT ![u] = IF @ = "unseen" THEN "active" ELSE @]

(* at is requestedAt, read by the controller before it waits for the lock. *)
Reserve(u, r, op, k, g, at, deadline) ==
  /\ requests[r].status = "absent"
  /\ MayReserve(u)
  /\ ~Existing(u, op, k, g)
  /\ g # None => OwnedShell(u, g)
  /\ WithinQuotas(u, op, Day(at))
  /\ ~HasLease(u, at)
  /\ \E s \in FirstFree(SweptSlots) :
       slots' = [SweptSlots EXCEPT ![s] = [request |-> r, expires |-> LeaseEnd(op, at, deadline)]]
  /\ requests' = [SweptRequests EXCEPT ![r] =
                    [BlankRow("reserved") EXCEPT !.user = u, !.op = op, !.key = k, !.game = g,
                                                 !.created = at, !.deadline = deadline]]
  /\ userModel' = [SweptUserModel EXCEPT ![u][Day(at)] = Hold(@)]
  /\ globalModel' = [SweptGlobalModel EXCEPT ![Day(at)] = Hold(@)]
  /\ userGames' = IF op = "division" THEN [SweptUserGames EXCEPT ![u][Day(at)] = Hold(@)]
                                     ELSE SweptUserGames
  /\ account' = Seen(u)
  /\ UNCHANGED <<now, shells>>

(* A reservation the hourly windows (or any earlier check) turn away still *)
(* sweeps and still records the user.                                      *)
ReserveRefused(u) ==
  /\ account[u] # "deleted"
  /\ requests' = SweptRequests
  /\ slots' = SweptSlots
  /\ userModel' = SweptUserModel
  /\ userGames' = SweptUserGames
  /\ globalModel' = SweptGlobalModel
  /\ account' = Seen(u)
  /\ UNCHANGED <<now, shells>>

-----------------------------------------------------------------------------
(* The game row of a division, and its link to the request.                *)

(* getOrCreateDivision: the game takes the id of the request that paid for *)
(* it.                                                                     *)
CreateShell(r) ==
  /\ Active(r)
  /\ requests[r].op = "division"
  /\ requests[r].game = None
  /\ account[requests[r].user] = "active"
  /\ shells' = shells \cup {r}
  /\ UNCHANGED <<now, requests, slots, buckets, account>>

Attach(r, g) ==
  /\ requests[r].status = "reserved"
  /\ requests[r].op = "division"
  /\ requests[r].game = None
  /\ OwnedShell(requests[r].user, g)
  /\ requests' = [requests EXCEPT ![r].game = g]
  /\ UNCHANGED <<now, slots, buckets, account, shells>>

-----------------------------------------------------------------------------
(* beginProviderCall.                                                      *)

(* Mutant: the settlement headroom is taken for more answer time.          *)
Fenced_ByLeaseOnly(r) == \E s \in Slots : Holds(s, r) /\ ~Expired(slots[s].expires)

(* The lease still stands and, for an answer, so does the deadline.        *)
Fenced(r) ==
  /\ ~PastDeadline(r)
  /\ \E s \in Slots : Holds(s, r) /\ ~Expired(slots[s].expires)

MayCall(u) == account[u] \notin {"suspended", "deletion_pending", "deleted"}

(* Mutant: every renewal extends the lease.                                *)
Extended_Always(r) ==
  [s \in Slots |-> IF Holds(s, r) THEN [slots[s] EXCEPT !.expires = now + LeaseTicks] ELSE slots[s]]

(* An answer keeps the lease it was reserved with.                         *)
Extended(r) ==
  IF requests[r].op = "answer"
  THEN slots
  ELSE [s \in Slots |-> IF Holds(s, r) THEN [slots[s] EXCEPT !.expires = now + LeaseTicks]
                                      ELSE slots[s]]

Consume(b) == Move(b, 1, -1)

Begin(r) ==
  /\ requests[r].status = "reserved"
  /\ MayCall(requests[r].user)
  /\ Fenced(r)
  /\ requests' = [requests EXCEPT ![r].status = "in_progress", ![r].turns = 1]
  /\ slots' = Extended(r)
  /\ userModel' = [userModel EXCEPT ![requests[r].user][DayOf(r)] = Consume(@)]
  /\ globalModel' = [globalModel EXCEPT ![DayOf(r)] = Consume(@)]
  /\ UNCHANGED <<now, userGames, account, shells>>

(* ALREADY_STARTED: a corrective or later turn renews the lease only.      *)
Renew(r) ==
  /\ requests[r].status = "in_progress"
  /\ requests[r].turns < MaxTurns
  /\ MayCall(requests[r].user)
  /\ Fenced(r)
  /\ requests' = [requests EXCEPT ![r].turns = @ + 1]
  /\ slots' = Extended(r)
  /\ UNCHANGED <<now, buckets, account, shells>>

-----------------------------------------------------------------------------
(* settleModelRequest.                                                     *)

OtherSuccess(r) ==
  \E x \in Requests \ {r} :
    /\ requests[r].game # None
    /\ requests[x].game = requests[r].game
    /\ requests[x].op = requests[r].op
    /\ requests[x].status = "succeeded"

(* Mutant: a settled request keeps its slot until the lease runs out.      *)
Clear_Kept(r) == slots

Clear(r) == [s \in Slots |-> IF Holds(s, r) THEN FreeSlot ELSE slots[s]]

SettleGame(r, du) ==
  IF requests[r].op = "division"
  THEN [userGames EXCEPT ![requests[r].user][DayOf(r)] = Move(@, du, -1)]
  ELSE userGames

(* Mutant: a late settlement revives a request the sweep gave up on.       *)
Settle_Revives(r, outcome) ==
  /\ requests[r].status \in {"in_progress", "indeterminate"}
  /\ requests' = [requests EXCEPT ![r].status = outcome]
  /\ slots' = Clear(r)
  /\ UNCHANGED <<now, buckets, account, shells>>

Settle(r, outcome) ==
  /\ requests[r].status = "in_progress"
  /\ Fenced(r)
  /\ ~OtherSuccess(r)
  /\ requests' = [requests EXCEPT ![r].status = outcome,
                                  ![r].failure = IF outcome = "succeeded" THEN "none"
                                                                         ELSE "reported"]
  /\ slots' = Clear(r)
  /\ userGames' = SettleGame(r, IF outcome = "succeeded" THEN 1 ELSE 0)
  /\ UNCHANGED <<now, userModel, globalModel, account, shells>>

(* OPERATION_ALREADY_SUCCEEDED, whatever the outcome offered.              *)
SettleDuplicate(r) ==
  /\ requests[r].status = "in_progress"
  /\ Fenced(r)
  /\ OtherSuccess(r)
  /\ requests' = [requests EXCEPT ![r].status = "rejected",
                                  ![r].failure = "operation_already_succeeded"]
  /\ slots' = Clear(r)
  /\ userGames' = SettleGame(r, 0)
  /\ UNCHANGED <<now, userModel, globalModel, account, shells>>

(* A settlement that finds its answer past the deadline ends it at once,   *)
(* whatever the outcome offered and however long the lease still runs.     *)
SettleLateAnswer(r) ==
  /\ requests[r].status = "in_progress"
  /\ Held(r)
  /\ PastDeadline(r)
  /\ requests' = [requests EXCEPT ![r].status = "indeterminate",
                                  ![r].failure = "answer_operation_timeout"]
  /\ slots' = Clear(r)
  /\ UNCHANGED <<now, buckets, account, shells>>

-----------------------------------------------------------------------------
(* releaseReservation: before the provider is called, or, with the reason  *)
(* provider_not_started, after a start the caller never dispatched.        *)

(* Mutant: handing back a started call returns a reservation it no longer  *)
(* holds.                                                                  *)
Unstart_Reserved(b, started) == Move(b, 0, -1)

Unstart(b, started) == IF started THEN Move(b, -1, 0) ELSE Move(b, 0, -1)

Release(r, reason) ==
  LET row == requests[r]
      started == row.status = "in_progress"
  IN
  /\ row.status \in ActiveStatus
  /\ started => reason = "provider_not_started"
  /\ Held(r)
  /\ requests' = [requests EXCEPT
                    ![r].status = "failed",
                    ![r].turns = 0,
                    ![r].failure = IF PastDeadline(r)
                                   THEN "answer_operation_timeout_before_provider"
                                   ELSE "released"]
  /\ slots' = Clear(r)
  /\ userModel' = [userModel EXCEPT ![row.user][DayOf(r)] = Unstart(@, started)]
  /\ globalModel' = [globalModel EXCEPT ![DayOf(r)] = Unstart(@, started)]
  /\ userGames' = SettleGame(r, 0)
  /\ UNCHANGED <<now, account, shells>>

-----------------------------------------------------------------------------
(* deleteAccountData, after deleteAccountGames in the same transaction.    *)

RowsOf(u) == {r \in Requests : Stored(r) /\ requests[r].user = u}

(* Calls of u that the sweep leaves running.                               *)
Running(u) == {r \in RowsOf(u) : SweptRequests[r].status = "in_progress"}

StillReserved(u, d) ==
  {r \in RowsOf(u) : SweptRequests[r].status = "reserved" /\ DayOf(r) = d}

DeleteAccount(u, force) ==
  /\ force \/ Running(u) = {}
  /\ requests' = [r \in Requests |-> IF r \in RowsOf(u) THEN BlankRow("erased")
                                                        ELSE SweptRequests[r]]
  /\ slots' = [s \in Slots |-> IF SweptSlots[s].request \in RowsOf(u) THEN FreeSlot
                                                                     ELSE SweptSlots[s]]
  /\ userModel' = [SweptUserModel EXCEPT ![u] = EmptyDays]
  /\ userGames' = [SweptUserGames EXCEPT ![u] = EmptyDays]
  /\ globalModel' = [d \in Days |->
                       Move(SweptGlobalModel[d], 0, -Cardinality(StillReserved(u, d)))]
  /\ shells' = shells \ RowsOf(u)
  /\ account' = [account EXCEPT ![u] = IF force \/ @ = "deleted" THEN "deleted"
                                                                ELSE "deletion_pending"]
  /\ UNCHANGED now

-----------------------------------------------------------------------------
(* Outside the program: an operator edits user_controls, and time passes.  *)

Suspend(u) ==
  /\ account[u] = "active"
  /\ account' = [account EXCEPT ![u] = "suspended"]
  /\ UNCHANGED <<now, requests, slots, buckets, shells>>

Restore(u) ==
  /\ account[u] = "suspended"
  /\ account' = [account EXCEPT ![u] = "active"]
  /\ UNCHANGED <<now, requests, slots, buckets, shells>>

Tick ==
  /\ now < MaxTime
  /\ now' = now + 1
  /\ UNCHANGED <<requests, slots, buckets, account, shells>>

-----------------------------------------------------------------------------
Init ==
  /\ now = 0
  /\ requests = [r \in Requests |-> BlankRow("absent")]
  /\ slots = [s \in Slots |-> FreeSlot]
  /\ userModel = [u \in Users |-> EmptyDays]
  /\ userGames = [u \in Users |-> EmptyDays]
  /\ globalModel = EmptyDays
  /\ account = [u \in Users |-> "unseen"]
  /\ shells = {}

(* requestedAt is sampled at most MaxWait before the lock is granted, and  *)
(* the bounded clock leaves every reservation room to run out.             *)
RequestTimes == {t \in Times : t <= now /\ now <= t + MaxWait /\ t <= LastReserve}

(* The service adapter names a game for every operation but a division,    *)
(* and fixes a deadline for an answer only.                                *)
Games(op) == IF op = "division" THEN {None} ELSE Requests
Deadlines(op, at) == IF op = "answer" THEN (at + 1)..(at + AnswerTicks) ELSE {0}

ReserveAny ==
  \E u \in Users, r \in Requests, op \in Operations, k \in Keys, at \in RequestTimes :
    \E g \in Games(op), deadline \in Deadlines(op, at) :
      Reserve(u, r, op, k, g, at, deadline)

Next ==
  \/ ReserveAny
  \/ \E u \in Users : ReserveRefused(u)
  \/ \E r \in Requests : CreateShell(r)
  \/ \E r, g \in Requests : Attach(r, g)
  \/ \E r \in Requests : Begin(r)
  \/ \E r \in Requests : Renew(r)
  \/ \E r \in Requests, outcome \in {"succeeded", "failed", "indeterminate"} : Settle(r, outcome)
  \/ \E r \in Requests : SettleDuplicate(r)
  \/ \E r \in Requests : SettleLateAnswer(r)
  \/ \E r \in Requests, reason \in {"provider_not_started", "other"} : Release(r, reason)
  \/ Reconcile
  \/ \E u \in Users, force \in BOOLEAN : DeleteAccount(u, force)
  \/ \E u \in Users : Suspend(u)
  \/ \E u \in Users : Restore(u)
  \/ Tick

Spec == Init /\ [][Next]_vars

(* The watchdog rearms itself after every reconciliation, successful or    *)
(* not, and the database clock advances.  Nothing is assumed of callers:   *)
(* a handler may crash at any point and never return.                      *)
Fairness == WF_vars(Reconcile) /\ WF_vars(Tick)

FairSpec == Spec /\ Fairness

-----------------------------------------------------------------------------
(* What the ledger promises.                                               *)

(* Every variable stays a row of its table.                                *)
TypeOK ==
  /\ now \in Times
  /\ requests \in [Requests -> Row]
  /\ slots \in [Slots -> Slot]
  /\ userModel \in [Users -> [Days -> Bucket]]
  /\ userGames \in [Users -> [Days -> Bucket]]
  /\ globalModel \in [Days -> Bucket]
  /\ account \in [Users -> Accounts]
  /\ shells \subseteq Requests

(* The four slots and the request rows never disagree: work is active      *)
(* exactly while one slot holds it, and a user holds at most one slot, so  *)
(* neither a crash, a late settlement nor a deletion can leak a slot, free *)
(* one under running work or give it to two requests.                      *)
SlotsMatchWork ==
  /\ \A r \in Requests : Active(r) <=> Held(r)
  /\ \A s, t \in Slots :
       /\ slots[s].request # None /\ slots[t].request # None
       /\ requests[slots[s].request].user = requests[slots[t].request].user
       => s = t

(* The rows a bucket of the ledger is charged for.                         *)
ReservedBy(u, d) ==
  {r \in Requests : requests[r].status = "reserved" /\ requests[r].user = u /\ DayOf(r) = d}
StartedBy(u, d) ==
  {r \in Requests : requests[r].turns > 0 /\ requests[r].user = u /\ DayOf(r) = d}
DivisionsOpen(u, d) ==
  {r \in Requests : Active(r) /\ requests[r].op = "division"
                    /\ requests[r].user = u /\ DayOf(r) = d}
DivisionsSpent(u, d) ==
  {r \in Requests : /\ requests[r].status = "succeeded" \/ requests[r].failure = "provider_outcome_unknown"
                    /\ requests[r].op = "division"
                    /\ requests[r].user = u /\ DayOf(r) = d}

(* Each user bucket counts exactly the rows it was charged for: one        *)
(* reservation per request that waits, one use per request whose provider  *)
(* call was started and never handed back, one game start per division     *)
(* that succeeded or was lost in flight.  Every path that ends a request   *)
(* moves the counters of the day it was created on by exactly its share,   *)
(* so the greatest(..., 0) clamps never hide an error.                     *)
UserBucketsBalance ==
  \A u \in Users, d \in Days :
    /\ userModel[u][d].reserved = Cardinality(ReservedBy(u, d))
    /\ userModel[u][d].used = Cardinality(StartedBy(u, d))
    /\ userGames[u][d].reserved = Cardinality(DivisionsOpen(u, d))
    /\ userGames[u][d].used = Cardinality(DivisionsSpent(u, d))

(* The deployment's reservations are the reserved rows of all users.  Its  *)
(* uses outlive deleted accounts, so they only bound the started rows.     *)
GlobalBucketBalances ==
  \A d \in Days :
    /\ globalModel[d].reserved =
         Cardinality({r \in Requests : requests[r].status = "reserved" /\ DayOf(r) = d})
    /\ globalModel[d].used >=
         Cardinality({r \in Requests : requests[r].turns > 0 /\ DayOf(r) = d})

(* No interleaving of reservations, refunds and expiries takes a user, the *)
(* deployment or a game allowance over its daily limit.                    *)
QuotasHold ==
  /\ \A u \in Users, d \in Days : /\ Spent(userModel[u][d]) <= ModelLimit
                                  /\ Spent(userGames[u][d]) <= GameLimit
  /\ \A d \in Days : Spent(globalModel[d]) <= GlobalLimit

(* The books of the ledger: the buckets of users and of the deployment are *)
(* charged for exactly the rows there are, and never over a daily limit.   *)
BooksBalance == UserBucketsBalance /\ GlobalBucketBalances /\ QuotasHold

(* model_requests_one_succeeded_operation_per_game: the index would abort  *)
(* a settlement; the ledger never lets one get that far.                   *)
OneSuccessPerGame ==
  \A r, x \in Requests :
    /\ requests[r].status = "succeeded" /\ requests[x].status = "succeeded"
    /\ requests[r].game # None /\ requests[r].game = requests[x].game
    /\ requests[r].op = requests[x].op
    => r = x

(* "That same intent is not called again": whatever became of the first    *)
(* call, an idempotency key buys at most one request that reached the      *)
(* provider.                                                               *)
OneCallPerIntent ==
  \A r, x \in Requests :
    /\ requests[r].turns > 0 /\ requests[x].turns > 0
    /\ requests[r].user = requests[x].user /\ requests[r].op = requests[x].op
    /\ requests[r].key = requests[x].key
    => r = x

(* Nothing is bought twice: neither a game's operation nor an intent.      *)
NothingPaidTwice == OneSuccessPerGame /\ OneCallPerIntent

(* No renewal moves the fence of an answer past its logical deadline plus  *)
(* the settlement headroom.                                                *)
AnswerFenceFixed ==
  \A s \in Slots :
    LET r == slots[s].request
    IN  r # None /\ requests[r].op = "answer"
          => slots[s].expires <= requests[r].deadline + Headroom

(* A deleted account is gone for good and a pending one is empty, even if  *)
(* a reservation or a settlement of the same user was waiting for the lock.*)
DeletionLeavesNothing ==
  \A u \in Users : account[u] \in {"deletion_pending", "deleted"} =>
    /\ \A r \in Requests : requests[r].user # u
    /\ userModel[u] = EmptyDays /\ userGames[u] = EmptyDays

(* Rows a handler has read as final stay final: the status of a terminal   *)
(* request never changes, except that deletion removes the row.            *)
TerminalStays ==
  \A r \in Requests :
    Terminal(r) => requests'[r].status \in {requests[r].status, "erased"}
TerminalIsFinal == [][TerminalStays]_vars

(* An answer succeeds only before its logical deadline, though its lease   *)
(* outlives it; the deadline itself never moves.                           *)
AnswerStep ==
  \A r \in Requests :
    requests[r].op = "answer" /\ requests'[r].op = "answer" =>
      /\ requests'[r].deadline = requests[r].deadline
      /\ requests'[r].status = "succeeded" /\ requests[r].status # "succeeded"
           => now < requests[r].deadline
AnswerSucceedsInTime == [][AnswerStep]_vars

(* A lost handler cannot hold a slot for ever: under the watchdog every    *)
(* admitted request ends.                                                  *)
EveryRequestEnds == \A r \in Requests : Active(r) ~> ~Active(r)

=============================================================================
