---------------------------- MODULE WilburLedger ----------------------------
(***************************************************************************)
(* The three Wilbur mutations of one player (createWilburAction,           *)
(* updateWilburAction and appendWilburObservation of                       *)
(* src/server/http/service-adapter.ts) over the durable mutation requests  *)
(* of src/server/lifecycle/repository.ts: claim, hourly admission, claim   *)
(* again, write, and the settlement of a write that lost a race.           *)
(*                                                                         *)
(* Each action is one SQL statement, except the first claim, which is two: *)
(* under READ COMMITTED a statement reads the snapshot of its start, and   *)
(* this one takes its advisory lock afterwards.                            *)
(***************************************************************************)
EXTENDS Integers, FiniteSets

CONSTANTS
  Handlers,     \* concurrent requests of the player
  Keys,         \* client idempotency keys
  Suggestions,  \* Charlotte's next actions
  Intents,      \* bound: what the player may ask for, a subset of Intent
  None,         \* SQL NULL
  RowLimit,     \* wilburStorageRowLimit
  TextLimit,    \* wilburStorageTextBytesLimit, in texts of one length
  UserLimit,    \* admissions an hour of one user
  IpLimit,      \* admissions an hour of one address
  MaxCrashes    \* bound: how many handlers die between two statements

Operations == {"create_action", "update_action", "append_observation"}
Statuses == {"planned", "in_progress", "completed", "abandoned", "inconclusive"}
Kinds == {"action", "observation"}

(* What a request digest covers; revision is the one an update expects.    *)
Intent == [op : Operations, on : Suggestions, revision : Nat, status : Statuses]

VARIABLES
  run,       \* lifecycle_runs.state
  actions,   \* wilbur_actions bound to a suggestion of Charlotte
  observed,  \* wilbur_observations, by the key that wrote them
  events,    \* lifecycle_events of stage wilbur, counted
  requests,  \* wilbur_mutation_requests, by key
  rate,      \* rate_buckets of the current hour, by kind
  handler,   \* what each handler holds in memory
  replies,   \* results the player was given: <<key, result>>
  crashes    \* handlers lost so far

vars == <<run, actions, observed, events, requests, rate, handler, replies, crashes>>

artifacts == <<run, actions, observed, events>>

-----------------------------------------------------------------------------
(* Rows.                                                                   *)

Executable == {"charlotte_complete", "wilbur_planning", "wilbur_in_progress", "wilbur_observed"}

Action == [revision : Nat, status : Statuses]

Request == [intent : Intents, status : {"pending", "committed", "denied"}, admitted : BOOLEAN,
            old : BOOLEAN, rows : 0..2, text : 0..1, result : Action \cup {None}]

KindOf(i) == IF i.op = "append_observation" THEN "observation" ELSE "action"
FutureRows(i) == IF i.op = "update_action" THEN 1 ELSE 2
TextOf(i) == IF i.op = "update_action" THEN 0 ELSE 1

Written == {s \in Suggestions : actions[s] # None}
Claimed == {k \in Keys : requests[k] # None}
Pending(k) == requests[k] # None /\ requests[k].status = "pending"

OwnedRows == Cardinality(Written) + Cardinality(observed) + events + Cardinality(Claimed)
OwnedText == Cardinality(Written) + Cardinality(observed)

(* Reservations of the claims in K.                                        *)
ReservedRows(K) == Cardinality({k \in K : requests[k].rows >= 1})
                     + Cardinality({k \in K : requests[k].rows = 2})
ReservedText(K) == Cardinality({k \in K : requests[k].text = 1})

Deny(row) == [row EXCEPT !.status = "denied", !.rows = 0, !.text = 0, !.old = FALSE]

Idle == [step |-> "idle"]
Step(h) == handler[h].step
Finish(h) == handler' = [handler EXCEPT ![h] = Idle]
Goto(h, step) ==
  handler' = [handler EXCEPT ![h] = IF step = "idle" THEN Idle ELSE [@ EXCEPT !.step = step]]

-----------------------------------------------------------------------------
(* The request arrives.                                                    *)

(* requireCurrentWilburExecution, and requireCurrentWilburAction for an    *)
(* existing action; what was read is kept for the checks after the claim.  *)
Open(h, k, i) ==
  /\ handler[h] = Idle
  /\ run \in Executable
  /\ i.op # "create_action" => actions[i.on] # None
  /\ handler' = [handler EXCEPT
       ![h] = [step |-> "snapshot", key |-> k, intent |-> i, read |-> actions[i.on],
               view |-> None, rows |-> 0, text |-> 0]]
  /\ UNCHANGED <<run, actions, observed, events, requests, rate, replies, crashes>>

-----------------------------------------------------------------------------
(* claimWilburMutation.                                                    *)

(* The statement begins: what artifact_storage, owned_rows,                *)
(* pending_storage and existing will read.                                 *)
Snapshot(h) ==
  LET fresh == {k \in Keys : Pending(k) /\ ~requests[k].old} IN
  /\ Step(h) = "snapshot"
  /\ handler' = [handler EXCEPT
       ![h].step = "claim",
       ![h].view = requests[handler[h].key],
       ![h].rows = OwnedRows + ReservedRows(fresh),
       ![h].text = OwnedText + ReservedText(fresh)]
  /\ UNCHANGED <<run, actions, observed, events, requests, rate, replies, crashes>>

(* Claims of the player left pending for a day are denied for good.        *)
Expired == [k \in Keys |-> IF Pending(k) /\ requests[k].old THEN Deny(requests[k]) ELSE requests[k]]

WithinEnvelope(h) ==
  /\ handler[h].rows + 1 + FutureRows(handler[h].intent) <= RowLimit
  /\ handler[h].text + TextOf(handler[h].intent) <= TextLimit

Claim0(i) == [intent |-> i, status |-> "pending", admitted |-> FALSE, old |-> FALSE,
              rows |-> FutureRows(i), text |-> TextOf(i), result |-> None]

(* Mutant: an exact retry is told what has become of the action since.     *)
Reply_Current(h, row) ==
  replies' = replies \cup {<<handler[h].key, actions[handler[h].intent.on]>>}

(* The exact retry of a committed mutation gets the stored result.         *)
Reply(h, row) == replies' = replies \cup {<<handler[h].key, row.result>>}

(* A create finds its suggestion taken, or an update its revision changed, *)
(* in what the handler read before it claimed.                             *)
Hopeless(h) ==
  LET i == handler[h].intent IN
  \/ i.op = "create_action" /\ handler[h].read # None
  \/ i.op = "update_action" /\ handler[h].read.revision # i.revision

(* What the handler does with the row a claim returned: a changed          *)
(* operation or digest is refused, and a denied row is reported pending.   *)
Answered(h, row, next) ==
  IF row.intent # handler[h].intent
  THEN Finish(h) /\ UNCHANGED replies
  ELSE IF row.status = "committed"
  THEN Finish(h) /\ Reply(h, row)
  ELSE Goto(h, next) /\ UNCHANGED replies

(* The lock is granted.  A row that another claim of the key inserted      *)
(* since the snapshot is neither found nor inserted: that request fails.   *)
Claim(h) ==
  LET k == handler[h].key
      existing == IF handler[h].view = None THEN None
                  ELSE IF Expired[k] # requests[k] THEN Expired[k] ELSE handler[h].view
      next == IF Hopeless(h) THEN "refuse" ELSE "rate"
  IN
  /\ Step(h) = "claim"
  /\ \/ /\ existing # None
        /\ requests' = Expired
        /\ Answered(h, existing, next)
     \/ /\ existing = None
        /\ WithinEnvelope(h)
        /\ Expired[k] = None
        /\ requests' = [Expired EXCEPT ![k] = Claim0(handler[h].intent)]
        /\ Goto(h, next)
        /\ UNCHANGED replies
     \/ /\ existing = None
        /\ ~WithinEnvelope(h) \/ Expired[k] # None
        /\ requests' = Expired
        /\ Finish(h)
        /\ UNCHANGED replies
  /\ UNCHANGED <<run, actions, observed, events, rate, crashes>>

(* A later claim of the same request only reads its row.                   *)
Reclaim(h, step, next) ==
  /\ Step(h) = step
  /\ requests' = Expired
  /\ Answered(h, Expired[handler[h].key], next)
  /\ UNCHANGED <<run, actions, observed, events, rate, crashes>>

Again(h) == Reclaim(h, "again", "write")
Recover(h) == Reclaim(h, "recover", "settle")
Raced(h) == Reclaim(h, "raced", "idle")

-----------------------------------------------------------------------------
(* consumeWilburMutationRate, one transaction under the usage lock.        *)

Admissible(row) == row.status = "pending" /\ ~row.admitted

(* The user's bucket is decided before the address's.                      *)
Admit(h) ==
  LET k == handler[h].key
      row == requests[k]
      kind == KindOf(handler[h].intent)
      user == rate[kind].user + 1
      ip == rate[kind].ip + 1
  IN
  /\ Step(h) = "rate"
  /\ row.intent = handler[h].intent
  /\ Admissible(row)
  /\ \/ /\ user > UserLimit
        /\ rate' = [rate EXCEPT ![kind].user = user]
        /\ requests' = [requests EXCEPT ![k] = Deny(row)]
        /\ Finish(h)
     \/ /\ user <= UserLimit
        /\ ip > IpLimit
        /\ rate' = [rate EXCEPT ![kind] = [user |-> user, ip |-> ip]]
        /\ requests' = [requests EXCEPT ![k] = Deny(row)]
        /\ Finish(h)
     \/ /\ user <= UserLimit
        /\ ip <= IpLimit
        /\ rate' = [rate EXCEPT ![kind] = [user |-> user, ip |-> ip]]
        /\ requests' = [requests EXCEPT ![k].admitted = TRUE, ![k].old = FALSE]
        /\ Goto(h, "again")
  /\ UNCHANGED <<artifacts, replies, crashes>>

(* Admitted or settled before: EXISTING goes on, a stored denial is told.  *)
Readmit(h) ==
  LET row == requests[handler[h].key] IN
  /\ Step(h) = "rate"
  /\ ~Admissible(row)
  /\ IF row.status = "denied" THEN Finish(h) ELSE Goto(h, "again")
  /\ UNCHANGED <<artifacts, requests, rate, replies, crashes>>

-----------------------------------------------------------------------------
(* createWilburAction, updateWilburAction, appendWilburObservation: one    *)
(* statement writes the artifact, the run, the event and the result.       *)

Writable(h) ==
  LET row == requests[handler[h].key] IN
  /\ row.intent = handler[h].intent
  /\ row.status = "pending"
  /\ row.admitted
  /\ run \in Executable

Commit(h, result) ==
  LET k == handler[h].key IN
  /\ requests' = [requests EXCEPT ![k].status = "committed", ![k].rows = 0, ![k].text = 0,
                                  ![k].result = result, ![k].old = FALSE]
  /\ events' = events + 1
  /\ replies' = replies \cup {<<k, result>>}
  /\ Finish(h)

(* At most one bound action for a suggestion: a unique index.              *)
Create(h) ==
  LET s == handler[h].intent.on
      new == [revision |-> 0, status |-> "planned"]
  IN
  /\ Step(h) = "write"
  /\ handler[h].intent.op = "create_action"
  /\ Writable(h)
  /\ actions[s] = None
  /\ actions' = [actions EXCEPT ![s] = new]
  /\ run' = IF run = "charlotte_complete" THEN "wilbur_planning" ELSE run
  /\ Commit(h, new)
  /\ UNCHANGED <<observed, rate, crashes>>

Update(h) ==
  LET i == handler[h].intent
      new == [revision |-> actions[i.on].revision + 1, status |-> i.status]
  IN
  /\ Step(h) = "write"
  /\ i.op = "update_action"
  /\ Writable(h)
  /\ actions[i.on].revision = i.revision
  /\ actions' = [actions EXCEPT ![i.on] = new]
  /\ run' = CASE i.status = "in_progress" -> "wilbur_in_progress"
              [] i.status # "in_progress" /\ run = "charlotte_complete" -> "wilbur_planning"
              [] OTHER -> run
  /\ Commit(h, new)
  /\ UNCHANGED <<observed, rate, crashes>>

Observe(h) ==
  /\ Step(h) = "write"
  /\ handler[h].intent.op = "append_observation"
  /\ Writable(h)
  /\ observed' = observed \cup {handler[h].key}
  /\ run' = "wilbur_observed"
  /\ Commit(h, None)
  /\ UNCHANGED <<actions, rate, crashes>>

(* The statement wrote nothing.                                            *)
Lose(h) ==
  LET i == handler[h].intent IN
  /\ Step(h) = "write"
  /\ \/ ~Writable(h)
     \/ i.op = "create_action" /\ actions[i.on] # None
     \/ i.op = "update_action" /\ actions[i.on].revision # i.revision
  /\ Goto(h, "recover")
  /\ UNCHANGED <<artifacts, requests, rate, replies, crashes>>

(* settleWilburMutationConflict.                                           *)
Settle(h, step, next) ==
  LET k == handler[h].key IN
  /\ Step(h) = step
  /\ requests' = IF Pending(k) /\ requests[k].intent = handler[h].intent
                 THEN [requests EXCEPT ![k] = Deny(@)] ELSE requests
  /\ Goto(h, next)
  /\ UNCHANGED <<artifacts, rate, replies, crashes>>

-----------------------------------------------------------------------------
(* Time and failure.                                                       *)

(* A day passes over a claim that no handler works on.                     *)
Age(k) ==
  /\ Pending(k)
  /\ ~requests[k].old
  /\ \A h \in Handlers : handler[h] # Idle => handler[h].key # k
  /\ requests' = [requests EXCEPT ![k].old = TRUE]
  /\ UNCHANGED <<artifacts, rate, handler, replies, crashes>>

NewHour ==
  /\ rate' = [kind \in Kinds |-> [user |-> 0, ip |-> 0]]
  /\ UNCHANGED <<artifacts, requests, handler, replies, crashes>>

Crash(h) ==
  /\ handler[h] # Idle
  /\ crashes < MaxCrashes
  /\ crashes' = crashes + 1
  /\ Finish(h)
  /\ UNCHANGED <<artifacts, requests, rate, replies>>

Init ==
  /\ run = "charlotte_complete"
  /\ actions = [s \in Suggestions |-> None]
  /\ observed = {}
  /\ events = 0
  /\ requests = [k \in Keys |-> None]
  /\ rate = [kind \in Kinds |-> [user |-> 0, ip |-> 0]]
  /\ handler = [h \in Handlers |-> Idle]
  /\ replies = {}
  /\ crashes = 0

Next ==
  \/ \E h \in Handlers :
       \/ \E k \in Keys, i \in Intents : Open(h, k, i)
       \/ Snapshot(h) \/ Claim(h) \/ Again(h) \/ Recover(h) \/ Raced(h)
       \/ Admit(h) \/ Readmit(h)
       \/ Create(h) \/ Update(h) \/ Observe(h) \/ Lose(h)
       \/ Settle(h, "refuse", "idle") \/ Settle(h, "settle", "raced")
       \/ Crash(h)
  \/ \E k \in Keys : Age(k)
  \/ NewHour

Spec == Init /\ [][Next]_vars

-----------------------------------------------------------------------------
(* Properties.                                                             *)

Task == [step : {"snapshot", "claim", "refuse", "rate", "again", "write", "recover", "settle", "raced"},
         key : Keys, intent : Intents, read : Action \cup {None}, view : Request \cup {None},
         rows : Nat, text : Nat]

TypeOK ==
  /\ run \in Executable
  /\ actions \in [Suggestions -> Action \cup {None}]
  /\ observed \subseteq Keys
  /\ requests \in [Keys -> Request \cup {None}]
  /\ rate \in [Kinds -> [user : Nat, ip : Nat]]
  /\ \A h \in Handlers : handler[h] = Idle \/ handler[h] \in Task
  /\ replies \subseteq Keys \X (Action \cup {None})
  /\ crashes \in 0..MaxCrashes

Committed(op) == {k \in Keys : requests[k] # None /\ requests[k].status = "committed"
                                 /\ requests[k].intent.op = op}

(* However a mutation is repeated, lost midway or raced, what is stored is *)
(* what the committed requests asked for, each once: an action for each    *)
(* create, a revision for each update of it, an observation for each       *)
(* append, an event for each of them, and a reservation only while the     *)
(* claim is pending.                                                       *)
MutationsHappenOnce ==
  /\ Cardinality(Written) = Cardinality(Committed("create_action"))
  /\ \A s \in Written :
       actions[s].revision =
         Cardinality({k \in Committed("update_action") : requests[k].intent.on = s})
  /\ observed = Committed("append_observation")
  /\ events = Cardinality(UNION {Committed(op) : op \in Operations})
  /\ \A k \in Claimed : requests[k].rows = IF Pending(k) THEN FutureRows(requests[k].intent) ELSE 0

(* An exact retry is answered with the result of the first commit, never   *)
(* with what the action has become since.                                  *)
RepliesRepeat == \A a, b \in replies : a[1] = b[1] => a = b

(* A rejected user spends nothing of the address: a bucket of the address  *)
(* holds no more than the user was admitted for, and one denial over.      *)
AddressSpared == \A kind \in Kinds : rate[kind].ip <= UserLimit /\ rate[kind].ip <= rate[kind].user

(* What a player's rows can come to: claims that overlap each took their   *)
(* own snapshot, so each handler but one may add a claim of its own.       *)
EnvelopeNearlyHolds ==
  OwnedRows + ReservedRows(Claimed) <= RowLimit + 3 * (Cardinality(Handlers) - 1)

LedgerIsExact == TypeOK /\ MutationsHappenOnce /\ RepliesRepeat /\ AddressSpared /\ EnvelopeNearlyHolds

(* service-adapter.ts:815 calls it a "lifetime envelope", and              *)
(* docs/ARCHITECTURE.md:389 says capacity "is reserved against the         *)
(* lifetime admission envelope".                                           *)
EnvelopeHolds == OwnedRows + ReservedRows(Claimed) <= RowLimit
=============================================================================
