---------------------------- MODULE ModelStages ----------------------------
(***************************************************************************)
(* One lifecycle run from a finished game to a qualified answer: Portia's  *)
(* review, the Gate, and Charlotte's qualification (the handlers runPortia,*)
(* runCharlotte and getLifecycle of src/server/http/service-adapter.ts     *)
(* over src/server/lifecycle/repository.ts).                               *)
(*                                                                         *)
(* Every repository call is one SQL statement and one action.  A handler   *)
(* keeps, between two of its statements, only what it read: a copy of the  *)
(* row (snap), its own model request (req) and the request whose result it *)
(* is about to commit (payload).  A statement whose WHERE clause no longer *)
(* matches changes nothing and ends the handler with a conflict.           *)
(*                                                                         *)
(* The ledger is seen from here as its own module promises it: a user has  *)
(* at most one live request, a terminal request is never revived, and an   *)
(* operation succeeds at most once for a game.                             *)
(*                                                                         *)
(* A handler that moves the run on and then continues (runPortia after     *)
(* preparePortia or after a reconciliation) re-reads the row there, so it  *)
(* is modelled as a handler that ends and one that opens.                  *)
(***************************************************************************)
EXTENDS Lifecycle, FiniteSets, Sequences, SequencesExt

CONSTANTS
  Handlers,      \* concurrent invocations of the route handlers
  Requests,      \* model request ids; a client's key names one request
  None,          \* SQL NULL
  Survivors,     \* how many board signals Portia assesses one by one
  FailureLimit,  \* portia_failure_limit = charlotte_failure_limit
  Replays,       \* same_field_retry_count of this run
  Regenerations, \* field_regeneration_count of this run
  Reviews,       \* bound: the reviews a provider may return
  MaxCrashes     \* bound: how many handlers die between two statements

ASSUME ConstantsAssumption ==
  /\ None \notin Requests
  /\ IsFiniteSet(Requests)
  /\ FailureLimit \in Nat \ {0}
  /\ {Survivors, Replays, Regenerations, MaxCrashes} \subseteq Nat
  /\ Reviews \subseteq Review

VARIABLES
  run,       \* the lifecycle_runs row
  review,    \* portia_reviews: the request whose review is stored
  gate,      \* gate_decisions: the request whose review was judged
  answered,  \* games.status = 'answered'
  quality,   \* charlotte_results: the request whose result is stored
  ledger,    \* model_requests of this game
  handler,   \* what each route handler holds in memory
  crashes,   \* handlers lost so far
  called,    \* history: requests whose generator was invoked
  counted    \* history: requests counted against a failure budget

artifacts == <<review, gate, answered, quality>>
vars == <<run, artifacts, ledger, handler, crashes, called, counted>>

-----------------------------------------------------------------------------
(* Rows.                                                                   *)

Ops == {"portia", "charlotte"}

Pending == [portia |-> "portia_pending", charlotte |-> "charlotte_pending"]
Running == [portia |-> "portia_running", charlotte |-> "charlotte_running"]
Complete == [portia |-> "portia_complete", charlotte |-> "charlotte_complete"]
Unavailable == [portia |-> "portia_unavailable", charlotte |-> "charlotte_unavailable"]

ActiveStatus == {"reserved", "in_progress"}
EndedBadly == {"failed", "indeterminate"}

Drafts == UNION {[1..n -> Requests] : n \in 0..Survivors}

(* active is portia_active_model_request_id or charlotte_active_model_     *)
(* request_id (at most one is set), failed both failed attempt counts,     *)
(* drafts the persisted assessments, each named by the request that made   *)
(* it.                                                                     *)
Row == [state : LifecycleStates, revision : Nat, active : Requests \cup {None},
        failed : [Ops -> 0..FailureLimit], drafts : Drafts]

(* work and verdict are the result payload.                                *)
Entry == [op : Ops \cup {None},
          status : {"absent", "succeeded"} \cup ActiveStatus \cup EndedBadly,
          started : BOOLEAN, work : Drafts, verdict : Review \cup {None}]

NoEntry == [op |-> None, status |-> "absent", started |-> FALSE, work |-> <<>>, verdict |-> None]

Steps == {"prepare", "reserve", "begin", "attempt", "load", "call", "settle", "refuse",
          "reconcile", "fail", "store", "reread", "judge", "conclude", "authorize"}

Idle == [step |-> "idle"]

Task == [step : Steps, op : Ops, req : Requests \cup {None}, payload : Requests \cup {None},
         snap : Row, work : Drafts, verdict : Review \cup {None}]

Is(r, op, statuses) == ledger[r].op = op /\ ledger[r].status \in statuses
Succeeded(op) == {r \in Requests : Is(r, op, {"succeeded"})}

Step(h) == handler[h].step
Goto(h, step) == handler' = [handler EXCEPT ![h].step = step]
Finish(h) == handler' = [handler EXCEPT ![h] = Idle]

(* The conflict a refused statement raises: nothing but the handler moves. *)
Conflict(h) ==
  /\ Finish(h)
  /\ UNCHANGED <<run, artifacts, ledger, crashes, called, counted>>

Unmoved(h) == run.revision = handler[h].snap.revision /\ run.state = handler[h].snap.state

(* A failed or finished attempt gives up its fence.                        *)
Unfenced(row) == [row EXCEPT !.active = None]

(* Each row update bumps the revision.                                     *)
Advance(to) == [run EXCEPT !.state = to, !.revision = @ + 1]

-----------------------------------------------------------------------------
(* Route handlers open by reading the row.                                 *)

Opening(h, op, r, step) ==
  /\ handler[h] = Idle
  /\ handler' = [handler EXCEPT ![h] =
       [step |-> step, op |-> op, req |-> r,
        payload |-> IF step = "judge" THEN review ELSE None,
        snap |-> run, work |-> <<>>, verdict |-> None]]
  /\ UNCHANGED <<run, artifacts, ledger, crashes, called, counted>>

Recommendation == Recommend(ledger[gate].verdict, Replays, Regenerations)

(* getLifecycle, and the same prologue of runPortia: settle what a lost    *)
(* handler left behind.                                                    *)
Poll(h) ==
  \/ \E op \in Ops : run.state = Running[op] /\ Opening(h, op, None, "reconcile")
  \/ /\ run.state = "gate_failed"
     /\ Recommendation = "insufficient_basis"
     /\ Opening(h, "portia", None, "conclude")

OpenPortia(h, r) ==
  \/ run.state = "chess_terminal" /\ Opening(h, "portia", r, "prepare")
  \/ run.state = "portia_pending" /\ Opening(h, "portia", r, "reserve")
  \/ run.state = "portia_complete" /\ Opening(h, "portia", r, "judge")

OpenCharlotte(h, r) ==
  /\ answered
  /\ \/ run.state = "gate_passed" /\ Opening(h, "charlotte", r, "authorize")
     \/ /\ run.state \in {"charlotte_pending", "charlotte_running"}
        /\ Opening(h, "charlotte", r, "reserve")

(* transition(): a row already in the target state is left as it is.  Its  *)
(* reset of the drafts on the way to portia_pending finds none yet.        *)
Transition(h, to) ==
  /\ run' = IF run.state # to /\ Unmoved(h) /\ CanTransition(run.state, to)
            THEN Advance(to)
            ELSE run
  /\ Finish(h)
  /\ UNCHANGED <<artifacts, ledger, crashes, called, counted>>

Prepare(h) == Step(h) = "prepare" /\ Transition(h, "portia_pending")
Authorize(h) == Step(h) = "authorize" /\ Transition(h, "charlotte_pending")
Conclude(h) == Step(h) = "conclude" /\ Transition(h, "insufficient_basis")

-----------------------------------------------------------------------------
(* From reservation to the provider.                                       *)

Live == {r \in Requests : ledger[r].status \in ActiveStatus}

(* reserveModelRequest and, for a request that exists, its result: the     *)
(* request of the same key, or the one success of the operation.           *)
Found(h) ==
  {x \in Requests : /\ ledger[x].op = handler[h].op
                    /\ \/ x = handler[h].req
                       \/ ledger[handler[h].req].status = "absent" /\ ledger[x].status = "succeeded"}

Fresh(h) == ledger[handler[h].req].status = "absent" /\ Live = {} /\ Found(h) = {}

Reserve(h) ==
  /\ Step(h) = "reserve"
  /\ Fresh(h)
  /\ ledger' = [ledger EXCEPT ![handler[h].req].op = handler[h].op,
                              ![handler[h].req].status = "reserved"]
  /\ Goto(h, "begin")
  /\ UNCHANGED <<run, artifacts, crashes, called, counted>>

(* A success is committed, whoever paid for it.                            *)
ReserveFindsResult(h) ==
  /\ Step(h) = "reserve"
  /\ \E x \in Found(h) :
       /\ ledger[x].status = "succeeded"
       /\ handler' = [handler EXCEPT
            ![h].req = x, ![h].payload = x,
            ![h].step = IF handler[h].snap.state = Pending[handler[h].op] THEN "attempt"
                                                                          ELSE "store"]
  /\ UNCHANGED <<run, artifacts, ledger, crashes, called, counted>>

(* Charlotte counts the failure of the attempt the run still shows.        *)
OwnFailure(h) ==
  /\ handler[h].snap.state = "charlotte_running"
  /\ handler[h].snap.active = handler[h].req
  /\ ledger[handler[h].req].status \in EndedBadly

ReserveFindsFailure(h) ==
  /\ Step(h) = "reserve"
  /\ OwnFailure(h)
  /\ Goto(h, "fail")
  /\ UNCHANGED <<run, artifacts, ledger, crashes, called, counted>>

(* The user has a live request, or this one is live or has ended badly.    *)
ReserveRefused(h) ==
  /\ Step(h) = "reserve"
  /\ ~Fresh(h) /\ ~OwnFailure(h)
  /\ \A x \in Found(h) : ledger[x].status # "succeeded"
  /\ Conflict(h)

(* beginProviderCall.                                                      *)
Begin(h) ==
  LET r == handler[h].req IN
  /\ Step(h) = "begin"
  /\ IF ledger[r].status = "reserved"
     THEN /\ ledger' = [ledger EXCEPT ![r].status = "in_progress", ![r].started = TRUE]
          /\ Goto(h, "attempt")
     ELSE Finish(h) /\ UNCHANGED ledger
  /\ UNCHANGED <<run, artifacts, crashes, called, counted>>

(* Mutant: an attempt may be made on a row that has moved since.           *)
MayAttempt_Stale(h) ==
  /\ run.state \in {Pending[handler[h].op], Running[handler[h].op]}
  /\ run.failed[handler[h].op] < FailureLimit
  /\ Is(handler[h].req, handler[h].op, {"in_progress", "succeeded"})

MayAttempt(h) ==
  /\ run.revision = handler[h].snap.revision
  /\ run.state = Pending[handler[h].op]
  /\ run.failed[handler[h].op] < FailureLimit
  /\ Is(handler[h].req, handler[h].op, {"in_progress", "succeeded"})

(* beginPortiaAttempt, beginCharlotteAttempt.  A conflict here leaves the  *)
(* started request to its lease.                                           *)
Attempt(h) ==
  /\ Step(h) = "attempt"
  /\ IF MayAttempt(h)
     THEN /\ run' = [Advance(Running[handler[h].op]) EXCEPT !.active = handler[h].req]
          /\ Goto(h, "load")
     ELSE run' = run /\ Finish(h)
  /\ UNCHANGED <<artifacts, ledger, crashes, called, counted>>

(* Mutant: a new attempt begins again from nothing.                        *)
Resumed_Anew(snap) == <<>>

Resumed(snap) == snap.drafts

(* The row as it is when the handler reads it back.  The prompt carries    *)
(* the drafts of the copy read before the attempt.                         *)
Load(h) ==
  /\ Step(h) = "load"
  /\ handler' = [handler EXCEPT
       ![h].work = Resumed(handler[h].snap),
       ![h].snap = run,
       ![h].step = IF handler[h].payload = None THEN "call" ELSE "store"]
  /\ called' = IF handler[h].payload = None THEN called \cup {handler[h].req} ELSE called
  /\ UNCHANGED <<run, artifacts, ledger, crashes, counted>>

-----------------------------------------------------------------------------
(* The provider call.                                                      *)

MayProgress(h, work) ==
  /\ run.revision = handler[h].snap.revision
  /\ run.state = "portia_running"
  /\ run.active = handler[h].req
  /\ Len(run.drafts) <= Len(work)

(* onProgress: renew the provider fence, then updatePortiaProgress, which  *)
(* does not bump the revision.  Either failing aborts the call.            *)
Assess(h) ==
  LET work == Append(handler[h].work, handler[h].req) IN
  /\ Step(h) = "call"
  /\ handler[h].op = "portia"
  /\ Len(handler[h].work) < Survivors
  /\ IF ledger[handler[h].req].status = "in_progress" /\ MayProgress(h, work)
     THEN run' = [run EXCEPT !.drafts = work] /\ handler' = [handler EXCEPT ![h].work = work]
     ELSE run' = run /\ Finish(h)
  /\ UNCHANGED <<artifacts, ledger, crashes, called, counted>>

(* The generator returns a result, fails for certain, or fails in a way    *)
(* that leaves the outcome unknown and the request to its lease.           *)
Generated(h, v) ==
  /\ Step(h) = "call"
  /\ handler[h].op = "portia" => Len(handler[h].work) = Survivors
  /\ handler' = [handler EXCEPT ![h].step = "settle", ![h].verdict = v]
  /\ UNCHANGED <<run, artifacts, ledger, crashes, called, counted>>

GenerationFailed(h) ==
  /\ Step(h) = "call"
  /\ Goto(h, "refuse")
  /\ UNCHANGED <<run, artifacts, ledger, crashes, called, counted>>

GenerationUnknown(h) == Step(h) = "call" /\ Conflict(h)

(* Mutant: a late result revives a request the sweep gave up on.           *)
SettleSuccess_Revives(h) ==
  LET r == handler[h].req IN
  /\ Step(h) = "settle"
  /\ ledger[r].status \in {"in_progress", "indeterminate"}
  /\ ledger' = [ledger EXCEPT ![r].status = "succeeded", ![r].work = handler[h].work,
                              ![r].verdict = handler[h].verdict]
  /\ handler' = [handler EXCEPT ![h].step = "store", ![h].payload = r]
  /\ UNCHANGED <<run, artifacts, crashes, called, counted>>

(* settleModelRequest with the result.                                     *)
SettleSuccess(h) ==
  LET r == handler[h].req IN
  /\ Step(h) = "settle"
  /\ ledger[r].status = "in_progress"
  /\ ledger' = [ledger EXCEPT ![r].status = "succeeded", ![r].work = handler[h].work,
                              ![r].verdict = handler[h].verdict]
  /\ handler' = [handler EXCEPT ![h].step = "store", ![h].payload = r]
  /\ UNCHANGED <<run, artifacts, crashes, called, counted>>

(* The lease ran out first.  recoverCommittedResult looks for the success  *)
(* of another attempt; without one the handler settles its request as      *)
(* indeterminate, which it already is, and goes on to count the failure.   *)
SettleLate(h) ==
  LET r == handler[h].req
      winners == Succeeded(handler[h].op)
  IN
  /\ Step(h) = "settle"
  /\ ledger[r].status = "indeterminate"
  /\ \/ \E w \in winners : handler' = [handler EXCEPT ![h].step = "store", ![h].payload = w]
     \/ winners = {} /\ Goto(h, "fail")
  /\ UNCHANGED <<run, artifacts, ledger, crashes, called, counted>>

(* settleDefinitiveFailure.                                                *)
SettleFailure(h) ==
  LET r == handler[h].req IN
  /\ Step(h) = "refuse"
  /\ IF ledger[r].status = "in_progress"
     THEN ledger' = [ledger EXCEPT ![r].status = "failed"] /\ Goto(h, "fail")
     ELSE UNCHANGED ledger /\ Finish(h)
  /\ UNCHANGED <<run, artifacts, crashes, called, counted>>

-----------------------------------------------------------------------------
(* Committing what the ledger decided.                                     *)

(* reconcileRunningLifecycleModel reads the request of the attempt it saw. *)
Reconcile(h) ==
  LET r == handler[h].snap.active IN
  /\ Step(h) = "reconcile"
  /\ \/ /\ ledger[r].status \in ActiveStatus
        /\ Finish(h)
     \/ /\ ledger[r].status = "succeeded"
        /\ handler' = [handler EXCEPT ![h].step = "store", ![h].req = r, ![h].payload = r]
     \/ /\ ledger[r].status \in EndedBadly
        /\ handler' = [handler EXCEPT ![h].step = "fail", ![h].req = r]
  /\ UNCHANGED <<run, artifacts, ledger, crashes, called, counted>>

MayFail(h) ==
  /\ run.revision = handler[h].snap.revision
  /\ run.state = Running[handler[h].op]
  /\ run.active = handler[h].req
  /\ run.failed[handler[h].op] < FailureLimit
  /\ Is(handler[h].req, handler[h].op, EndedBadly)

AfterFailure(op) ==
  IF run.failed[op] + 1 >= FailureLimit THEN Unavailable[op] ELSE Pending[op]

(* failPortiaAttempt, failCharlotteAttempt.                                *)
Fail(h) ==
  LET op == handler[h].op IN
  /\ Step(h) = "fail"
  /\ IF MayFail(h)
     THEN /\ run' = [Unfenced(Advance(AfterFailure(op))) EXCEPT !.failed[op] = @ + 1]
          /\ counted' = counted \cup {handler[h].req}
     ELSE UNCHANGED <<run, counted>>
  /\ Finish(h)
  /\ UNCHANGED <<artifacts, ledger, crashes, called>>

MayStore(h) ==
  /\ run.revision = handler[h].snap.revision
  /\ run.state = Running[handler[h].op]
  /\ run.active = handler[h].req
  /\ Is(handler[h].req, handler[h].op, {"succeeded"})

(* The commit is returned, not awaited: its error passes the handler's own *)
(* catch by, and ends the request.                                         *)
StoreConflict(h) == Finish(h) /\ UNCHANGED <<run, artifacts>>

(* storePortia.  A row already complete is accepted as it stands, and the  *)
(* handler goes on to the Gate with the result it holds.                   *)
StorePortia(h) ==
  LET p == handler[h].payload IN
  /\ Step(h) = "store"
  /\ handler[h].op = "portia"
  /\ IF run.state = "portia_complete" \/ MayStore(h)
     THEN /\ Goto(h, "reread")
          /\ IF run.state = "portia_complete"
             THEN UNCHANGED <<run, review>>
             ELSE /\ run' = [Unfenced(Advance("portia_complete")) EXCEPT !.drafts = ledger[p].work]
                  /\ review' = p
          /\ UNCHANGED <<gate, answered, quality>>
     ELSE StoreConflict(h)
  /\ UNCHANGED <<ledger, crashes, called, counted>>

(* storeCharlotte.  A row already complete is answered as it stands.       *)
StoreCharlotte(h) ==
  /\ Step(h) = "store"
  /\ handler[h].op = "charlotte"
  /\ IF run.state = "charlotte_complete"
     THEN Finish(h) /\ UNCHANGED <<run, artifacts>>
     ELSE IF MayStore(h)
     THEN /\ run' = Unfenced(Advance("charlotte_complete"))
          /\ quality' = handler[h].payload
          /\ Finish(h)
          /\ UNCHANGED <<review, gate, answered>>
     ELSE StoreConflict(h)
  /\ UNCHANGED <<ledger, crashes, called, counted>>

(* The aggregate a repository call returns is read after its statement.    *)
Reread(h) ==
  /\ Step(h) = "reread"
  /\ handler' = [handler EXCEPT
       ![h] = CASE run.state = "portia_complete" -> [@ EXCEPT !.snap = run, !.step = "judge"]
                [] /\ run.state = "gate_failed"
                   /\ Recommendation = "insufficient_basis"
                                             -> [@ EXCEPT !.snap = run, !.step = "conclude"]
                [] OTHER                     -> Idle]
  /\ UNCHANGED <<run, artifacts, ledger, crashes, called, counted>>

(* storeGate: the verdict on the review the handler holds.                 *)
Judge(h) ==
  LET p == handler[h].payload
      to == IF Passes(ledger[p].verdict) THEN "gate_passed" ELSE "gate_failed"
  IN
  /\ Step(h) = "judge"
  /\ IF run.state = "portia_complete" /\ run.revision = handler[h].snap.revision
     THEN run' = Advance(to) /\ gate' = p /\ Goto(h, "reread")
     ELSE /\ UNCHANGED <<run, gate>>
          /\ IF run.state = to /\ gate = p THEN Goto(h, "reread") ELSE Finish(h)
  /\ UNCHANGED <<review, answered, quality, ledger, crashes, called, counted>>

-----------------------------------------------------------------------------
(* Around the handlers.                                                    *)

(* The Answer routes attach the board answer once the Gate has passed.     *)
AnswerBoard ==
  /\ run.state = "gate_passed"
  /\ ~answered
  /\ answered' = TRUE
  /\ UNCHANGED <<run, review, gate, quality, ledger, handler, crashes, called, counted>>

(* Mutant: only work that never started is swept.                          *)
Expire_Unstarted(r) ==
  /\ ledger[r].status = "reserved"
  /\ ledger' = [ledger EXCEPT ![r].status = "failed"]
  /\ UNCHANGED <<run, artifacts, handler, crashes, called, counted>>

(* reconcileExpiredLeases, run by any request to the server.               *)
Expire(r) ==
  /\ ledger[r].status \in ActiveStatus
  /\ ledger' = [ledger EXCEPT ![r].status = IF @ = "reserved" THEN "failed" ELSE "indeterminate"]
  /\ UNCHANGED <<run, artifacts, handler, crashes, called, counted>>

Crash(h) ==
  /\ handler[h] # Idle
  /\ crashes < MaxCrashes
  /\ crashes' = crashes + 1
  /\ Finish(h)
  /\ UNCHANGED <<run, artifacts, ledger, called, counted>>

Init ==
  /\ run = [state |-> "chess_terminal", revision |-> 0, active |-> None,
            failed |-> [op \in Ops |-> 0], drafts |-> <<>>]
  /\ review = None /\ gate = None /\ answered = FALSE /\ quality = None
  /\ ledger = [r \in Requests |-> NoEntry]
  /\ handler = [h \in Handlers |-> Idle]
  /\ crashes = 0 /\ called = {} /\ counted = {}

Advances(h) ==
  \/ Prepare(h) \/ Authorize(h) \/ Conclude(h)
  \/ Reserve(h) \/ ReserveFindsResult(h) \/ ReserveFindsFailure(h) \/ ReserveRefused(h)
  \/ Begin(h) \/ Attempt(h) \/ Load(h) \/ Assess(h)
  \/ \E v \in Reviews : Generated(h, v)
  \/ GenerationFailed(h) \/ GenerationUnknown(h)
  \/ SettleSuccess(h) \/ SettleLate(h) \/ SettleFailure(h)
  \/ Reconcile(h) \/ Fail(h) \/ StorePortia(h) \/ StoreCharlotte(h) \/ Reread(h) \/ Judge(h)

Next ==
  \/ \E h \in Handlers :
       \/ Poll(h)
       \/ \E r \in Requests : OpenPortia(h, r) \/ OpenCharlotte(h, r)
       \/ Advances(h)
       \/ Crash(h)
  \/ \E r \in Requests : Expire(r)
  \/ AnswerBoard

Spec == Init /\ [][Next]_vars

(* A handler in flight goes on and an expired lease is swept.  The page    *)
(* reads the lifecycle every 750 ms while a stage is in flight, and again  *)
(* whenever it is opened; it re-issues runPortia while a review awaits its *)
(* Gate (src/App.tsx).  The server always has room for one more request,   *)
(* so both are served again and again: strong fairness, since Handlers is  *)
(* a bound of the model.                                                   *)
Recover == \E h \in Handlers, r \in Requests : run.state = "portia_complete" /\ OpenPortia(h, r)

Fairness ==
  /\ \A h \in Handlers : WF_vars(Advances(h))
  /\ \A r \in Requests : WF_vars(Expire(r))
  /\ SF_vars(\E h \in Handlers : Poll(h))
  /\ SF_vars(Recover)

FairSpec == Spec /\ Fairness

-----------------------------------------------------------------------------
(* Properties.                                                             *)

StartedOf(op) == {r \in Requests : ledger[r].op = op /\ ledger[r].started}
CalledOf(op) == {r \in called : ledger[r].op = op}
CountedOf(op) == {r \in counted : ledger[r].op = op}

(* Types; and the run is fenced by a started request of the stage exactly  *)
(* while that stage is running: migration 0007 makes it a constraint for   *)
(* Charlotte, for Portia only the statements keep it.                      *)
TypeOK ==
  /\ run \in Row
  /\ {review, gate, quality} \subseteq Requests \cup {None}
  /\ answered \in BOOLEAN
  /\ ledger \in [Requests -> Entry]
  /\ \A h \in Handlers : handler[h] = Idle \/ handler[h] \in Task
  /\ crashes \in 0..MaxCrashes
  /\ called \subseteq Requests /\ counted \subseteq Requests
  /\ (run.active = None) <=> (\A op \in Ops : run.state # Running[op])
  /\ \A op \in Ops : run.state = Running[op] => run.active \in StartedOf(op)

(* The failure counts: a lost or failed call is charged to the run once,   *)
(* though its own handler and any number of pollers may each find it; and  *)
(* the stage closes exactly when the budget is spent.                      *)
FailuresCountOnce ==
  \A op \in Ops :
    /\ run.failed[op] = Cardinality(CountedOf(op))
    /\ run.failed[op] = FailureLimit <=> run.state = Unavailable[op]

(* The provider is never called for a stage more often than its budget     *)
(* allows, however many clients retry and however many handlers die.       *)
CallsWithinLimit ==
  \A op \in Ops : Cardinality(CalledOf(op)) <= FailureLimit

(* Every attempt is counted, and no budget is overdrawn: a stage runs      *)
(* exactly while the run is fenced by a started request of it (TypeOK),    *)
(* and what the run charges itself and what the provider was asked stay    *)
(* within the limit.                                                       *)
AttemptsAreCounted == TypeOK /\ FailuresCountOnce /\ CallsWithinLimit

(* What the run stores is what the ledger decided: the stored review and   *)
(* qualification belong to successful requests, and the Gate judged the    *)
(* very review that is stored, even when a late handler brings another.    *)
ResultsAreWinners ==
  /\ review # None => review \in Succeeded("portia")
  /\ gate # None => gate = review
  /\ quality # None => quality \in Succeeded("charlotte")

(* A result that was paid for is never orphaned: the run is still waiting  *)
(* for it, or has it.                                                      *)
PaidResultsKept ==
  /\ \A r \in Succeeded("portia") : r \in {run.active, review}
  /\ \A r \in Succeeded("charlotte") : r \in {run.active, quality}

(* Charlotte qualifies only a board answer that a passed Gate allowed.     *)
QualifiesApprovedAnswers ==
  run.state \in {"charlotte_pending", "charlotte_running", "charlotte_unavailable",
                 "charlotte_complete"}
    => answered /\ gate # None /\ Passes(ledger[gate].verdict)

(* The run, its artifacts and the ledger agree on every paid result: what  *)
(* is stored was won, what was won is kept, and each stage rests on the    *)
(* approved result of the one before it.                                   *)
ResultsAreSound == ResultsAreWinners /\ PaidResultsKept /\ QualifiesApprovedAnswers

(* Portia's persisted assessments only ever grow, across failed attempts,  *)
(* resumed attempts and the review finally stored.                         *)
DraftsOnlyGrow == [][IsPrefix(run.drafts, run'.drafts)]_run

(* A running stage never stays running: whatever became of its handler,    *)
(* the attempt is finished or counted.                                     *)
AttemptsEnd ==
  \A op \in Ops : \A r \in Requests :
    (run.state = Running[op] /\ run.active = r) ~> (run.active # r)

(* A review or qualification that was paid for reaches the run, and the    *)
(* review its Gate, even if the handler that got it died.                  *)
ResultsAttached ==
  /\ Succeeded("portia") # {} ~> gate # None
  /\ Succeeded("charlotte") # {} ~> quality # None

(* A Gate that leaves no repair is concluded, although the decision and    *)
(* the conclusion are two statements.                                      *)
HopelessGatesConclude ==
  (run.state = "gate_failed" /\ Recommendation = "insufficient_basis")
    ~> run.state = "insufficient_basis"

(* Every stage comes to its end: no attempt hangs, no paid result is left  *)
(* unattached and no hopeless Gate open.                                   *)
StagesEnd == AttemptsEnd /\ ResultsAttached /\ HopelessGatesConclude
=============================================================================
