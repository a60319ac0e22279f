---------------------------- MODULE AnswerRoute ----------------------------
(***************************************************************************)
(* The board answer of one finished game: the route that reserves, calls,  *)
(* settles and stores it (`answer` of src/server/http/service-adapter.ts), *)
(* the poll that recovers it (`reconcilePendingGame`), and what else may   *)
(* happen to the game meanwhile.                                           *)
(*                                                                         *)
(* The game's row is GameStore's and is written by GameStore's actions.    *)
(* Of the ledger only the game's answer requests appear, with the          *)
(* transitions that UsageLedger details.  An action is one statement of a  *)
(* handler or one turn of the provider; a handler may stop between any two.*)
(* The run has passed its Gate and is not read again.                      *)
(***************************************************************************)
EXTENDS Naturals, FiniteSets, FiniteSetsExt

CONSTANTS
  GameIds,      \* the owner's games
  Game,         \* the one to be answered
  Other,        \* a game finished before it
  Upcoming,     \* the id of the owner's next game
  Routes,       \* concurrent invocations of the route and of the poll
  Keys,         \* idempotency keys of answers
  None,         \* SQL NULL
  MaxRequests,  \* bound: answer requests of the game
  MaxRevision,  \* bound: highest revision of a game
  MaxCrashes    \* bound: handlers that are lost

VARIABLES
  game, starts, used, latest,   \* GameStore's
  ledger,    \* the game's answer requests, in the order of their creation
  route,     \* what each invocation holds
  flying,    \* settlements sent but not executed yet
  called,    \* history: requests of which a provider turn was dispatched
  refunded,  \* history: requests whose use was given back
  crashes

Requests == 1..MaxRequests

(* No move is made here: the logs and their handlers stay out.             *)
Games == INSTANCE GameStore WITH
           MoveKeys <- {}, Handlers <- {}, Answers <- Requests, Results <- {},
           DailyGames <- 1, handler <- <<>>, acked <- <<>>, log <- [g \in GameIds |-> <<>>]

rows == <<game, starts, used, latest>>
vars == <<rows, ledger, route, flying, called, refunded, crashes>>

-----------------------------------------------------------------------------
Live == {"reserved", "in_progress"}
Failed == {"failed", "indeterminate"}

(* rev is what the request's digest pins; late says that its durable       *)
(* deadline is past.                                                       *)
Entry == [status : Live \cup Failed \cup {"succeeded"}, key : Keys,
          rev : 0..MaxRevision, late : BOOLEAN]
Request == Entry \cup {None}

(* A finished game is at its third revision at least.                      *)
ASSUME RouteAssumption ==
  /\ {Game, Other, Upcoming} \subseteq GameIds
  /\ Game # Other /\ Game # Upcoming /\ Other # Upcoming
  /\ MaxRequests \in Nat /\ MaxRevision \in Nat /\ MaxCrashes \in Nat
  /\ MaxRevision >= 3
  /\ None \notin GameIds \cup Keys \cup (1..MaxRequests) \cup Entry \cup Games!Row

Stored(r) == ledger[r] # None
LedgerStatus(r) == ledger[r].status
Succeeded == {r \in Requests : Stored(r) /\ LedgerStatus(r) = "succeeded"}
LiveRequests == {r \in Requests : Stored(r) /\ LedgerStatus(r) \in Live}

Ended(r, status) == [ledger EXCEPT ![r].status = status]

Idle == [step |-> "idle"]

(* at is the handler's copy of the game; started and released are          *)
(* providerStarted and providerReleasedBeforeDispatch.                     *)
Copy == [status : Games!Statuses, rev : 0..MaxRevision]
Steps == {"check", "attach", "drop", "reread", "reserve", "existing", "rejoin",
          "begin", "call", "fence", "wait", "settle", "settling", "caught", "refused",
          "unsettled", "undo", "giveback", "fail", "store"}
Invocation == [step : Steps, get : BOOLEAN, key : Keys \cup {None}, exp : 0..MaxRevision,
               at : Copy, req : Requests \cup {None}, turn : 0..2,
               started : BOOLEAN, released : BOOLEAN]

Step(h) == route[h].step
At(h) == route[h].at
Req(h) == route[h].req
Now == [status |-> game[Game].status, rev |-> game[Game].rev]

(* The handler's timer and the ledger share one deadline.                  *)
LateFor(h) == ledger[Req(h)].late

Goto(h, step) == route' = [route EXCEPT ![h].step = step]
Finish(h) == route' = [route EXCEPT ![h] = Idle]
KeepRows == UNCHANGED rows
KeepLedger == UNCHANGED <<ledger, refunded>>
KeepCalls == UNCHANGED <<flying, called, crashes>>

-----------------------------------------------------------------------------
(* Entering: the statement that reads the game.                            *)

WithKey(k) == {r \in Requests : Stored(r) /\ ledger[r].key = k}

(* A client asks for the game it has on screen, which may be out of date   *)
(* by the time it is served, or repeats an earlier request unchanged.      *)
Sent(k) == {game[Game].rev} \cup {ledger[r].rev : r \in WithKey(k)}

OpenAnswer(h, k, exp) ==
  /\ route[h] = Idle
  /\ game[Game].status \in {"completed", "answer_failed", "answering"}
  /\ route' = [route EXCEPT ![h] =
       [step |-> IF game[Game].status = "answering" THEN "check" ELSE "reserve",
        get |-> FALSE, key |-> k, exp |-> exp, at |-> Now, req |-> None, turn |-> 0,
        started |-> FALSE, released |-> FALSE]]
  /\ KeepRows /\ KeepLedger /\ KeepCalls

OpenPoll(h) ==
  /\ route[h] = Idle
  /\ game[Game].status = "answering"
  /\ route' = [route EXCEPT ![h] =
       [step |-> "check", get |-> TRUE, key |-> None, exp |-> 0, at |-> Now, req |-> None,
        turn |-> 0, started |-> FALSE, released |-> FALSE]]
  /\ KeepRows /\ KeepLedger /\ KeepCalls

-----------------------------------------------------------------------------
(* reconcilePendingGame on an answering game.  Its sweep is Expire.        *)

Newest == Max({r \in Requests : Stored(r)})

Check(h) ==
  /\ Step(h) = "check"
  /\ CASE Newest \in Succeeded ->
            route' = [route EXCEPT ![h].step = "attach", ![h].req = Newest]
       [] Newest \in LiveRequests -> Finish(h)
       [] OTHER -> Goto(h, "drop")
  /\ KeepRows /\ KeepLedger /\ KeepCalls

Joined == game[Game].status \in {"answering", "answered"}

(* storeAnswerForOwner: only from the very revision the handler saw.       *)
MayStore(h) == Games!Matches(Game, At(h).rev, {"answering"})

Store(h) ==
  /\ Step(h) \in {"attach", "store"}
  /\ At(h).status = "answering"
  /\ Games!StoreAnswer(Game, At(h).rev, Req(h))
  /\ Finish(h)
  /\ KeepLedger /\ KeepCalls

(* The other outcomes report what another handler made of the game.        *)
StoreLost(h) ==
  /\ Step(h) \in {"attach", "store"}
  /\ ~(At(h).status = "answering" /\ MayStore(h))
  /\ Finish(h)
  /\ KeepRows /\ KeepLedger /\ KeepCalls

(* failAnswerForOwner.  The route reads the game again and goes on where   *)
(* the poll ends.                                                          *)
AfterDrop(h) == IF Step(h) = "drop" /\ ~route[h].get THEN Goto(h, "reread") ELSE Finish(h)

Fail(h) ==
  /\ Step(h) \in {"drop", "fail"}
  /\ At(h).status = "answering"
  /\ Games!FailAnswer(Game, At(h).rev)
  /\ AfterDrop(h)
  /\ KeepLedger /\ KeepCalls

FailLost(h) ==
  /\ Step(h) \in {"drop", "fail"}
  /\ ~(At(h).status = "answering" /\ MayStore(h))
  /\ IF Joined THEN Finish(h) ELSE AfterDrop(h)
  /\ KeepRows /\ KeepLedger /\ KeepCalls

Reread(h) ==
  /\ Step(h) = "reread"
  /\ IF game[Game].status \in Games!Terminal
     THEN route' = [route EXCEPT ![h].step = "reserve", ![h].at = Now]
     ELSE Finish(h)
  /\ KeepRows /\ KeepLedger /\ KeepCalls

-----------------------------------------------------------------------------
(* reserveModelRequest: a request with this key, or else the game's        *)
(* success, stands for the new one.                                        *)

(* Mutant: only the key is looked up.                                      *)
Existing_KeyOnly(k) == WithKey(k)

Existing(k) == IF WithKey(k) # {} THEN WithKey(k) ELSE Succeeded

Free == {r \in Requests : ~Stored(r)}
NextFree(r) == r \in Free /\ \A other \in Free : r <= other

Reserve(h) ==
  /\ Step(h) = "reserve"
  /\ Existing(route[h].key) = {}
  /\ LiveRequests = {}
  /\ \E r \in Requests :
       /\ NextFree(r)
       /\ ledger' = [ledger EXCEPT ![r] = [status |-> "reserved", key |-> route[h].key,
                                          rev |-> route[h].exp, late |-> FALSE]]
       /\ route' = [route EXCEPT ![h].step = "begin", ![h].req = r]
  /\ KeepRows /\ KeepCalls
  /\ UNCHANGED refunded

(* EXISTING, unless the digest differs.                                    *)
ReserveFinds(h) ==
  /\ Step(h) = "reserve"
  /\ \E r \in Existing(route[h].key) :
       IF ledger[r].rev = route[h].exp
       THEN route' = [route EXCEPT ![h].step = "existing", ![h].req = r]
       ELSE Finish(h)
  /\ KeepRows /\ KeepLedger /\ KeepCalls

(* A quota, a rate, another live request of the user, or the deadline.     *)
ReserveRefused(h) ==
  /\ Step(h) = "reserve"
  /\ Existing(route[h].key) = {}
  /\ Finish(h)
  /\ KeepRows /\ KeepLedger /\ KeepCalls

UseExisting(h) ==
  /\ Step(h) = "existing"
  /\ IF Req(h) \in Succeeded
     THEN Goto(h, IF At(h).status = "answering" THEN "attach" ELSE "rejoin")
     ELSE Finish(h)
  /\ KeepRows /\ KeepLedger /\ KeepCalls

-----------------------------------------------------------------------------
(* beginAnswer, for a new request or for a success found: it joins an      *)
(* answer in progress, whoever began it.                                   *)

AfterBegin(h) ==
  IF Step(h) = "rejoin" THEN "attach"
  ELSE IF game[Game].status = "answered" THEN "undo" ELSE "call"

Join(h) ==
  /\ Step(h) \in {"begin", "rejoin"}
  /\ Joined
  /\ route' = [route EXCEPT ![h].step = AfterBegin(h), ![h].at = Now]
  /\ KeepRows /\ KeepLedger /\ KeepCalls

Begin(h) ==
  /\ Step(h) \in {"begin", "rejoin"}
  /\ Games!BeginAnswer(Game, route[h].exp)
  /\ route' = [route EXCEPT ![h].step = AfterBegin(h),
                            ![h].at = [status |-> "answering", rev |-> route[h].exp + 1]]
  /\ KeepLedger /\ KeepCalls

(* Another revision, a retired game, or, for a new request, a deadline     *)
(* that passed while it was reserved: the reservation is handed back.      *)
BeginRefused(h) ==
  /\ Step(h) \in {"begin", "rejoin"}
  /\ \/ LateFor(h) /\ Step(h) = "begin"
     \/ ~Joined /\ ~Games!Matches(Game, route[h].exp, {"completed", "answer_failed"})
  /\ IF Step(h) = "begin" THEN Goto(h, "giveback") ELSE Finish(h)
  /\ KeepRows /\ KeepLedger /\ KeepCalls

-----------------------------------------------------------------------------
(* The generator: at most two turns, each announced to the ledger first.   *)

(* failProviderAttempt, before and after the first dispatch.               *)
Broken(h) == IF route[h].started THEN "unsettled" ELSE "undo"

MayStart(r) == LedgerStatus(r) \in Live /\ ~ledger[r].late

(* beginProviderCall; turn counts the calls that were announced before.    *)
BeginTurn(h) ==
  /\ Step(h) = "call"
  /\ MayStart(Req(h))
  /\ ledger' = Ended(Req(h), "in_progress")
  /\ \/ Goto(h, "fence")
     \/ Goto(h, Broken(h))   \* its reply is lost
  /\ KeepRows /\ KeepCalls
  /\ UNCHANGED refunded

(* The bridge is not ready, the deadline is past, or the ledger refuses.   *)
TurnFails(h) ==
  /\ Step(h) = "call"
  /\ Goto(h, Broken(h))
  /\ KeepRows /\ KeepLedger /\ KeepCalls

Dispatch(h) ==
  /\ Step(h) = "fence"
  /\ ~LateFor(h)
  /\ route' = [route EXCEPT ![h].step = "wait", ![h].started = TRUE, ![h].turn = @ + 1]
  /\ called' = called \cup {Req(h)}
  /\ KeepRows /\ KeepLedger
  /\ UNCHANGED <<flying, crashes>>

(* releaseReservation with the reason provider_not_started.                *)
Released(r) == IF LedgerStatus(r) \in Live THEN Ended(r, "failed") ELSE ledger

(* Mutant: any turn may be handed back.                                    *)
Undispatched_Any(h) == LedgerStatus(Req(h)) \in Live

(* providerWasAlreadyStarted forbids it.                                   *)
Undispatched(h) == ~route[h].started /\ LedgerStatus(Req(h)) \in Live

(* The deadline passed while the turn was announced: it is taken back, or  *)
(* else counts as started.                                                 *)
DispatchLate(h) ==
  /\ Step(h) = "fence"
  /\ LateFor(h)
  /\ IF Undispatched(h)
     THEN /\ ledger' = Released(Req(h))
          /\ refunded' = refunded \cup {Req(h)}
          /\ route' = [route EXCEPT ![h].step = "undo", ![h].released = TRUE]
     ELSE /\ KeepLedger
          /\ route' = [route EXCEPT ![h].step = "unsettled", ![h].started = TRUE]
  /\ KeepRows /\ KeepCalls

(* One corrective turn may follow the first.                               *)
Correct(h) ==
  /\ Step(h) = "wait"
  /\ route[h].turn = 1
  /\ Goto(h, "call")
  /\ KeepRows /\ KeepLedger /\ KeepCalls

Generated(h) ==
  /\ Step(h) = "wait"
  /\ ~LateFor(h)
  /\ Goto(h, "settle")
  /\ KeepRows /\ KeepLedger /\ KeepCalls

GenerationFails(h) ==
  /\ Step(h) = "wait"
  /\ Goto(h, "unsettled")
  /\ KeepRows /\ KeepLedger /\ KeepCalls

-----------------------------------------------------------------------------
(* settleModelRequest with the result, raced against the deadline.         *)

Send(h) ==
  /\ Step(h) = "settle"
  /\ ~LateFor(h)
  /\ Goto(h, "settling")
  /\ flying' = flying \cup {Req(h)}
  /\ KeepRows /\ KeepLedger
  /\ UNCHANGED <<called, crashes>>

SendLate(h) ==
  /\ Step(h) = "settle"
  /\ LateFor(h)
  /\ Goto(h, "caught")
  /\ KeepRows /\ KeepLedger /\ KeepCalls

(* The ledger executes it, whether or not its handler still waits.         *)
Land(r) ==
  /\ r \in flying
  /\ flying' = flying \ {r}
  /\ ledger' = IF LedgerStatus(r) # "in_progress" THEN ledger
               ELSE Ended(r, IF ledger[r].late THEN "indeterminate" ELSE "succeeded")
  /\ KeepRows
  /\ UNCHANGED <<route, called, refunded, crashes>>

Settled(h) ==
  /\ Step(h) = "settling"
  /\ Req(h) \notin flying
  /\ Goto(h, IF Req(h) \in Succeeded THEN "store" ELSE "refused")
  /\ KeepRows /\ KeepLedger /\ KeepCalls

(* The deadline or a lost connection ends the wait.                        *)
SettleBroken(h) ==
  /\ Step(h) = "settling"
  /\ Goto(h, "caught")
  /\ KeepRows /\ KeepLedger /\ KeepCalls

(* recoverCommittedResult: a success of the game for the same digest.      *)
Recovered(h) == {r \in Succeeded : ledger[r].rev = route[h].exp}

Recover(h) ==
  /\ Step(h) \in {"caught", "refused"}
  /\ \E r \in Recovered(h) : route' = [route EXCEPT ![h].step = "store", ![h].req = r]
  /\ KeepRows /\ KeepLedger /\ KeepCalls

(* Nothing was committed: an interrupted settlement is settled as a        *)
(* failure; a refused one fails the game if its request has ended.         *)
RecoverNothing(h) ==
  /\ Step(h) \in {"caught", "refused"}
  /\ Recovered(h) = {}
  /\ IF Step(h) = "caught" THEN Goto(h, "unsettled")
     ELSE IF LedgerStatus(Req(h)) \in Failed THEN Goto(h, "fail") ELSE Finish(h)
  /\ KeepRows /\ KeepLedger /\ KeepCalls

-----------------------------------------------------------------------------
(* The ways out without an answer.                                         *)

(* settleDefinitiveFailure, then reconcileTerminalAnswerFailure.           *)
Unsettled(h) ==
  /\ Step(h) = "unsettled"
  /\ IF LedgerStatus(Req(h)) = "in_progress"
     THEN \E status \in IF ledger[Req(h)].late THEN {"indeterminate"} ELSE Failed :
            ledger' = Ended(Req(h), status)
     ELSE UNCHANGED ledger
  /\ IF Req(h) \in Succeeded THEN Finish(h) ELSE Goto(h, "fail")
  /\ KeepRows /\ KeepCalls
  /\ UNCHANGED refunded

(* The outer catch, when nothing was dispatched: releaseBeforeProvider,    *)
(* then failAnswerForOwner for the game it began or joined, if any.        *)
Undo(h) ==
  /\ Step(h) \in {"undo", "giveback"}
  /\ IF ~route[h].released /\ LedgerStatus(Req(h)) \in Live
     THEN /\ ledger' = Released(Req(h))
          /\ refunded' = refunded \cup {Req(h)}
     ELSE KeepLedger
  /\ IF Step(h) = "undo" /\ At(h).status = "answering" THEN Goto(h, "fail") ELSE Finish(h)
  /\ KeepRows /\ KeepCalls

-----------------------------------------------------------------------------
(* Around the route.                                                       *)

(* operation_deadline_at, which the ledger and the handler share.          *)
Late(r) ==
  /\ r \in LiveRequests
  /\ ~ledger[r].late
  /\ ledger' = [ledger EXCEPT ![r].late = TRUE]
  /\ KeepRows /\ KeepCalls
  /\ UNCHANGED <<route, refunded>>

(* A sweep, by the watchdog, a reservation or a poll.                      *)
Expire(r) ==
  /\ r \in LiveRequests
  /\ ledger[r].late
  /\ IF LedgerStatus(r) = "reserved"
     THEN ledger' = Ended(r, "failed") /\ refunded' = refunded \cup {r}
     ELSE ledger' = Ended(r, "indeterminate") /\ UNCHANGED refunded
  /\ KeepRows /\ KeepCalls
  /\ UNCHANGED route

(* The owner replays another game or starts a new one, which needs the     *)
(* user's concurrency slot, or abandons this one.                          *)
PlayElsewhere ==
  /\ \/ \E rev \in 0..MaxRevision : Games!ReplayGame(Upcoming, Other, rev)
     \/ LiveRequests = {} /\ Games!CreateDivision(Upcoming)
     \/ \E rev \in 0..MaxRevision : Games!AbandonGame(Game, rev)
  /\ KeepLedger /\ KeepCalls
  /\ UNCHANGED route

Crash(h) ==
  /\ route[h] # Idle
  /\ crashes < MaxCrashes
  /\ crashes' = crashes + 1
  /\ Finish(h)
  /\ KeepRows /\ KeepLedger
  /\ UNCHANGED <<flying, called>>

-----------------------------------------------------------------------------
Finished(current) ==
  [status |-> "completed", rev |-> 3, current |-> current, source |-> None,
   ended |-> TRUE, answer |-> None]

Init ==
  /\ game = [g \in GameIds |-> IF g \in {Game, Other} THEN Finished(g = Game) ELSE None]
  /\ starts = [g \in GameIds |-> None]
  /\ used = 0
  /\ latest = Game
  /\ ledger = [r \in Requests |-> None]
  /\ route = [h \in Routes |-> Idle]
  /\ flying = {}
  /\ called = {}
  /\ refunded = {}
  /\ crashes = 0

(* What an invocation does next; every wait of it ends.                    *)
Progress(h) ==
  \/ Check(h) \/ Store(h) \/ StoreLost(h) \/ Fail(h) \/ FailLost(h) \/ Reread(h)
  \/ Reserve(h) \/ ReserveFinds(h) \/ ReserveRefused(h) \/ UseExisting(h)
  \/ Join(h) \/ Begin(h) \/ BeginRefused(h)
  \/ BeginTurn(h) \/ TurnFails(h) \/ Dispatch(h) \/ DispatchLate(h)
  \/ Correct(h) \/ Generated(h) \/ GenerationFails(h)
  \/ Send(h) \/ SendLate(h) \/ Settled(h) \/ SettleBroken(h)
  \/ Recover(h) \/ RecoverNothing(h) \/ Unsettled(h) \/ Undo(h)

Next ==
  \/ \E h \in Routes :
       \/ \E k \in Keys : \E exp \in Sent(k) : OpenAnswer(h, k, exp)
       \/ OpenPoll(h)
       \/ Progress(h)
       \/ Crash(h)
  \/ \E r \in Requests : Land(r) \/ Late(r) \/ Expire(r)
  \/ PlayElsewhere

Spec == Init /\ [][Next]_vars

(* A handler in flight goes on unless it is lost, a client with an         *)
(* answering game on screen keeps polling it, deadlines pass, settlements  *)
(* arrive and sweeps are made.                                             *)
FairSpec ==
  /\ Spec
  /\ \A h \in Routes : WF_vars(Progress(h)) /\ SF_vars(OpenPoll(h))
  /\ \A r \in Requests : WF_vars(Land(r)) /\ WF_vars(Late(r)) /\ WF_vars(Expire(r))

-----------------------------------------------------------------------------
(* Properties.                                                             *)

(* Rows and copies have their types; an attempt makes two calls at most.   *)
TypeOK ==
  /\ game \in [GameIds -> Games!Row \cup {None}]
  /\ ledger \in [Requests -> Request]
  /\ \A h \in Routes : route[h] = Idle \/ route[h] \in Invocation
  /\ flying \subseteq Requests /\ called \subseteq Requests /\ refunded \subseteq Requests
  /\ crashes \in 0..MaxCrashes

(* The answer of a game is a result the ledger committed as the success of *)
(* one of its requests, whichever of handler, retry and poll stored it.    *)
AnswersAreWinners ==
  game[Game].answer # None => game[Game].answer \in Succeeded

(* A use is given back only for a call that never left: not after a first  *)
(* turn, not when the start's reply was lost and the turn was made after   *)
(* all.                                                                    *)
RefundsNotDispatched == refunded \cap called = {}

(* The game, the ledger and the provider agree on an answer: what the game *)
(* holds was won, and what was given back was never sent.                  *)
AnswersAreSound == TypeOK /\ AnswersAreWinners /\ RefundsNotDispatched

(* A paid answer is not paid for again: once a request of the game has     *)
(* succeeded, no other is called.                                          *)
NoCallAfterSuccess == [][Succeeded # {} => called' = called]_vars

(* docs/ARCHITECTURE.md, recovery of model requests: the durable result    *)
(* payload is the recovery authority when attachment was interrupted, so a *)
(* committed success reaches its game, unless the owner abandons that.     *)
PaidAnswersAttached ==
  Succeeded # {} ~> game[Game].answer # None \/ game[Game].status = "abandoned"
=============================================================================
