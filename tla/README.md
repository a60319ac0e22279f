# WebChess: formal models

TLA+ models of the server that runs WebChess games, their model checking with
TLC, and proofs checked by TLAPS.  Paths are relative to the repository root.

## 1. The system and its parts

WebChess takes a problem, has a model divide it into the 64 squares of a
cylindrical chess board (Anansi), lets the player or two engines play a game of
circular chess, reads a direction off the final position, and sends it through
a chain of reviews (Portia, a deterministic Gate, the Answer, Charlotte) before
the player acts on it (Wilbur) or keeps it (the Web).  Every paid model call is
admitted and settled by a durable ledger in PostgreSQL.

| Component | Code | State | Operations |
|---|---|---|---|
| Usage ledger | `src/server/usage/{queries,service}.ts` | requests, four concurrency slots with leases, daily and hourly buckets, account controls and tombstones | reserve, attach, begin, settle, release, reconcile, replay start, delete account, rate checks |
| Watchdog | `src/server/openclaw/usage-reconciliation-watchdog.ts` | a timer | reconcile every 10 s, rearm |
| Games repository | `src/server/games/repository.ts` | games and append-only events with a revision | create or find a division, finish or fail it, start, move, begin/store/fail an answer, abandon |
| Lifecycle rules | `src/lib/lifecycle/*.ts` | none (pure) | state table, gate, retry decision, survivors, trajectory record |
| Lifecycle repository | `src/server/lifecycle/repository.ts` | runs, transitions, Portia and Charlotte attempts, gates, Wilbur actions, observations, mutation requests, Web memory | begin/progress/fail/store attempts, store gate, create retry run, claim/settle mutations |
| Service adapter | `src/server/http/service-adapter.ts` | deadlines and promises of one request | divide, answer, review, act: reserve -> begin -> call -> settle -> store, and the recovery of each |
| Handlers and auth | `src/server/http`, `src/server/auth` | local session | parse, authorise, dispatch |
| Data control | `src/server/http/data-control-service-core.ts` | none of its own | export, delete account |
| Chess rules and engine | `src/lib/{game,game-replay,board}.ts`, `src/lib/engine` | position, history | legal moves, apply, outcome, search |
| Research | `src/server/research` | research operations, sources, budgets | plan, search, fetch, record |
| Model calls | `src/server/openai`, `src/server/openclaw`, `openclaw-plugin` | one turn at a time | prompt, call, validate, correct, cancel |
| Case bundle | `src/server/case-bundle.ts` | none | export, verify |
| Database | `src/server/db`, `db/migrations` | schema version | migrate, transact |
| Browser client | `src/App.tsx`, `src/lib/{webchess-api,auto-play}.ts` | one game view | poll, retry, auto-play |
| Scripts | `scripts` | none | deploy, package |

How they interact: a handler calls the adapter; the adapter makes one
transaction after another against the ledger, the games repository and the
lifecycle repository, with the model call between two of them.  Nothing ties
those transactions together except idempotency keys, leases and the recovery
code, so a process may stop between any two, and two handlers, the watchdog and
an account deletion interleave at every boundary.

What makes it hard, component by component, is the list `hazards` in
`PROJECT.json`; each names the properties that answer it.

## 2. Modules

| Module | Models | Checked in |
|---|---|---|
| `UsageLedger` | the usage ledger: requests, slots, daily buckets, accounts | `ledger_accounts`, `ledger_watchdog` |
| `ModelCalls` | what the ledger promises, abstractly: calls that wait, are made, and are won or lost | |
| `UsageLedgerRefinement` | the mapping under which `UsageLedger` implements `ModelCalls` | `ledger_accounts` |
| `Lifecycle` | the pure policy: state table, Gate, retry decision | with the next two |
| `ModelStages` | one run from a finished game through Portia and the Gate to Charlotte | `stages_safety`, `stages_live` |
| `RetryLineage` | the runs that descend from one root by Retry | `retry_race`, `retry_stale`, `play` |
| `GameStore` | an owner's games, their event logs, and replay starts | `games` |
| `AnswerRoute` | the board answer of one game: route, poll, ledger rows and game row together | `answers`, `answers_paid` |
| `DivisionRoute` | divisions: the route, the polls that finish what it left, memories, the first run | `play`, `division_lost` |
| `WilburLedger` | Wilbur's three mutations over their durable requests | `answers`, `wilbur_envelope` |
| `Research` | one stage's external research: claim, search, page fetches, deadline | `answers` |
| `ProviderTurns` | the local build's model turns: shared services, leases, corrections | `answers` |
| `BridgeTurns` | the loopback bridge: guard, admission, cancellation, draining, shutdown | `play` |
| `Launcher` | the launcher's identity, staged runtime, bridge and server | `answers` |
| `CodexSearch` | the attestation of the package a search runs | `answers` |
| `Client` | the page: intents, keys, locks, polls, engine requests | `play` |
| `EngineFacade` | the page's engine: workers, timers, supersession | `play` |
| `EngineSearch` | the move search and its table | `games` |
| `CircularChess` | the rules, the mutable position and the replay of a stored game | `games` |
| `CaseBundle` | what a case is made of, its export and its verification | `play` |

The `...Proofs` modules extend the module they prove about and model nothing
(section 3).

`MCUsageLedger`, `MCModelStages`, `MCRetryLineage`, `MCGameStore`,
`MCAnswerRoute`, `MCDivisionRoute` and `MCWilburLedger` are small instances.
`MCGames`, `MCServices` and `MCPlay` put small instances of several
components into one run each: the initial state chooses the component under
check (`part`), its actions alone are enabled from then on, and the variables
of the others are `None` or keep their initial value, so the state space is
the sum of the components', not their product.  `MCServices` and `MCPlay` take
their sets of processes, keys and requests and their bounds as constants, so
that `ServicesProofs` and `PlayProofs` can prove about them for any.  `MCGames`
holds the components that recurse over data.  Components that really
interact are composed in a module of their own (below).

`ModelStages` and `RetryLineage` extend `Lifecycle`.  `ModelStages` follows one
run and takes from the ledger what `UsageLedger` establishes: a user has one
live request, a terminal request is never revived, an operation succeeds once
for a game, and an expired lease is swept.  `RetryLineage` takes a run's way
from a finished game to its Gate, which `ModelStages` details, as one step.
`AnswerRoute` instantiates `GameStore` without moves and writes the game's row
only by its actions; the run it needs has passed its Gate (`ModelStages`), and
of the ledger it keeps this game's answer requests.  `DivisionRoute` keeps the
rows that ledger, games and lifecycle repository hold of one account's
divisions.  `CaseBundle` changes the same tables one statement at a time in
the orders the routes allow, because an export may read between any two.

### UsageLedger

Every controller method of `service.ts` runs one transaction that first takes
the advisory lock `webchess-usage-reservation-v1`, and reads the clock only
after it has the lock (`effective_time`).  Each is therefore one action, and
what the SQL does before its decision (sweeping expired leases, making bucket
rows, upserting the user) is part of that action.

| Variable | Table |
|---|---|
| `requests` | `model_requests`; ids are never reused, so `"erased"` marks a deleted row |
| `slots` | `model_concurrency_slots`: the request a slot holds and its lease's end |
| `userModel`, `userGames`, `globalModel` | `usage_buckets`, one record per day; a missing row is a zero record |
| `account` | `user_controls` and `deleted_user_tombstones` |
| `shells` | `games` rows, named by the request that created them |
| `now` | the database clock |

| Action | Code |
|---|---|
| `Reserve` | `reserveModelRequest` admitted (`buildReserveModelRequestStatement`) |
| `ReserveRefused` | the same transaction refused: it still sweeps and still records the user |
| `CreateShell`, `Attach` | `getOrCreateDivision`; `attachModelRequestGame` |
| `Begin`, `Renew` | `beginProviderCall`: first turn, and `ALREADY_STARTED` for later turns |
| `Settle`, `SettleDuplicate`, `SettleLateAnswer` | `settleModelRequest`: its three branches that write |
| `Release` | `releaseReservation`, before the call or, with `provider_not_started`, after a start never dispatched |
| `Reconcile` | `reconcileExpiredLeases`, run by the watchdog |
| `DeleteAccount` | `deleteAccountData` and `deleteAccountGames`, forced or not |
| `Suspend`, `Restore`, `Tick` | outside the program: an operator, the clock |

A call that only reads (an idempotent repeat, a denied transition, an unchanged
settlement) leaves every variable as it is and is a stuttering step.  The
callers are the most general ones: any transition may be attempted on any
request at any time, which covers repeated, late, reordered and lost calls and
handlers that stop anywhere.

Abstracted, and why it does not change what the properties say:

- A lease token is made with the reservation and matched together with the
  slot's request; it stands and falls with it and is not a variable.
- Hourly windows and temporary blocks can only refuse a reservation, which
  `ReserveRefused` covers; per-user limits replace a constant by another.
- The request digest distinguishes `EXISTING` from `IDEMPOTENCY_CONFLICT`;
  neither writes.
- Result payloads, token counts and the provenance a late timeout records are
  data no property here reads.
- A client's `requestedAt` may be older than the lock by `MaxWait`.

### Lifecycle

Operators only: `Transitions` and `CanTransition` (`state-machine.ts`),
`Passes`, `FieldOrStop` and `Recommend` (`gate.ts`), `DecideRetry` and
`CanReopen` (`retry.ts`).  A review is what the policy tells apart: Portia's
decision, whether any other sufficiency requirement is missing, and whether the
field looks broken; the arithmetic over coverage tags that yields the latter
two is left out.

### ModelStages

| Variable | Meaning |
|---|---|
| `run` | the `lifecycle_runs` row: state, revision, active request, failed attempts, assessment drafts |
| `review`, `gate`, `quality` | the stored review, judged review and qualification, named by the request that made them |
| `answered` | the game has its board answer |
| `ledger` | this game's rows of `model_requests` |
| `handler` | what a route handler holds between two statements: the row it read, its request, the result it brings |
| `crashes`, `called`, `counted` | history and its bound |

| Action | Code |
|---|---|
| `Poll` | `getLifecycle`, and the prologue of `runPortia`, for a running stage or a hopeless Gate |
| `OpenPortia`, `Prepare` | `runPortia`, `preparePortia` |
| `OpenCharlotte`, `Authorize` | `runCharlotte`, its step from `gate_passed` |
| `Reserve*`, `Begin` | `reserveModelRequest` and its answers; `beginProviderCall` |
| `Attempt` | `beginPortiaAttempt`, `beginCharlotteAttempt` |
| `Load`, `Assess`, `Generated`, `Generation*` | the generator: first prompt, `onProgress` with `updatePortiaProgress`, and how it ends |
| `Settle*` | `settleModelRequest`, `recoverCommittedResult`, `settleDefinitiveFailure` |
| `Reconcile`, `Fail` | `reconcileRunningLifecycleModel`; `failPortiaAttempt`, `failCharlotteAttempt` |
| `StorePortia`, `StoreCharlotte`, `Reread`, `Judge`, `Conclude` | `storePortia`, `storeCharlotte`, `storeGate`, `concludeInsufficientBasisGate` |
| `AnswerBoard`, `Expire`, `Crash` | the Answer route, the lease sweep, a lost handler |

Each repository method is a single SQL statement whose WHERE clause compares
revision, state and active request with the handler's copy, so it is one
action; everything a handler does between two statements is local.  Drafts
stand for the assessments of signals, each named by the request that made it,
so a lost or rewritten one is visible.  Digests, prompt versions and the
validation of payloads are constant along one run and are left out.

### RetryLineage

| Variable | Meaning |
|---|---|
| `runs` | `lifecycle_runs` by game: state, parent, coordinates, both counters, fingerprint, verdict |
| `child` | the games Retry started, by idempotency key |
| `handler` | what a `retryLifecycle` invocation holds |

| Action | Code |
|---|---|
| `FinishGame`, `JudgeRun`, `ConcludeGate` | `synchronizeLifecycleWithGame`; review and Gate; `concludeInsufficientBasisGate` |
| `Open`, `Decide` | `retryLifecycle`: the row it reads; then `hasPriorTerminalFingerprint` and `decideRetry` |
| `Stop` | the transition to `insufficient_basis` |
| `Grant`, `Refused` | `consumeReplayGameStart`, or a quota or key that refuses |
| `Weave`, `Settled`, `Found` | the regenerated division: shell, outcome, a shell found again |
| `ReadParent`, `Authorize`, `Start`, `Insert` | `createRetryRun`: reads, two compare-and-set transitions, the INSERT with its unique index and CHECKs |

A failed run's states never recur, so the state takes the place of the revision
in a compare-and-set.  A root run starts fresh or, as the comment above
`canReopenInsufficientBasis` describes, stopped by an older Gate with its
regeneration unspent.

### GameStore

| Variable | Table |
|---|---|
| `game` | `games`: status, revision, current flag, source, whether an outcome is stored, answer |
| `log` | `game_events` of each game in ply order; a forced pass shares its move's revision |
| `starts`, `used` | `game_start_requests` by key; the replay starts in the user's bucket |
| `handler` | what an `appendMove` or `getOwnedGame` holds between two statements |
| `latest`, `acked` | history: the game started last, what a move was answered when it committed |

| Action | Code |
|---|---|
| `CreateDivision`, `FinishDivision`, `FailDivision`, `StartGame`, `BeginAnswer`, `StoreAnswer`, `FailAnswer`, `AbandonGame` | the repository methods of these names, each one SQL statement that compares the caller's revision |
| `ReplayGame` | `consumeReplayGameStart`: consume, activate and verify in one transaction |
| `OpenView`, `View` | `getOwnedGame`: the row, then `snapshotForRow` |
| `OpenMove`, `OpenRepeat`, `LookUp`, `Replay`, `Commit` | `appendMove`: the row, the key, the replayed position, the one statement that updates and appends |
| `LoseRace`, `LookUpRaced`, `AnswerEcho` | its recovery when the statement matched no row, and `duplicateMoveResult` |

Abstracted: a move has any of the results a legal move may have (`Results`);
the digest of a move request is the revision it expects, so a key reused for
another move is one reused at another revision; a request refused before its
first write leaves nothing and is no step; answers are model values; the quota
of a replay is the number of starts of one day.  Account deletion and the
reservation behind a division belong to `UsageLedger`, the choice of a replay's
source to `RetryLineage`.

### AnswerRoute

| Variable | Meaning |
|---|---|
| `game`, `starts`, `used`, `latest` | `GameStore`'s |
| `ledger` | the game's answer requests in the order of creation: status, key, the revision its digest pins, whether its deadline is past |
| `route` | what an invocation of `answer`, `getGame` or `getCurrentGame` holds: its copy of the game, its request, how many turns it made, `providerStarted`, `providerReleasedBeforeDispatch` |
| `flying` | success settlements the database has not executed yet |
| `called`, `refunded`, `crashes` | history and its bound |

| Action | Code |
|---|---|
| `OpenAnswer`, `OpenPoll` | `answer` up to its first branch; the two GET routes on an answering game |
| `Check` | `reconcilePendingGame`: the latest request decides; its sweep is `Expire` |
| `Store`, `StoreLost`, `Fail`, `FailLost`, `Reread` | `storeAnswerForOwner`, `failAnswerForOwner`, the second read of the game |
| `Reserve`, `ReserveFinds`, `ReserveRefused`, `UseExisting` | `reserveModelRequest` and what the route makes of its answer |
| `Begin`, `Join`, `BeginRefused` | `beginAnswer`, which also joins an answer someone else began |
| `BeginTurn`, `TurnFails`, `Dispatch`, `DispatchLate` | `onProviderTurnStart`: the ledger's fence, then the deadline once more |
| `Correct`, `Generated`, `GenerationFails` | the generator: one corrective turn, a result, an error |
| `Send`, `SendLate`, `Land`, `Settled`, `SettleBroken` | the settlement, raced against the deadline; it executes whether or not anyone waits |
| `Recover`, `RecoverNothing`, `Unsettled`, `Undo` | `recoverCommittedResult`, `failProviderAttempt`, the outer catch |
| `Late`, `Expire`, `PlayElsewhere`, `Crash` | the deadline; a sweep; a replay, a new division or an abandonment by the owner; a lost handler |

`beginAnswer`, `storeAnswer` and `failAnswer` read the game before or after
their UPDATE only to choose between an error and the row someone else made;
each is one action at the statement that decides.  When the deadline fires the
generator runs on in the background; its next start is refused by the deadline
or by the ledger and changes nothing, so only the route is followed.  The
handler's timer and the ledger's deadline are one instant.  A success is stored
as the id of its request.  A success rejected as a duplicate needs two live
requests of one user, which the ledger excludes (`SlotsMatchWork`); the status
`rejected` is left out.

### ModelCalls and the refinement

`ModelCalls` knows calls and who asked for them: at most `Limit` calls are
alive and one of each caller; a call waits, is made and is won, or is lost at
any moment, in groups; a caller's calls may all be forgotten.
`UsageLedgerRefinement` maps a row's status to a stage and its user to the
owner.  The interesting part is what `ModelCalls` does not have: the ledger
never counts rows, it looks for a free slot and for a lease of the same user.

### DivisionRoute

| Variable | Meaning |
|---|---|
| `request`, `game`, `current` | a division's ledger row, its game's status, the account's current game |
| `links`, `runs` | divisions whose memories are linked; games that have a lifecycle run |
| `handler`, `told`, `faults` | what a call of `divide` or a read of a game holds; the outcomes answered (history); bound |

`Reserve` and `Existing` are the ledger's answers to `divide`, `Poll` a read of
a dividing game; `Route` is the next statement of a handler: shell, memory
links, attachment, provider start, provider turn, settlement, game finish, run
creation, and the error path; for a poll, `reconcilePendingGame` (`Verdict`).
`SettleUnheard` and `Throw` lose the reply of a settlement or fail a statement,
the one with which a duplicate finishes or fails the game it reconciles included;
`Expire` is the sweep, `Start` the player, `Crash` a lost handler.  The run is
made by `divide` only, so a division that a poll finished has a game and no run
until the key is sent again.

### WilburLedger

| Variable | Table |
|---|---|
| `run`, `actions`, `observed`, `events` | lifecycle state, actions, observations, Wilbur events |
| `requests` | `wilbur_mutation_requests` by key: status, intent, reservation, stored result |
| `rate` | the hour's admissions of the user and of the address |
| `handler`, `replies`, `crashes` | what a route holds; results given (history); bound |

`Snapshot` and `Claim` are the one claim statement: its snapshot is taken
before its advisory lock is granted, which READ COMMITTED allows and the model
keeps apart.  `Admit` and `Readmit` are the hourly admission, `Again` the second
claim, `Create`, `Update`, `Observe` the write with its commit in one statement,
`Lose` a write that found its row moved, `Settle` and `Raced` the recorded
denial, `Recover` the replay of a result, `Age` the 24 hours after which a
pending claim expires.

### Research

`research` is the `research_requests` row, `policy` what the plan decided,
`caller` what each handler holds, `page` the fetch under way.  A caller looks
the row up (`LooksUp`), claims or records a policy refusal, searches, takes the
sources (`Finds`), fetches pages hop by hop (`OpensPage`, `Resolves`,
`Requests`, `Redirects`, `PageRead`, `PageRefused`) and completes or fails the
row.  `contacts` remembers every connection made.  The broker returns
`repository.complete(...)` from inside its `try` without awaiting it, so a
completion that is refused is not turned into a failure row by that `catch`;
`Completes` models it so.

### ProviderTurns, BridgeTurns, Launcher, CodexSearch

`ProviderTurns`: `createServices` is shared and made once; an attempt begins
under a lease, renews it before each turn, opens one loopback request that
settles once (response, transport error, deadline, abort) and is accepted,
corrected once, or given up; the ledger may take the lease at any time.

`BridgeTurns`: start-up runs its checks in order under the configuration guard;
`Enter`, `ReadModel`, `ReadSearch`, `Stage`, `Dispatch` are the awaits of a
request handler; an abort detaches the handler from a provider execution that
runs on (`live`, `draining`); `ledger` is the bounded list of turn records;
`Close` drains.  The facts a stage re-checks drift between any two awaits.  What
`live` holds of a cancelled request is a model turn or the dependency of a
status: a cancelled search is followed for the 1.25 s it keeps its slot, a
detached preflight stage not at all.

`Launcher`: identity file (created exclusively, written after), payload
verification, staging and comparison, bridge, server, shutdown; `Killed` ends a
launch at any step and leaves what it started.

`CodexSearch`: inspection, hash and seal of each file, re-hash around loading,
client start-up with aborts and failures; `Rewrite` is the host changing a
file, with or without restoring it.  The package is code of others: the model
assumes that, once it has asked for a client, it waits for that client or for the
abort.

### Client, EngineFacade, EngineSearch, CircularChess

`Client`: `intent` is the key each operation keeps in a ref together with the
game it was made for, `locked` the divisions and replays whose target is
unresolved, `wire` the requests the network still holds, to be executed or lost
later.  A kept key is used again only for its game (for start and reset, for
its revision too); for another game the operation mints a new one and lets the
old one go.  `closed` holds the keys whose fate the page has learnt and those
it has let go of.  The service is external:
it executes a key once and refuses a request whose game has moved.  Answer and
Wilbur requests take an HTTP 5xx for an open fate and keep their key; start,
replay, retry and reset take it for a refusal and drop it.  A 5xx counts as an
answer in `ClientIsCareful`: what a request left behind before it failed so is
found by reading the current game, not by its key.

The stronger claim, that the page keeps every key whose request may still make
a game, is false of the code: there is one replay intent.  A replay of game A
answers 5xx, is replayed again and delayed in the network; a poll brings the
child of the first execution to the screen; when that child is finished and
replayed, its key takes the place of A's, whose request may still run.  What is
left then to find the game is the read of the current game, so letting go is
part of what `ClientIsCareful` says.

`EngineFacade`: `chooseMove`, supersession, worker failure, watchdog and the
timer on the main thread, with the event queue between them.

`EngineSearch`: one behaviour is one request; `Iterate` is a root search of one
depth, `Widen` its repetition with a full window.  The functions of
`search.ts` are recursive operators over a record of table, killers, history,
node count and stop.  The board is a constant graph.

`CircularChess`: `Accept` is `applyMove` with forced passes and the end of the
game; `OpenSearch`, `Make`, `MakePass`, `Unmake` move the engine's position;
`Replayed` is `game-replay.ts`.  Rings end and sectors wrap.

### CaseBundle

Its actions are the committed statements of the routes, reduced to what an
export reads; `Exports(p)`, `Bundle(p)` and `Verifies` are the export under a
profile and the verifier.  A digest is the thing it digests.  `Research` begins a
search or finds it not needed, `Discover` and `GiveUp` end it, and Portia is asked
for afterwards.  A search brings up to `SourceLimit` sources and asks for at most
`FetchLimit` of their pages, the more trusted hosts first; a source beyond them has
neither a page nor a failure.  Each statement of the research writes an activity
that leaves the run where it is.

### Checked properties

An invariant that is a conjunction of named parts is listed with its parts.

| Property | Kind | Says |
|---|---|---|
| `UsageLedger!TypeOK` | invariant | rows have their types; counters never go below zero |
| `SlotsMatchWork` | invariant | work is active iff exactly one slot holds it; a user holds one slot |
| `BooksBalance` | invariant | `UserBucketsBalance`, `GlobalBucketBalances`: each counter equals the rows it stands for, so a clamp never hides a double refund; `QuotasHold`: used plus reserved never exceeds a limit |
| `NothingPaidTwice` | invariant | `OneSuccessPerGame`: the partial unique index is never hit; `OneCallPerIntent`: one key, one started provider call |
| `ImplementsModelCalls` | refinement | every transaction is a step of `ModelCalls` |
| `AnswerFenceFixed` | invariant | no renewal takes an answer's lease past its deadline plus headroom |
| `DeletionLeavesNothing` | invariant | a deleted account keeps no row and no count |
| `TerminalIsFinal` | action | an ended request never changes status |
| `AnswerSucceedsInTime` | action | no success after the deadline, which never moves |
| `EveryRequestEnds` | liveness | an admitted request ends although its handler vanished |
| `AttemptsAreCounted` | invariant | a stage runs iff a started request fences it; `FailuresCountOnce`: a failed call is charged once, whoever finds it; `CallsWithinLimit`: the generator is called within the budget |
| `ResultsAreSound` | invariant | `ResultsAreWinners`: what is stored succeeded in the ledger, and the Gate judged it; `PaidResultsKept`: a success is stored or still awaited; `QualifiesApprovedAnswers`: Charlotte works on an approved board answer |
| `DraftsOnlyGrow` | action | persisted assessments are never lost or rewritten |
| `StagesEnd` | liveness | `AttemptsEnd`, `ResultsAttached`, `HopelessGatesConclude` |
| `RepairsHappenOnce` | invariant | racing Retries make each repair of a run once, under a running parent, and one new field per lineage |
| `RetriesComplete` | liveness | a Retry that has begun leaves its child, unless a handler is lost |
| `LineageIsSound` | invariant | `LineageIsBoundedChain`: sequential Retries leave a chain of at most four runs; `NoReplayOfDuplicates`: no replay after an ecology the lineage had seen |
| `StopsOnlyExhausted` | action | no run is given up while the regeneration is left, or when it has a child |
| `GamesAreConsistent` | invariant | `CurrentIsNewest`, `RowsMatchReplay`, `ReadsAreConsistent`: one current game, rows that say what their log replays to, and outdated rows that still read the events that fit them |
| `CountedOnce` | invariant | `MovesCountOnce`, `ReplaysCountOnce`: one key, one move, one replay, one charge |
| `RetiredGamesFrozen` | action | a replaced game takes no write but abandonment |
| `AnswersAreSound` | invariant | `AnswersAreWinners`: a stored answer is a result the ledger committed; `RefundsNotDispatched`: a use is given back only for a call that never left |
| `NoCallAfterSuccess` | action | once an answer is paid for, no provider turn is made for the game |
| `DivisionsAreAccounted` | invariant | a field exists only where a linked request paid for it, a run only where a field exists; no two answers for one division contradict each other |
| `OnlyDuplicatesAbandon` | action | nothing but the error path of a duplicate divide fails a game whose provider was called and whose outcome may be a success |
| `DividingEnds` | liveness | a linked division that stays current is decided |
| `LedgerIsExact` | invariant | `MutationsHappenOnce`, `RepliesRepeat`, `AddressSpared`, `EnvelopeNearlyHolds`: what Wilbur stores is what committed requests asked for, once; a retry hears the first result; a rejected user spends nothing of the address; overlapping claims exceed the envelope by at most one claim each |
| `ResearchIsSettledOnce` | invariant | one search is paid for, every caller acts on the stored outcome, a run goes on only with one, and no connection leaves the source's host |
| `TurnsAreSpentOnce` | invariant | keys are fresh, at most one turn goes out after the lease is lost, stored parts are not asked again |
| `BridgeAccounts` | invariant | slots, draining work, turn records and the configuration guard account for every model turn, status and request that runs |
| `NoTurnOverlapsCancelled` | action | no model turn starts while a cancelled one still runs |
| `LaunchesAreClean` | invariant | one identity, servers run what was verified, an ended launch leaves nothing |
| `SearchIsAttested` | invariant | the sealed code that runs is the reviewed code; client processes are owned by live searches |
| `ClientIsCareful` | invariant | `DoubtsAreHeld`, `GamesAreReached`, `EngineMovesFit`: a key whose request may still run is kept, and a division or replay locks "new question", unless the operation let go of it for another game; every game made is heard of, reachable by a kept key, or of a key let go; and an engine search is for the game shown |
| `EngineAnswersOnce` | invariant | every request is answered once, by its own worker or not at all; one worker runs |
| `SearchIsExact` | invariant | the published score is the plain minimax value of the deepest completed depth, and the published line a legal game that attains it |
| `MovesAreSound` | invariant | no move is generated twice; captures, tactical moves and attack scans agree with the moves |
| `PositionIsExact` | invariant | the incremental hash is the fresh one, and unmaking everything restores the game's position |
| `GameReplays` | invariant | the stored stream replays to the state it was accepted in, and none of its alterations replays at all |
| `CasesVerify` | invariant | `ExportsOutsideWindows`: an export is refused in four named windows and nowhere else; `MixedCopiesFail`, `LossesAreCaught`: a mixed copy does not verify, nor one that lost a move, an activity, a source or a move of its record; nothing is claimed of a last source with no page beside it |

### Runs and bounds

| Run | Instance | What it can reach |
|---|---|---|
| `ledger_accounts` | 2 users, 2 requests (division, portia), 2 keys, 2 slots, limits 2, 2 and 1, day 2, clock 3 | deletion and suspension under reserved, running and expired work of the same and another user; an intent retried after failure, refund, loss; siblings attached to one game; every daily limit met, with refunds and expiries in between; both days |
| `ledger_watchdog` | 1 user, 2 requests (division, answer), 1 slot, lease 3, answer 2, headroom 1, day 3, clock 8, reservations until 1 | a lease that ends before, at and after the answer deadline; renewals; refunds on a later day; every handler crash point; a full set of slots |
| `stages_safety` | 2 handlers, 4 requests, 2 signals, limit 2, 1 crash, any review | a budget spent with drafts carried from one attempt to the next, under a poller and a late handler; both stages one after another, each with a failed attempt and a late result |
| `stages_live` | 2 handlers, 2 requests, 1 signal, limit 2, 1 crash | a handler lost at any statement of either stage |
| `retry_race` | 2 handlers, 2 keys, 2 ecologies, 1 crash | two Retries of one run at every interleaving of their statements, both to their end or one lost at any of them |
| `retry_stale` | 2 handlers, 4 keys, 3 ecologies, one kind of review | finding 1 |
| `games` | 3 games, 2 keys, 2 handlers, 1 replay a day, revision 4, games that exist plus keys in use at most 4 (`Bounded`); board: 3 setups on 5 rings and 6 sectors, 3 plies, lines of 2; engine: 6 positions, table of 5 slots, every evaluation with 3 values, budgets that run out or not | two tabs moving in one game at every interleaving of their statements, one a repeat after the game went on; a forced pass that ends a game; a replay repeated after a third game; sliding pieces that meet themselves round the cylinder, promotion, forced passes; table collisions, cut-offs and aborts at any node |
| `answers` | answers: 2 invocations, 2 attempts, 2 keys, 1 crash; Wilbur: 2 handlers, 2 keys, 3 intents, 1 crash, limits that both requests meet; adapters: 2 attempts, 2 candidates; research: 2 callers, 3 sources, 2 pages, 2 redirects, 1 death; launcher: 2 launches, 2 payloads; search: 2 searches, 2 edits | two of everything at every interleaving, one lost midway |
| `answers_paid` | 2 invocations, 1 attempt, 1 crash | finding 2 |
| `division_lost` | 2 divides of one key with a memory, no fault | finding 3 |
| `wilbur_envelope` | 2 handlers, 2 keys, 5 rows | finding 4 |
| `play` | division: 2 divides, 1 poll, 1 fault; lineage: 1 handler, 4 keys, 3 ecologies, 1 crash; facade: 3 requests, 2 workers; page: 4 keys, 2 faults, 1 ply, 1 read; bridge: 2 requests, 1 turn identity, 2 slots, 1 record; case: 2 plies, 3 requests, 2 sources, 1 page, failure limit 2, 1 answer, 1 action | a division lost at each of its statements; one key more than a lineage's budget; late worker events; a lost reply of each operation; cancelled executions that outlive their handlers; every stage of a case before, in and after each statement of its routes; sources read, failed and never asked for |

Two requests are the fewest that compete for a slot, a key or a game, and two
handlers are the actor and the one that overtakes it, or a handler and a
poller.  One crash suffices because a lost handler leaves nothing but rows, and
a second one would only be lost among the same rows.  Times are ticks: a lease,
an answer window and a day are each long enough to end before, together with
and after one another.  The clock stops at `MaxTime`; the sweeping refusal
`ReserveRefused` stays enabled for any account that is not deleted, so the
ledger's runs check deadlock too.  With two slots and two requests
`ledger_accounts` does not fill the slots; `ledger_watchdog` has one slot and
`SlotsAlwaysMatchWork` is proved for any number.  `FailureLimit` is 2 instead of
the deployed 3 so that a first failure, a last failure and the closed stage all
occur; it is a parameter of the code's constraint.  In `play` a lineage takes
its keys and ecologies, and a case its requests, in one fixed order, because
none is told apart from the others.  The board has five rings and six sectors instead of eight of each:
enough for a slide to close its circle and for a pawn to cross.

The runs other than the ledger's check no deadlock: their systems come to a real
end, a closed or qualified run, a lineage without repairs left, games abandoned
or at the last revision, a game answered or over, a bridge or launch that
closed, a search that published.

### Fairness

`Fairness` of `UsageLedger` is weak fairness of `Reconcile` and of `Tick`.  The
watchdog schedules its next run in `finally`, after success or failure, so a
sweep that stays due is eventually made; the database clock advances.  Nothing
is assumed of handlers.  `ledger_watchdog` bounds the last reservation
(`LastReserve`) so that the stopped clock does not leave a lease that can never
end; its clock leaves the longest chain of renewals time to run out.

In `FairSpec` of `ModelStages` a handler in flight goes on unless it crashes, a
lease that ran out is swept (`reconcileExpiredLeases` runs in every reservation
and in the watchdog), and the client comes back: `src/App.tsx` reads the
lifecycle every 750 ms while a stage is in flight and again when a game is
opened, and re-issues `runPortia` for a review that has no Gate yet.  These two
are strong fairness because the model has only `Handlers` places where the
server always has one more.  In `RetryLineage` the player asks again whenever
the server would take the request.  `FairSpec` of `AnswerRoute` adds to handlers
that go on the polls of an answering game (every 1.5 s in `src/App.tsx`),
deadlines that pass, sweeps, and settlements that arrive.  `DividingEnds` in
`play` assumes the same of a division: its statements follow one another
(`Route`), its lease is swept (`Expire`), and the current game is polled
(`PollCurrent`, strong for the same reason).  `RetriesComplete` asks a child only of a lineage
in which no handler was lost (see the divergences below).

### Findings

1. `AtMostFourGames` (`retry_stale`): the duplicate check also sees runs that
   came later, so a Retry that was overtaken by a whole game can regenerate the
   field under a parent that already has a child; the lineage branches and may
   exceed the four games of `docs/WEBCHESS_WHITE_PAPER_V3.md:923`.  The delay
   it takes is long (a game is played between two reads of one handler), and
   the unique index still keeps it to one new field (`RepairsHappenOnce`).
2. `PaidAnswersAttached` (`answers_paid`): a replay of another game needs no
   concurrency slot, so it may retire the game while its answer is generated.
   The answer is then committed and charged but `storeAnswer` and `failAnswer`
   require `is_current`: the game stays `answering` for good, although
   `docs/ARCHITECTURE.md:515` calls the durable result "the recovery
   authority".  The client is assumed to poll the game for ever, which
   `src/App.tsx` does for the current one only.
3. `PaidDivisionSurvives` (`division_lost`): `attachWebMemoryEvidence`
   (`lifecycle/repository.ts:1532`) counts existing links from a snapshot older
   than its row lock.  Of two concurrent divides of one key that carry a memory,
   the one that waits inserts nothing, counts nothing and throws, and its error
   path (`service-adapter.ts:3161`) fails the shell both share.  The other's
   call succeeds and is charged for a game that is `division_failed`.
   Everything else that could fail a division is excluded by
   `OnlyDuplicatesAbandon`.
4. `EnvelopeHolds` (`wilbur_envelope`): `claimWilburMutation`
   (`lifecycle/repository.ts:3073`) takes its advisory lock in the statement
   that counts rows and reservations, so the count is older than the lock and
   two overlapping claims both pass the limit that
   `docs/ARCHITECTURE.md:389` calls "the lifetime admission envelope".  The
   excess is bounded (`EnvelopeNearlyHolds`).

Four more divergences were met while modelling and have no run of their own:

- `docs/ARCHITECTURE.md:513` limits Portia to three failed or indeterminate
  provider-started attempts.  The ledger marks a call as started one statement
  before the run counts it (`service-adapter.ts:4072`), so started attempts
  lost in between are not counted; the generator itself is bounded
  (`CallsWithinLimit`).
- A handler lost inside `createRetryRun` (`lifecycle/repository.ts:2856`) leaves
  a run in `retry_ready`, or in `retry_running` without a child, that
  `retryLifecycle` refuses ever after, while
  `docs/WEBCHESS_WHITE_PAPER_V3.md:1237` calls that state "Semantic Retry is
  available".  `RetriesComplete` is therefore stated up to that crash.
- `docs/CASE_BUNDLES.md:8-10` says an export is a snapshot whose lifecycle "may
  be in progress, failed, or complete".  The verifier refuses, and the route
  fails, in four windows: a failed attempt that its run has not counted yet, a
  replay nobody has started (revision zero), a terminal game whose run has not
  been synchronised, and a run first made for an abandoned game.
  `ExportsOutsideWindows` states exactly these.
- An observation intent of the client keeps its key when the observation's text
  was changed before the retry, which the service refuses as a conflict.

## 3. Proofs

Each theorem holds for every value of the constants its module's assumption
allows; the runs check the same definitions on small instances.  The
assumptions say that `None` and the other markers are not among the sets they
mark the absence in, that limits and bounds are natural numbers, that the ids a
counter counts are finite, and what the code's own constants say (a lease lasts
at least a tick, three failures at most, and so on).  Every one is evaluated by
TLC in a run.

| Module | Theorem | States |
|---|---|---|
| `UsageLedgerProofs` | `TypeCorrect` | `[]TypeOK` |
| | `SlotsAlwaysMatchWork` | `[]SlotsMatchWork` |
| | `NothingEverPaidTwice` | `[]NothingPaidTwice` |
| | `BooksAlwaysBalance` | `[]BooksBalance` |
| | `TerminalAlwaysFinal` | `TerminalIsFinal` |
| | `AnswersAlwaysInTime` | `AnswerSucceedsInTime` |
| | `AnswerFenceAlwaysFixed` | `[]AnswerFenceFixed` |
| | `DeletionAlwaysLeavesNothing` | `[]DeletionLeavesNothing` |
| | `LedgerImplementsModelCalls` | `ImplementsModelCalls` |
| `RetryLineageProofs` | `LineageInvariant`, `RepairsAlwaysHappenOnce` | `[]LineageInv`, `[]RepairsHappenOnce` |
| | `StopsAlwaysExhausted` | `StopsOnlyExhausted`, of any number of handlers |
| | `SequentialRetriesAreSound` | `[]LineageIsSound` of retries made one at a time |
| `ModelStagesProofs` | `StagesInvariant`, `AttemptsAlwaysCounted`, `ResultsAlwaysSound` | `[]StagesInv`, `[]AttemptsAreCounted`, `[]ResultsAreSound` |
| | `DraftsAlwaysGrow` | `DraftsOnlyGrow` |
| `GameStoreProofs` | `GamesInvariant`, `GamesAlwaysConsistent`, `AlwaysCountedOnce` | `[]GamesInv`, `[]GamesAreConsistent`, `[]CountedOnce` |
| | `RetiredGamesStayFrozen` | `RetiredGamesFrozen` |
| `DivisionRouteProofs` | `DivisionsInvariant`, `DivisionsAlwaysAccounted` | `[]DivInv`, `[]DivisionsAreAccounted` |
| | `NothingElseAbandons` | `OnlyDuplicatesAbandon` |
| `AnswerRouteProofs` | `AnswersInvariant`, `AnswersAlwaysSound` | `[]AnsInv`, `[]AnswersAreSound` |
| | `NeverCalledAfterSuccess` | `NoCallAfterSuccess` |
| `ServicesProofs` | `LaunchesAlwaysClean` | `[]LaunchesAreClean` |
| | `ResearchAlwaysSettledOnce` | `[]ResearchIsSettledOnce` |
| | `SearchAlwaysAttested` | `[]SearchIsAttested` |
| | `TurnsAlwaysSpentOnce` | `[]TurnsAreSpentOnce` |
| | `WilburInvariant`, `LedgerAlwaysExact` | `[]WilburInv`, `[]LedgerIsExact` |
| `PlayProofs` | `FacadeInvariant`, `EngineAlwaysAnswersOnce` | `[]FacadeInv`, `[]EngineAnswersOnce` |
| | `BridgeInvariant`, `BridgeAlwaysAccounts` | `[]BridgeInv`, `[]BridgeAccounts` |
| | `NoTurnEverOverlapsCancelled` | `NoTurnOverlapsCancelled` |
| | `LineageInvariant`, `LineageAlwaysSound` | `[]LineageInv`, `[]LineageIsSound` |
| | `StopsOnlyEverExhausted` | `StopsOnlyExhausted` |
| | `PageInvariant`, `PageAlwaysCareful` | `[]PageInv`, `[]ClientIsCareful` |
| | `CaseInvariant`, `CasesAlwaysVerify` | `[]CaseInv`, `[]CasesVerify` |

### The arguments

**Ledger, slots.** `LedgerInv == TypeOK /\ RowsOwned /\ SlotsMatchWork`.
`RowsOwned` (a stored row names a real user and operation, any other id is
blank) is what lets a step find its bucket and keeps an unused id out of every
set.  `SlotsMatchWork` is preserved along one idea: `Agree(rows, held)` says it
of any pair of tables; ending a set of requests and clearing their slots keeps
it (`AgreeEnd`: a sweep, a settlement, a deletion), work that goes on keeps it
(`AgreeKeep`), and admission after a sweep keeps it (`AdmitAgree`) because
`HasLease` sees every slot the sweep left (`SweptLeases`: a surviving lease ends
after `now`, and a reservation's time is not after `now`).

**Ledger, paid once.** `NothingPaidTwice` is not inductive: two rows of one key
that are both only reserved violate nothing until the second starts.
`PaidInv` adds `KeysNameOneRequest`, that a key of a user's operation names one
stored row.

**Ledger, books.** A bucket counts the rows in some set (waiting, called, open,
spent) of one user and day, so `BooksBalance` is said of any tables
(`UserBooks`, `GlobalBooks`, `Quotas`), and each action changes one row, or
ends a set of them: one lemma moves a count by the row that enters or leaves
its set.  The clamp at zero in `Move` never bites because the row that leaves
was counted.

**Refinement.** Initial tables map to no calls; each transaction maps to
`Admit`, `Call`, `Win`, `Lose`, `Forget` or a stutter.  A transaction that
sweeps before it acts, or deletes a user, moves several calls at once, which
`ModelCalls` allows in one step.  Its limit on live calls follows from
`SlotsMatchWork`: live requests map one to one into the slots.

**Retry.** `LineageInv` places every child next to its parent: the unique index
on generation and attempt then makes two children of one parent and repair the
same run.  `Informed` says which part of a handler's old copy is still true of
the parent's row: the place and the counters always, the state only as far as
the next compare-and-set relies on it.

**Stages.** `StagesInv` rests on two facts.  `OneWorker`: a request is worked on
by the one handler that reserved it.  `AccountsSound`: a request that was ever
attempted is fencing the run, stored in it, or counted as a failure, and is in
only one of these, so the counter is the number of counted requests.
`SnapSound` says what an old copy of the row is worth: everything, while the
revision it was read at has not moved.

**Games.** `GamesInv` has `LogsBehind` (no event is ahead of its game's row) and
`HandlerSound` (a copy is of the past, and fits the log as it was then).  What
is appended belongs to a revision above every copy, so no copy is spoiled by
another's move, and a move may commit only if its key was not used
(`AcksSound`: the acknowledgement says what the move left).

**Divisions and answers.** In both, requests and games only move forward
(`Agrees`, `Fits`), so what a handler saw of a terminal or stored row stays
true, and `OneOwner`: only the invocation that reserved a request spends it or
gives it back, until it knows how that ended.  `OneChance` is what a second
call after a success would violate.

**Services.** `MCServices` instantiates its components over the sets `Routes`
and `Keys`, and `ServicesProofs` proves their invariants for any such sets
(`ServicesAssumption`: the markers are not members).  The launcher: `OneWriter`
(an empty identity file has one writer) and `LaunchesBacked` (a server that
runs has its bridge open and the runtime it was verified with).  The broker:
the right to search is the row's claim, unspent, and an outcome somebody holds
is the row's.  The search: while a file's seal matches, its bytes are the
reviewed ones.  The adapters: the keys of an attempt's turns follow each other,
the next key follows them all, and after an unfenced turn there is none.

**Wilbur.** `WilburInv` is said of the tables a step leaves, so that one lemma
(`WilburStands`) carries it over any step and each action only says what its
tables are.  `KnowsTables` is what a handler's copy is worth: the action it saw
exists, the request it claimed is there and awake, and a row it saw committed
is still that row.  `ToldIsDone` makes replies repeat: what was told is what is
stored, and a committed row never changes.  `StoredIsDone` counts actions,
revisions, observations and events by the committed keys of each operation; a
commit adds one key to one of these sets (`CommitAdds`).  The envelope is the
part that is not inductive as stated.  `RoomForAll` weighs the handlers whose
snapshot had room and whose claim is not yet inserted (two rows each, one more
if they create or append): the rows, what awake claims reserve and this weight
stay under `RowLimit + 3 * (handlers - 1)`, because a snapshot with room leaves
the rows, the awake claims and its own claim within `RowLimit`, and each of the
other handlers weighs at most three.  Claims that have grown old are left out of it: they are denied
before the next insertion and never wake.  `WilburAssumption` says that
handlers, keys and suggestions are finite, that there is a handler, that
intents are well formed and the two limits natural numbers.

**Retries one at a time.** With one handler (`OneAtATime`) the lineage is a
chain, which no invariant about racing Retries gives.  `ChainInv` adds to
`LineageInv` that a run without a child is the last (`Chained`) and that
whoever works, works on the last run (`AtTheEnd`), so replays and the one
regeneration only grow along the chain, and a replay follows an ecology the
lineage had not seen.  `PlayProofs` instantiates `RetryLineageProofs` for the
one handler of `MCPlay` and proves its assumptions for that instance
(`LineageConstants`), after which the two theorems carry over.

**The page's engine.** `FacadeInv` says what the event queue can still bring:
every request below the next id but the pending one has exactly one answer
(`Answered`); the pending one has its timer, or the worker in use and a
watchdog (`Attended`); a worker in use has nothing but the pending request
before it, and nothing once its answer is on the way (`InboxesFit`).  A late
event is then one of a worker no longer in use, or of an id already answered.
Supersession, failure and reset share one lemma form (`Quieted`): they leave a
page nobody waits on.

**The bridge.** `Placed` says, step by step of a request, whether it holds a
slot, has a live execution, and whether that execution drains; `Counted` that
while the bridge is open whatever runs holds its slot and drains once its
request is aborted or gone; `BooksFit` that there is one record per turn and
that only tombstones expire.  Records are filtered when a turn is reserved:
that the filter keeps what is live would be an induction over the list, and is
proved instead from a least counterexample (`Least`), which needs no rule with
an operator parameter.  `NoTurnOverlapsCancelled` follows from `Counted`: a turn
is dispatched only when nothing drains.

**The page.** `PageInv` rests on ownership: a key belongs to the operation that
was asked for under it (`KeysOwned`), an open key is the one its operation keeps
(`IntentsHeld`), an open division or replay is being asked for or locks "new
question" (`LocksHeld`), and while a division is open nothing else goes on
(`DivisionsAlone`).  Every way a call can end (success, recovery, conflict,
transport failure, refusal, nothing found) is shown to let go only of keys it
has closed and of no lock an open key needs (`PageLetsGo`); one lemma
(`LettingGoKeeps`) then carries the whole invariant over each of them.

**The case.** `CaseInv` is the history of the tables: events are revisions that
follow one another up to the row's (`MovesFit`), activities one legal history up
to the run's state (`HistoryFits`), a run past its game has a finished one and
its record (`RunFits`), what a state calls for is stored and was paid for
(`WorkFits`), sources are numbered as they were found, a few of them with a page
or a failure (`NotesFit`).  Every part of the verifier then holds of an export
outside the windows (`ShapeStands`, `EventsStand`, `WorkStands`, `ResearchStands`,
`HistoryStands`, `ReplayStands`), and each window breaks one part
(`WindowsRefuse`).  A mixed copy is not what the manifest was made over.  A copy
sealed anew passes the manifest, so its loss must show in the data: a missing
move, activity or source leaves a gap in the numbers, or, where it was the last,
an end that is not the one the row, the run or a page claims (a last source
without a page is therefore not among the losses); a shortened record is not the
one derived again from the moves (`MoveLossShows`, `ActivityLossShows`, `SourceLossShows`, `RecordLossShows`).

The assumptions of `MCPlay`: `None` is no key, game, ecology, worker, record,
request or number it stands for the absence of, the root game is no key
(`LineageAssumption`, `FacadeAssumption`, `BridgeAssumption`, `CaseAssumption`);
bounds are natural numbers, a game ends after at least one ply, and a request of
the bridge asks for a status, a model or a search.  `PageAssumption` only bounds
the keys.  None of them bounds a set or a limit from above.

### What stays with TLC

- Liveness (`EveryRequestEnds`, `StagesEnd`, `RetriesComplete`,
  `DividingEnds`): needs `ENABLED`, which TLAPS cannot reason about here.
- `SearchIsExact`, `MovesAreSound`, `PositionIsExact` and `GameReplays`, the
  four properties of the chess modules in `games`: what they say is what a
  function computes by recursion over lines, positions and stored moves, and the
  induction rules of the library take an operator as a parameter.
  `EngineSearch` and `CircularChess` also declare recursive operators, in whose
  presence the prover loses its SMT backend.  They are checked on every
  position, evaluation and budget of the bounded instances.

Every other invariant and action property of a passing run is a theorem.

## 4. What remains

- A proof of the four chess properties, with a prover that has induction over
  data.  The other bounded part is the board: `games` checks five rings and six
  sectors.
- Of the components marked `partly`, the operations named below as not
  modelled.

### Not modelled

- Request parsing, origin, CSRF and session checks (`server/http/handlers.ts`,
  `guards.ts`, `server/auth`): functions of one request.
- The service around account deletion and the personal data export: a sequence
  of calls to an external identity provider; its database side is
  `DeleteAccount`.
- Prompts, validators of model output, the text of research sources, static
  evaluation, piece names, narration, rendering, wire formats and the host's
  configuration text: data, of which the models keep what a property tells
  apart.
- Database adapters and migrations: typed row decoding, and migrations that run
  once, each in its transaction, before the server starts.
- Deployment and release scripts.
- Hourly rate windows of model calls and temporary blocks: one refusal,
  `ReserveRefused`.  Per-user quota overrides.
- Page reload, the client's rule that a 404 of the local build is definitive,
  and its parsers; a late poll may replace a newer display, which the next one
  corrects, and no property speaks of it.
- Hash collisions of the search (64 bits), non-canonical coordinates, the
  initial 8 by 8 board.
- In the bridge, searches that go on after their slot was released, and detached
  preflight stages.  In the attested package, a search that settles by itself
  while its client still starts: that would be the package not awaiting what it
  asked for.
- Legacy bundles, the migration ledger, size limits and the compatibility
  report of `case-bundle.ts`.
