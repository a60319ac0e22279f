---------------------------- MODULE BridgeTurns ----------------------------
(***************************************************************************)
(* The loopback bridge of openclaw-plugin/src/bridge.ts: the one process   *)
(* between WebChess and a billed model account.  It starts only after a    *)
(* live model turn and a live search succeeded under a guarded runtime     *)
(* configuration; it then serves status, model and search requests that    *)
(* overlap, are cancelled, and may leave a provider running that ignored   *)
(* its cancellation; and it closes by draining what it started.            *)
(*                                                                         *)
(* Everything the bridge re-reads (configuration, account, search          *)
(* provider, environment) is a set of Facts of which some are broken now.  *)
(* Drift breaks and mends them between any two awaits.                     *)
(***************************************************************************)
EXTENDS Naturals, FiniteSets, Sequences, SequencesExt

CONSTANTS
    Requests,       \* the HTTP requests that may arrive
    Turns,          \* the turn identities callers use
    None,           \* a model request without a turn identity
    Kinds,          \* subset of {"status", "model", "search"}
    Drifting,       \* the facts that may break: subset of Facts
    MaxSlots,       \* maxConcurrentRuns
    MaxRecords      \* MAX_MODEL_TURN_RECORDS

VARIABLES
    phase,          \* starting, listening, closing, closed, failed
    boot,           \* startup steps done
    guard,          \* the runtime configuration guard is installed
    broken,         \* facts that do not hold now
    request,        \* per request: kind, turn, step, position, aborted
    active,         \* activeControllers
    live,           \* executions that were started and have not settled
    draining,       \* drainingModelExecutions
    ledger          \* modelTurns, oldest first

vars == <<phase, boot, guard, broken, request, active, live, draining, ledger>>

(***************************************************************************)
(* The checks.  Each reads facts of the host that nobody locks.            *)
(***************************************************************************)

\* The guarded snapshot of the runtime configuration is still the live one.
GuardedConfig == {"config"}
\* Provider catalogue, agents, search settings and plugin entry of it.
AgentConfig == {"config", "agents"}
SearchConfig == {"config", "search"}
\* The process environment carries no override of provider or account.
Environment == {"environment"}
StaticallyReady == GuardedConfig \cup AgentConfig \cup SearchConfig
                                 \cup Environment
\* One OAuth profile, the one bound at startup, and no other credential.
AccountAuth == {"account"}
\* A prepared model: the account's, over the canonical transport.
AccountModel == {"account", "transport"}
PreparedModel == AccountAuth \cup AccountModel
\* The search provider's account, and the package bound at startup.
SearchAuth == {"account", "search"}
BoundProvider == {"package"}

Facts == StaticallyReady \cup PreparedModel \cup SearchAuth \cup BoundProvider

Holds(facts) == facts \cap broken = {}

-----------------------------------------------------------------------------
(***************************************************************************)
(* Startup.  Each step needs its facts; a missing one, a failed probe or   *)
(* the step's deadline ends the start and restores the guard.              *)
(***************************************************************************)

Step(needs, act) == [needs |-> needs, act |-> act]

AuthSteps == << Step(StaticallyReady, "guard"),
                Step(AccountAuth, "check"),
                Step(StaticallyReady \cup PreparedModel, "check"),
                Step({}, "model probe") >>
SearchSteps == << Step(StaticallyReady \cup BoundProvider, "check"),
                  Step(SearchAuth, "check"),
                  Step(StaticallyReady \cup PreparedModel, "check"),
                  Step(BoundProvider, "search probe") >>
FinalSteps == << Step(StaticallyReady \cup BoundProvider, "check"),
                 Step(SearchAuth, "check"),
                 Step(StaticallyReady \cup BoundProvider, "check"),
                 Step(SearchAuth \cup PreparedModel, "listen") >>
Startup == AuthSteps \o SearchSteps \o FinalSteps

StartStep ==
    /\ phase = "starting"
    /\ boot' = boot + 1
    /\ LET step == Startup[boot + 1] IN
       /\ Holds(step.needs)
       /\ guard' = (guard \/ step.act = "guard")
       /\ phase' = IF step.act = "listen" THEN "listening" ELSE "starting"
    /\ UNCHANGED <<broken, request, active, live, draining, ledger>>

\* A check, a probe, the attestation or a readiness deadline failed.
StartFails ==
    /\ phase = "starting"
    /\ phase' = "failed"
    /\ guard' = FALSE
    /\ UNCHANGED <<boot, broken, request, active, live, draining, ledger>>

Drift ==
    /\ phase \in {"starting", "listening", "closing"}
    /\ \E fact \in Drifting :
         broken' = IF fact \in broken THEN broken \ {fact}
                                      ELSE broken \cup {fact}
    /\ UNCHANGED <<phase, boot, guard, request, active, live, draining, ledger>>

-----------------------------------------------------------------------------
(***************************************************************************)
(* What each kind of request awaits, in order.  "run" is the dispatch of   *)
(* the billed model turn; everything else re-reads facts.                  *)
(***************************************************************************)

StatusPlan == << Step(StaticallyReady \cup BoundProvider, "check"),
                 Step(PreparedModel, "check"),
                 Step(SearchAuth, "check"),
                 Step(StaticallyReady \cup BoundProvider, "check"),
                 Step(PreparedModel, "check") >>
Preflight == << Step(StaticallyReady \cup BoundProvider, "check"),
                Step(PreparedModel, "check"),
                Step(StaticallyReady \cup BoundProvider, "check"),
                Step(PreparedModel, "check") >>
Postflight == << Step(StaticallyReady \cup BoundProvider, "check"),
                 Step(PreparedModel, "result") >>
ModelPlan == Preflight \o <<Step({}, "run")>> \o Postflight
SearchPlan == << Step(StaticallyReady \cup BoundProvider, "check"),
                 Step(SearchAuth, "check"),
                 Step(StaticallyReady \cup BoundProvider \cup AccountAuth,
                      "check"),
                 Step({}, "query") >>
SearchPostflight == << Step(StaticallyReady \cup BoundProvider, "check"),
                       Step(SearchAuth \cup AccountAuth, "check"),
                       Step(StaticallyReady \cup BoundProvider \cup AccountAuth,
                            "result") >>
Plan(kind) == CASE kind = "status" -> StatusPlan
                [] kind = "model" -> ModelPlan
                [] OTHER -> SearchPlan \o SearchPostflight

Ended == {"idle", "refused", "replied"}
Handled(r) == request[r].step \notin Ended
At(r) == Plan(request[r].kind)[request[r].at]

\* modelTurns after request r ended: its record becomes a tombstone.
Terminal(r) ==
    [i \in DOMAIN ledger |->
        IF ledger[i].by = r THEN [ledger[i] EXCEPT !.state = "terminal"]
                            ELSE ledger[i]]

\* The request is answered and its controller is given up.
Leave(r, step) ==
    /\ request' = [request EXCEPT ![r].step = step]
    /\ active' = active \ {r}
    /\ ledger' = Terminal(r)

\* The authorisation and concurrency checks at the head of the handler.  A
\* POST takes its slot only when its body has been read.
Enter(r) ==
    /\ phase = "listening"
    /\ request[r].step = "idle"
    /\ Cardinality(active) < MaxSlots
    /\ \E kind \in Kinds :
         /\ request' = [request EXCEPT
                ![r].kind = kind,
                ![r].step = IF kind = "status" THEN "stage" ELSE "reading"]
         /\ active' = IF kind = "status" THEN active \cup {r} ELSE active
    /\ UNCHANGED <<phase, boot, guard, broken, live, draining, ledger>>

\* reserveModelTurn: expired tombstones go first, then the oldest tombstones
\* until there is room.
Fresh ==
    LET kept[i \in 0..Len(ledger)] ==
          IF i = 0 THEN <<>>
          ELSE IF ledger[i].old THEN kept[i - 1]
          ELSE Append(kept[i - 1], ledger[i])
    IN kept[Len(ledger)]
OldestTerminal(records) ==
    SelectInSeq(records, LAMBDA rec : rec.state = "terminal")
Room(records) ==
    IF Len(records) < MaxRecords THEN records
    ELSE RemoveAt(records, OldestTerminal(records))
HasRoom(records) == Len(records) < MaxRecords \/ OldestTerminal(records) # 0
Known(records, turn) == \E i \in DOMAIN records : records[i].turn = turn

\* The body arrives: the controller is registered, a model request is refused
\* while a cancelled turn drains, and its turn identity is reserved.
Admits(turn) ==
    /\ draining = {}
    /\ turn # None => ~Known(Fresh, turn) /\ HasRoom(Fresh)

Reserved(r, turn) ==
    IF turn = None THEN ledger
    ELSE Append(Room(Fresh),
                [turn |-> turn, by |-> r, state |-> "active", old |-> FALSE])

ReadModel(r, turn) ==
    /\ request[r].step = "reading"
    /\ request[r].kind = "model"
    /\ IF Admits(turn)
       THEN /\ request' = [request EXCEPT ![r].step = "stage", ![r].turn = turn]
            /\ active' = active \cup {r}
            /\ ledger' = Reserved(r, turn)
       ELSE /\ request' = [request EXCEPT ![r].step = "refused"]
            /\ UNCHANGED <<active, ledger>>
    /\ UNCHANGED <<phase, boot, guard, broken, live, draining>>

\* A body that is too large, is not JSON or asks for nothing the bridge knows.
ReadFails(r) ==
    /\ request[r].step = "reading"
    /\ request' = [request EXCEPT ![r].step = "refused"]
    /\ UNCHANGED <<phase, boot, guard, broken, active, live, draining, ledger>>

ReadSearch(r) ==
    /\ request[r].step = "reading"
    /\ request[r].kind = "search"
    /\ request' = [request EXCEPT ![r].step = "stage"]
    /\ active' = active \cup {r}
    /\ UNCHANGED <<phase, boot, guard, broken, live, draining, ledger>>

\* One awaited stage succeeds: the next one begins, or the reply is sent.
Stage(r) ==
    /\ request[r].step = "stage"
    /\ At(r).act # "run"
    /\ ~request[r].aborted
    /\ r \notin live
    /\ Holds(At(r).needs)
    /\ IF request[r].at < Len(Plan(request[r].kind))
       THEN /\ request' = [request EXCEPT ![r].at = @ + 1]
            /\ UNCHANGED <<active, ledger>>
       ELSE Leave(r, "replied")
    /\ UNCHANGED <<phase, boot, guard, broken, live, draining>>

\* A stage found a fact broken, or the search or the model failed.
StageFails(r) ==
    /\ request[r].step = "stage"
    /\ At(r).act \in {"query", "result"} \/ ~Holds(At(r).needs)
    /\ r \notin live
    /\ Leave(r, "refused")
    /\ UNCHANGED <<phase, boot, guard, broken, live, draining>>

\* A status dependency that has not answered yet: it may outlive its request.
Detach(r) ==
    /\ request[r].kind = "status"
    /\ request[r].step = "stage"
    /\ ~request[r].aborted
    /\ r \notin live
    /\ live' = live \cup {r}
    /\ UNCHANGED <<phase, boot, guard, broken, request, active, draining, ledger>>

\* Mutant: only the check made when the body was read protects the dispatch.
Dispatch_Unchecked(r) ==
    /\ request[r].step = "stage"
    /\ At(r).act = "run"
    /\ ~request[r].aborted
    /\ live' = live \cup {r}
    /\ request' = [request EXCEPT ![r].step = "provider"]
    /\ UNCHANGED <<phase, boot, guard, broken, active, draining, ledger>>

\* The provider-dispatch boundary, one synchronous callback.
Dispatch(r) ==
    /\ request[r].step = "stage"
    /\ At(r).act = "run"
    /\ ~request[r].aborted
    /\ IF draining = {}
       THEN /\ live' = live \cup {r}
            /\ request' = [request EXCEPT ![r].step = "provider"]
            /\ UNCHANGED <<active, ledger>>
       ELSE /\ Leave(r, "refused")
            /\ UNCHANGED live
    /\ UNCHANGED <<phase, boot, guard, broken, draining>>

-----------------------------------------------------------------------------
(***************************************************************************)
(* Cancellation.  Abort listeners run synchronously: a running provider is *)
(* registered as draining in the same step.  Its own promise, when it ends *)
(* at last, removes the registration, the slot and the active record.      *)
(***************************************************************************)

RunsModel(r) == r \in live /\ request[r].kind = "model"

Drained(records, gone) ==
    [i \in DOMAIN records |->
        IF records[i].by \in gone THEN [records[i] EXCEPT !.state = "draining"]
                                  ELSE records[i]]

AbortAll(set) ==
    LET running == {r \in set : RunsModel(r)} IN
    /\ request' = [r \in Requests |->
           IF r \in set THEN [request[r] EXCEPT !.aborted = TRUE]
                        ELSE request[r]]
    /\ draining' = draining \cup running
    /\ ledger' = Drained(ledger, running)

\* The caller disconnects, or the request or provider deadline passes.
Abort(r) ==
    /\ r \in active
    /\ Handled(r)
    /\ ~request[r].aborted
    /\ AbortAll({r})
    /\ UNCHANGED <<phase, boot, guard, broken, active, live>>

\* The aborted handler of a stage runs its finally block.  A model or search
\* request leaves its detached stage behind; a status request keeps its slot
\* as long as its dependency runs.
Cancelled(r) ==
    /\ request[r].step = "stage"
    /\ request[r].aborted
    /\ IF r \in live
       THEN /\ request' = [request EXCEPT ![r].step = "refused"]
            /\ UNCHANGED <<active, ledger>>
       ELSE Leave(r, "refused")
    /\ UNCHANGED <<phase, boot, guard, broken, live, draining>>

\* The aborted handler of a running provider waits a bounded time for it.
DrainWait(r) ==
    /\ request[r].step = "provider"
    /\ request[r].aborted
    /\ request' = [request EXCEPT ![r].step = "waiting"]
    /\ UNCHANGED <<phase, boot, guard, broken, active, live, draining, ledger>>

\* Mutant: the finally block gives up the slot of work that still runs.
Finally_Releases(r) ==
    /\ request[r].step = "waiting"
    /\ Leave(r, "refused")
    /\ UNCHANGED <<phase, boot, guard, broken, live, draining>>

\* The finally block: what still runs keeps its slot and its record.
Finally(r) ==
    /\ request[r].step = "waiting"
    /\ IF r \in live
       THEN /\ draining' = draining \cup {r}
            /\ ledger' = Drained(ledger, {r})
            /\ request' = [request EXCEPT ![r].step = "refused"]
            /\ UNCHANGED active
       ELSE /\ Leave(r, "refused")
            /\ UNCHANGED draining
    /\ UNCHANGED <<phase, boot, guard, broken, live>>

\* An execution settles, whatever became of its request.
Settles(r) ==
    /\ r \in live
    /\ live' = live \ {r}
    /\ draining' = draining \ {r}
    /\ active' = IF r \in draining \/ ~Handled(r) THEN active \ {r} ELSE active
    /\ ledger' = IF r \in draining THEN Terminal(r) ELSE ledger
    /\ request' = IF request[r].step = "provider" /\ ~request[r].aborted
                  THEN [request EXCEPT ![r].step = "stage", ![r].at = @ + 1]
                  ELSE request
    /\ UNCHANGED <<phase, boot, guard, broken>>

\* Ten minutes pass: the tombstones there are may be dropped.
Age ==
    /\ \E i \in DOMAIN ledger : ledger[i].state = "terminal" /\ ~ledger[i].old
    /\ ledger' = [i \in DOMAIN ledger |->
           [ledger[i] EXCEPT !.old = ledger[i].state = "terminal"]]
    /\ UNCHANGED <<phase, boot, guard, broken, request, active, live, draining>>

\* A caller that got its answer may send the next request on this connection.
Again(r) ==
    /\ request[r].step \in {"refused", "replied"}
    /\ r \notin live
    /\ request' = [request EXCEPT ![r] =
           [kind |-> "status", turn |-> None, step |-> "idle", at |-> 1,
            aborted |-> FALSE]]
    /\ ledger' = [i \in DOMAIN ledger |->
           IF ledger[i].by = r THEN [ledger[i] EXCEPT !.by = None]
                               ELSE ledger[i]]
    /\ UNCHANGED <<phase, boot, guard, broken, active, live, draining>>

-----------------------------------------------------------------------------
(***************************************************************************)
(* close(): every controller is aborted, the runs there are settle, what   *)
(* still drains is written off, and the configuration is restored.         *)
(***************************************************************************)

Close ==
    /\ phase = "listening"
    /\ phase' = "closing"
    /\ AbortAll(active)
    /\ UNCHANGED <<boot, guard, broken, active, live>>

Closed ==
    /\ phase = "closing"
    /\ \A r \in Requests : ~Handled(r)
    /\ phase' = "closed"
    /\ guard' = FALSE
    /\ draining' = {}
    /\ active' = {}
    /\ UNCHANGED <<boot, broken, request, live, ledger>>

Init ==
    /\ phase = "starting"
    /\ boot = 0
    /\ guard = FALSE
    /\ broken = {}
    /\ request = [r \in Requests |->
           [kind |-> "status", turn |-> None, step |-> "idle", at |-> 1,
            aborted |-> FALSE]]
    /\ active = {}
    /\ live = {}
    /\ draining = {}
    /\ ledger = <<>>

Next ==
    \/ StartStep
    \/ StartFails
    \/ Drift
    \/ Close
    \/ Closed
    \/ Age
    \/ \E r \in Requests :
         \/ Enter(r)
         \/ \E turn \in Turns \cup {None} : ReadModel(r, turn)
         \/ ReadFails(r)
         \/ ReadSearch(r)
         \/ Stage(r)
         \/ StageFails(r)
         \/ Detach(r)
         \/ Dispatch(r)
         \/ Abort(r)
         \/ Cancelled(r)
         \/ DrainWait(r)
         \/ Finally(r)
         \/ Settles(r)
         \/ Again(r)

Spec == Init /\ [][Next]_vars

-----------------------------------------------------------------------------
(***************************************************************************)
(* Properties.                                                             *)
(***************************************************************************)

Open == phase \in {"starting", "listening", "closing"}

\* Work that nobody waits for any more still holds its slot, and a model
\* execution among it blocks new turns: the slots bound the model turns under
\* way.  Nothing is said of searches: an aborted one is given a moment to end
\* and then loses its slot, ended or not; nor of detached preflight stages.
OrphansAreCounted ==
    Open => \A r \in live :
        /\ r \in active
        /\ RunsModel(r) /\ (request[r].aborted \/ ~Handled(r)) => r \in draining

\* No slot leaks: a slot belongs to a handler that runs or to live work.
SlotsAreOwned ==
    /\ draining \subseteq live
    /\ \A r \in active : Handled(r) \/ r \in live

\* One turn identity never has two executions, and the record of an
\* execution is neither evicted nor a tombstone while it runs.
TurnsRunOnce ==
    \A r \in Requests : RunsModel(r) /\ request[r].turn # None /\ Open =>
        /\ \A other \in Requests \ {r} :
             RunsModel(other) => request[other].turn # request[r].turn
        /\ \E i \in DOMAIN ledger :
             ledger[i].by = r /\ ledger[i].state # "terminal"

\* The guard is in place while requests are served, and a bridge that failed
\* to start or closed leaves the host's configuration as it found it.
GuardBracketsService ==
    /\ phase \in {"listening", "closing"} => guard /\ boot = Len(Startup)
    /\ ~Open => ~guard /\ \A r \in Requests : ~Handled(r)

\* Bridge bookkeeping: the four facts above hold in every state.
BridgeAccounts ==
    /\ Len(ledger) <= MaxRecords
    /\ OrphansAreCounted
    /\ SlotsAreOwned
    /\ TurnsRunOnce
    /\ GuardBracketsService

\* No model turn begins while a cancelled one is still running, also when
\* the cancellation came after the new request had passed the first check.
TurnStep ==
    \A r \in Requests :
        request[r].step = "stage" /\ request'[r].step = "provider" =>
            \A other \in live \ {r} :
                RunsModel(other) => ~request[other].aborted
NoTurnOverlapsCancelled == [][TurnStep]_vars
=============================================================================
