------------------------------ MODULE MCPlay --------------------------------
(***************************************************************************)
(* A game from its question to its export, one component in each           *)
(* behaviour: the division that makes it (DivisionRoute), the page it is   *)
(* played in (Client) and the page's engine (EngineFacade), the bridge its *)
(* model turns go through (BridgeTurns), the Retries of its failed Gates,  *)
(* made one after another (RetryLineage), and the bundle its whole case is *)
(* exported as (CaseBundle).                                               *)
(***************************************************************************)
EXTENDS MCDivisionRoute, Integers, Sequences

CONSTANTS
  Origin, Retrier,         \* the root game of a lineage and its one handler
  KeyOrder, EcologyOrder,  \* its keys and ecologies, in the order they are taken
  MaxAsks, Workers,        \* requests to the engine, and its workers
  MaxKeys, MaxLosses, MaxPlies, MaxReads,  \* bounds of the page
  Callers, Turns, Kinds, Drifting, MaxSlots, MaxRecords,  \* the bridge
  CaseOrder,               \* a case's model requests, in the order they are made
  LastPly, FailureLimit, SourceLimit, FetchLimit, MaxAnswers, MaxNotes,
  k1, k2, k3, k4, f1, f2, f3, q1, q2, q3

FourKeys == <<k1, k2, k3, k4>>
ThreeEcologies == <<f1, f2, f3>>
ThreeRequests == <<q1, q2, q3>>

Permit == [decision |-> "permit", missing |-> FALSE, broken |-> FALSE]
Replay == [decision |-> "retry_game", missing |-> TRUE, broken |-> FALSE]
Broken == [decision |-> "retry_field", missing |-> TRUE, broken |-> TRUE]

VARIABLES
  part,  \* the component under check; fixed by the initial state
  lineRuns, lineChild, lineHandler, lineCrashes,
  facadeNextId, facadePending, facadeWorker, facadeDisposed, facadeStarted,
  facadeRunning, facadeInbox, facadeQueue, facadeSettled,
  pageHosted, pageKeyed, pageSources, pageWire, pageShown, pageIntent,
  pageLocked, pageCall, pageRead, pageSearch, pageAuto, pageMinted, pageClosed,
  pageFaults, pageReads,
  bridgePhase, bridgeBoot, bridgeGuard, bridgeBroken, bridgeRequest,
  bridgeActive, bridgeLive, bridgeDraining, bridgeLedger,
  caseGame, caseRun, caseLog, caseArtifacts, caseRequests, caseAnswers

lineVars == <<lineRuns, lineChild, lineHandler, lineCrashes>>
facadeVars == <<facadeNextId, facadePending, facadeWorker, facadeDisposed,
                 facadeStarted, facadeRunning, facadeInbox, facadeQueue,
                 facadeSettled>>
pageVars == <<pageHosted, pageKeyed, pageSources, pageWire, pageShown,
               pageIntent, pageLocked, pageCall, pageRead, pageSearch, pageAuto,
               pageMinted, pageClosed, pageFaults, pageReads>>
bridgeVars == <<bridgePhase, bridgeBoot, bridgeGuard, bridgeBroken,
                 bridgeRequest, bridgeActive, bridgeLive, bridgeDraining,
                 bridgeLedger>>
caseVars == <<caseGame, caseRun, caseLog, caseArtifacts, caseRequests,
               caseAnswers>>

Members(order) == {order[i] : i \in DOMAIN order}

Lineage == INSTANCE RetryLineage WITH
  Root <- Origin,
  Handlers <- {Retrier}, Keys <- Members(KeyOrder),
  Fingerprints <- Members(EcologyOrder),
  Reviews <- {Permit, Replay, Broken}, MaxCrashes <- 1, runs <- lineRuns,
  child <- lineChild, handler <- lineHandler, crashes <- lineCrashes

ASSUME LineageAssumption ==
  /\ Origin \notin Members(KeyOrder)
  /\ None \notin Members(KeyOrder) \cup {Origin} \cup Members(EcologyOrder)
  /\ None \notin Lineage!Run \cup Lineage!ChildGame

Facade == INSTANCE EngineFacade WITH
  Ids <- 1..MaxAsks, nextId <- facadeNextId,
  pending <- facadePending, worker <- facadeWorker, disposed <- facadeDisposed,
  started <- facadeStarted, running <- facadeRunning, inbox <- facadeInbox,
  queue <- facadeQueue, settled <- facadeSettled

ASSUME FacadeAssumption ==
  /\ MaxAsks \in Nat
  /\ None \notin Workers
  /\ None \notin [id : Nat, worker : Workers \cup {None}, fallback : BOOLEAN,
                 watchdog : BOOLEAN]

Page == INSTANCE Client WITH
  MaxFaults <- MaxLosses,
  hosted <- pageHosted, keyed <- pageKeyed, sources <- pageSources,
  wire <- pageWire, shown <- pageShown, intent <- pageIntent,
  locked <- pageLocked, call <- pageCall, read <- pageRead,
  search <- pageSearch, auto <- pageAuto, minted <- pageMinted,
  closed <- pageClosed, faults <- pageFaults, reads <- pageReads

ASSUME PageAssumption == MaxKeys \in Nat

Bridge == INSTANCE BridgeTurns WITH
  Requests <- Callers, phase <- bridgePhase, boot <- bridgeBoot, guard <- bridgeGuard, broken <- bridgeBroken,
  request <- bridgeRequest, active <- bridgeActive, live <- bridgeLive,
  draining <- bridgeDraining, ledger <- bridgeLedger

ASSUME BridgeAssumption ==
  /\ MaxRecords \in Nat
  /\ None \notin Callers \cup Turns
  /\ Kinds \subseteq {"status", "model", "search"}

Case == INSTANCE CaseBundle WITH
  Requests <- Members(CaseOrder), game <- caseGame, run <- caseRun, log <- caseLog,
  artifacts <- caseArtifacts, requests <- caseRequests, answers <- caseAnswers

ASSUME CaseAssumption ==
  /\ LastPly \in Nat \ {0} /\ FailureLimit \in Nat
  /\ SourceLimit \in Nat /\ FetchLimit \in Nat
  /\ None \notin Case!LifecycleStates \cup Case!Stages \cup {"passed", "failed"}
  /\ None \notin Members(CaseOrder) \cup Nat

(* Keys, ecologies and requests are interchangeable: they are taken in one *)
(* fixed order.                                                            *)
TakenInOrder(used, order) ==
  \A i, j \in DOMAIN order : i < j /\ order[j] \in used => order[i] \in used
KeysTaken ==
  {k \in Members(KeyOrder) :
     \/ lineChild[k] # None
     \/ lineHandler[Retrier] # Lineage!Idle /\ lineHandler[Retrier].key = k}
EcologiesSeen == {lineRuns[g].fingerprint : g \in {g \in Lineage!Games : Lineage!Exists(g)}}
InOrder ==
  /\ TakenInOrder(KeysTaken, KeyOrder)
  /\ TakenInOrder(EcologiesSeen, EcologyOrder)
RequestsMade == {r \in Members(CaseOrder) : caseRequests[r].status # "absent"}
MadeInOrder == TakenInOrder(RequestsMade, CaseOrder)

(* No state, of a component that is not under check.                       *)
NoLineage ==
  /\ lineRuns = None /\ lineChild = None /\ lineHandler = None
  /\ lineCrashes = None
NoFacade ==
  /\ facadeNextId = None /\ facadePending = None /\ facadeWorker = None
  /\ facadeDisposed = None /\ facadeStarted = None /\ facadeRunning = None
  /\ facadeInbox = None /\ facadeQueue = None /\ facadeSettled = None
NoPage ==
  /\ pageHosted = None /\ pageKeyed = None /\ pageSources = None
  /\ pageWire = None /\ pageShown = None /\ pageIntent = None
  /\ pageLocked = None /\ pageCall = None /\ pageRead = None
  /\ pageSearch = None /\ pageAuto = None /\ pageMinted = None
  /\ pageClosed = None /\ pageFaults = None /\ pageReads = None
NoBridge ==
  /\ bridgePhase = None /\ bridgeBoot = None /\ bridgeGuard = None
  /\ bridgeBroken = None /\ bridgeRequest = None /\ bridgeActive = None
  /\ bridgeLive = None /\ bridgeDraining = None /\ bridgeLedger = None
NoCase ==
  /\ caseGame = None /\ caseRun = None /\ caseLog = None /\ caseArtifacts = None
  /\ caseRequests = None /\ caseAnswers = None

(* The components that are not under check rest where they begin.          *)
MCInit ==
  /\ part \in {"division", "lineage", "facade", "page", "bridge", "case"}
  /\ Init
  /\ IF part = "lineage" THEN Lineage!Init ELSE NoLineage
  /\ IF part = "facade" THEN Facade!Init ELSE NoFacade
  /\ IF part = "page" THEN Page!Init ELSE NoPage
  /\ IF part = "bridge" THEN Bridge!Init ELSE NoBridge
  /\ IF part = "case" THEN Case!Init ELSE NoCase

DivisionStep ==
  /\ part = "division" /\ Next
  /\ UNCHANGED <<part, lineVars, facadeVars, pageVars, bridgeVars, caseVars>>

LineageStep ==
  /\ part = "lineage" /\ Lineage!Next /\ InOrder'
  /\ UNCHANGED <<part, divisionVars, facadeVars, pageVars, bridgeVars, caseVars>>

FacadeStep ==
  /\ part = "facade" /\ Facade!Next
  /\ UNCHANGED <<part, divisionVars, lineVars, pageVars, bridgeVars, caseVars>>

PageStep ==
  /\ part = "page" /\ Page!Next
  /\ UNCHANGED <<part, divisionVars, lineVars, facadeVars, bridgeVars, caseVars>>

BridgeStep ==
  /\ part = "bridge" /\ Bridge!Next
  /\ UNCHANGED <<part, divisionVars, lineVars, facadeVars, pageVars, caseVars>>

CaseStep ==
  /\ part = "case" /\ Case!Next /\ MadeInOrder'
  /\ UNCHANGED <<part, divisionVars, lineVars, facadeVars, pageVars, bridgeVars>>

MCNext ==
  \/ DivisionStep \/ LineageStep \/ FacadeStep \/ PageStep \/ BridgeStep
  \/ CaseStep

MCSpec ==
  /\ MCInit
  /\ [][MCNext]_<<part, divisionVars, lineVars, facadeVars, pageVars, bridgeVars,
                   caseVars>>
  /\ \A h \in Handlers : WF_divisionVars(part = "division" /\ Route(h))
  /\ \A d \in Divisions : WF_divisionVars(part = "division" /\ Expire(d))
  /\ SF_divisionVars(part = "division" /\ PollCurrent)

-----------------------------------------------------------------------------
(* One component each; see its module.                                     *)

(* Retries made one at a time stay inside the budget of their lineage, a   *)
(* chain whose children have the mode its earlier ecologies call for.      *)
LineageIsSound == part = "lineage" => Lineage!LineageIsSound

(* And a step gives a run up only when nothing is left to try.             *)
StopsOnlyExhausted == [][part = "lineage" => Lineage!StopStep]_lineVars

(* Every request to the engine worker is answered once.                    *)
EngineAnswersOnce == part = "facade" => Facade!EngineAnswersOnce

(* The page keeps the key of every request in doubt until its fate is      *)
(* known, and searches for the game it shows only.                         *)
ClientIsCareful == part = "page" => Page!ClientIsCareful

(* The bridge's slots, records and guard account for all work under way.   *)
BridgeAccounts == part = "bridge" => Bridge!BridgeAccounts

(* And no turn begins while a cancelled one is still running.              *)
NoTurnOverlapsCancelled == [][part = "bridge" => Bridge!TurnStep]_bridgeVars

(* A case that exports verifies, whatever its game and its stages have     *)
(* gone through.                                                           *)
CasesVerify == part = "case" => Case!CasesVerify
=============================================================================
