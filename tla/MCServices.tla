---------------------------- MODULE MCServices ------------------------------
(***************************************************************************)
(* What stands behind a request, one component in each behaviour: the      *)
(* Answer route (AnswerRoute), the requests of Wilbur (WilburLedger), the  *)
(* turns of the model adapters (ProviderTurns), the research broker        *)
(* (Research), and the host's side of the bridge: its launcher (Launcher)  *)
(* and its search (CodexSearch).                                           *)
(***************************************************************************)
EXTENDS MCAnswerRoute

CONSTANTS
  Charlotte, Elsewhere, Empty, f1, f2,
  Suggestions, Intents, RowLimit, TextLimit, UserLimit, IpLimit  \* of WilburLedger

ASSUME ServicesAssumption ==
  /\ None \notin Routes /\ Empty \notin Routes \cup {None}
  /\ Elsewhere \notin Keys

Asked(op, revision, status) ==
  [op |-> op, on |-> Charlotte, revision |-> revision, status |-> status]
WilburIntents ==
  {Asked("create_action", 0, "planned"), Asked("update_action", 0, "in_progress"),
   Asked("append_observation", 0, "planned")}

VARIABLES
  part,  \* the component under check; fixed by the initial state
  wilburRun, wilburActions, wilburObserved, wilburEvents, wilburRequests,
  wilburRate, wilburHandler, wilburReplies, wilburCrashes,
  adapterServiceState, adapterCreations, adapterHealthy, adapterAttempt,
  adapterLease, adapterSaved, adapterWire, adapterAsked,
  brokerPolicy, brokerResearch, brokerOverdue, brokerMoved, brokerCaller,
  brokerPage, brokerSearches, brokerContacts, brokerDeaths,
  launcherIdentityFile, launcherPayload, launcherLaunch, launcherRuntime,
  launcherBridgeOf, launcherServer,
  searchDisk, searchFacts, searchInspected, searchSeals, searchModules,
  searchSearch, searchClient

wilburVars == <<wilburRun, wilburActions, wilburObserved, wilburEvents,
                 wilburRequests, wilburRate, wilburHandler, wilburReplies,
                 wilburCrashes>>
adapterVars == <<adapterServiceState, adapterCreations, adapterHealthy,
                  adapterAttempt, adapterLease, adapterSaved, adapterWire,
                  adapterAsked>>
brokerVars == <<brokerPolicy, brokerResearch, brokerOverdue, brokerMoved,
                 brokerCaller, brokerPage, brokerSearches, brokerContacts,
                 brokerDeaths>>
launcherVars == <<launcherIdentityFile, launcherPayload, launcherLaunch,
                   launcherRuntime, launcherBridgeOf, launcherServer>>
searchVars == <<searchDisk, searchFacts, searchInspected, searchSeals,
                 searchModules, searchSearch, searchClient>>

Wilbur == INSTANCE WilburLedger WITH
  Handlers <- Routes, run <- wilburRun, actions <- wilburActions,
  observed <- wilburObserved, events <- wilburEvents,
  requests <- wilburRequests, rate <- wilburRate, handler <- wilburHandler,
  replies <- wilburReplies, crashes <- wilburCrashes

ASSUME WilburAssumption ==
  /\ IsFiniteSet(Routes) /\ Routes # {}
  /\ IsFiniteSet(Keys) /\ IsFiniteSet(Suggestions)
  /\ Intents \subseteq Wilbur!Intent
  /\ None \notin Wilbur!Action \cup Wilbur!Request
  /\ {RowLimit, UserLimit} \subseteq Nat

Adapters == INSTANCE ProviderTurns WITH
  Attempts <- Routes, AttemptKinds <- {"answer", "portia", "local"},
  Candidates <- 2, serviceState <- adapterServiceState,
  creations <- adapterCreations, healthy <- adapterHealthy,
  attempt <- adapterAttempt, lease <- adapterLease, saved <- adapterSaved,
  wire <- adapterWire, asked <- adapterAsked

Broker == INSTANCE Research WITH
  Callers <- Routes, Paths <- Keys, NoCaller <- None, MaxSources <- 3,
  PageLimit <- 2, RedirectLimit <- 2, MaxDeaths <- 1, policy <- brokerPolicy,
  research <- brokerResearch, overdue <- brokerOverdue, moved <- brokerMoved,
  caller <- brokerCaller, page <- brokerPage, searches <- brokerSearches,
  contacts <- brokerContacts, deaths <- brokerDeaths

Launched == INSTANCE Launcher WITH
  Launches <- Routes, Absent <- None, MaxPayload <- 2,
  identityFile <- launcherIdentityFile, payload <- launcherPayload,
  launch <- launcherLaunch, runtime <- launcherRuntime,
  bridgeOf <- launcherBridgeOf, server <- launcherServer

Search == INSTANCE CodexSearch WITH
  Sealed <- {f1}, Loose <- {f2}, Searches <- Routes, MaxEdits <- 2,
  disk <- searchDisk, facts <- searchFacts, inspected <- searchInspected,
  seals <- searchSeals, modules <- searchModules, search <- searchSearch,
  client <- searchClient

(* No state, of a component that is not under check.                       *)
NoWilbur ==
  /\ wilburRun = None /\ wilburActions = None /\ wilburObserved = None
  /\ wilburEvents = None /\ wilburRequests = None /\ wilburRate = None
  /\ wilburHandler = None /\ wilburReplies = None /\ wilburCrashes = None
NoAdapters ==
  /\ adapterServiceState = None /\ adapterCreations = None
  /\ adapterHealthy = None /\ adapterAttempt = None /\ adapterLease = None
  /\ adapterSaved = None /\ adapterWire = None /\ adapterAsked = None
NoBroker ==
  /\ brokerPolicy = None /\ brokerResearch = None /\ brokerOverdue = None
  /\ brokerMoved = None /\ brokerCaller = None /\ brokerPage = None
  /\ brokerSearches = None /\ brokerContacts = None /\ brokerDeaths = None
NoLaunched ==
  /\ launcherIdentityFile = None /\ launcherPayload = None
  /\ launcherLaunch = None /\ launcherRuntime = None /\ launcherBridgeOf = None
  /\ launcherServer = None
NoSearch ==
  /\ searchDisk = None /\ searchFacts = None /\ searchInspected = None
  /\ searchSeals = None /\ searchModules = None /\ searchSearch = None
  /\ searchClient = None

(* The components that are not under check rest where they begin.          *)
MCInit ==
  /\ part \in {"answers", "wilbur", "adapters", "broker", "launcher", "search"}
  /\ Init
  /\ IF part = "wilbur" THEN Wilbur!Init ELSE NoWilbur
  /\ IF part = "adapters" THEN Adapters!Init ELSE NoAdapters
  /\ IF part = "broker" THEN Broker!Init ELSE NoBroker
  /\ IF part = "launcher" THEN Launched!Init ELSE NoLaunched
  /\ IF part = "search" THEN Search!Init ELSE NoSearch

AnswersStep ==
  /\ part = "answers" /\ Next
  /\ UNCHANGED <<part, wilburVars, adapterVars, brokerVars, launcherVars, searchVars>>

WilburStep ==
  /\ part = "wilbur" /\ Wilbur!Next
  /\ UNCHANGED <<part, vars, adapterVars, brokerVars, launcherVars, searchVars>>

AdaptersStep ==
  /\ part = "adapters" /\ Adapters!Next
  /\ UNCHANGED <<part, vars, wilburVars, brokerVars, launcherVars, searchVars>>

BrokerStep ==
  /\ part = "broker" /\ Broker!Next
  /\ UNCHANGED <<part, vars, wilburVars, adapterVars, launcherVars, searchVars>>

LaunchedStep ==
  /\ part = "launcher" /\ Launched!Next
  /\ UNCHANGED <<part, vars, wilburVars, adapterVars, brokerVars, searchVars>>

SearchStep ==
  /\ part = "search" /\ Search!Next
  /\ UNCHANGED <<part, vars, wilburVars, adapterVars, brokerVars, launcherVars>>

MCNext ==
  \/ AnswersStep \/ WilburStep \/ AdaptersStep \/ BrokerStep \/ LaunchedStep
  \/ SearchStep

MCSpec ==
  /\ MCInit
  /\ [][MCNext]_<<part, vars, wilburVars, adapterVars, brokerVars, launcherVars,
                     searchVars>>

-----------------------------------------------------------------------------
(* One component each; see its module.                                     *)

(* What Wilbur stores, admits and answers is what was asked for, once.     *)
LedgerIsExact == part = "wilbur" => Wilbur!LedgerIsExact

(* A model turn is spent once, by an attempt that still holds its lease.   *)
TurnsAreSpentOnce == part = "adapters" => Adapters!TurnsAreSpentOnce

(* A research request is settled once, with what its pages said, and none  *)
(* is fetched outside the hosts its search named.                          *)
ResearchIsSettledOnce == part = "broker" => Broker!ResearchIsSettledOnce

(* Launches agree on one identity, serve what was verified, and end with   *)
(* no copy, bridge or server left behind.                                  *)
LaunchesAreClean == part = "launcher" => Launched!LaunchesAreClean

(* A search runs nothing but the bytes that were inspected.                *)
SearchIsAttested == part = "search" => Search!SearchIsAttested
=============================================================================
