----------------------------- MODULE CaseBundle -----------------------------
(***************************************************************************)
(* The case bundle (src/server/case-bundle.ts): one game and its lifecycle *)
(* run, read in one repeatable-read transaction, packed under one of three *)
(* redaction profiles, and verified before it leaves the server (exportCase*)
(* of src/server/http/service-adapter.ts) or again, offline, from a copy.  *)
(*                                                                         *)
(* The rows change one committed statement at a time; the route handlers   *)
(* that issue the statements are modelled in ModelStages, GameStore and    *)
(* WilburLedger, and appear here only as what they leave in the tables.    *)
(* Every state is therefore one an export may read.                        *)
(*                                                                         *)
(* A hash is injective; a digest is the thing it digests.                  *)
(***************************************************************************)
EXTENDS Lifecycle, Sequences, FiniteSets, SequencesExt

CONSTANTS
  Requests,      \* ids of Portia's and Charlotte's model requests
  None,          \* SQL NULL
  LastPly,       \* bound: the ply that ends the game
  FailureLimit,  \* portia_failure_limit = charlotte_failure_limit
  SourceLimit,   \* source_limit of a research request
  FetchLimit,    \* RESEARCH_PAGE_FETCH_LIMIT: pages a search reads
  MaxAnswers,    \* bound: how often an answer is begun
  MaxNotes       \* bound: Wilbur's actions, and the observations of them

VARIABLES
  game,       \* the games row and its game_events
  run,        \* the lifecycle_runs row
  log,        \* lifecycle_events, each <<state_from, state_to>>
  artifacts,  \* portia_reviews, gate_decisions, charlotte_results, wilbur_*,
              \* and research_requests with its research_sources
  requests,   \* model_requests of the game
  answers     \* bound: answers begun

caseVars == <<game, run, log, artifacts, requests, answers>>

Profiles == {"private-full-v1", "research-redacted-v1", "metadata-only-v1"}
Stages == {"portia", "charlotte"}

Pending == [portia |-> "portia_pending", charlotte |-> "charlotte_pending"]
Running == [portia |-> "portia_running", charlotte |-> "charlotte_running"]
Complete == [portia |-> "portia_complete", charlotte |-> "charlotte_complete"]
Unavailable == [portia |-> "portia_unavailable", charlotte |-> "charlotte_unavailable"]

Legal(from, to) == {from, to} \subseteq LifecycleStates /\ CanTransition(from, to)

-----------------------------------------------------------------------------
(* The rows.                                                               *)

Over(events) == Len(events) >= LastPly

(* A divided game was advanced once; a same-field replay begins at zero.   *)
NewGame(child, consent) ==
  [child |-> child, consent |-> consent, status |-> "mapped", revision |-> IF child THEN 0 ELSE 1,
   events |-> <<>>]

NoRun == [state |-> None, child |-> FALSE, record |-> FALSE, active |-> None,
          failed |-> [s \in Stages |-> 0]]

(* The research request of a game: its sources in order, the pages read of *)
(* them and those that could not be read.                                  *)
NoResearch == [status |-> "absent", sources |-> <<>>, facts |-> {}, failures |-> {}]

Bare == [review |-> None, gate |-> None, result |-> None, actions |-> 0, notes |-> <<>>,
         research |-> NoResearch]

Init ==
  /\ \E child, consent \in BOOLEAN : game = NewGame(child, consent)
  /\ run = NoRun
  /\ log = <<>>
  /\ artifacts = Bare
  /\ requests = [r \in Requests |-> [stage |-> None, status |-> "absent"]]
  /\ answers = 0

(* A statement that moves the run writes the row and one activity.         *)
Advances(row, to) == run' = [row EXCEPT !.state = to] /\ log' = Append(log, <<row.state, to>>)

Bootstrap == <<<<"anansi_pending", "anansi_running">>, <<"anansi_running", "field_ready">>,
               <<"field_ready", "chess_ready">>, <<"chess_ready", "chess_playing">>,
               <<"chess_playing", "chess_terminal">>>>

BootState ==
  CASE game.status = "mapped" -> "chess_ready"
    [] game.status = "playing" -> "chess_playing"
    [] game.status = "abandoned" -> "abandoned"
    [] OTHER -> "chess_terminal"

Booted == [chess_ready |-> 3, chess_playing |-> 4, chess_terminal |-> 5, abandoned |-> 3]

(* ensureForGame, by whichever repetition of the division first gets here. *)
EnsureRun ==
  /\ run.state = None
  /\ ~game.child
  /\ run' = [NoRun EXCEPT !.state = BootState]
  /\ log' = SubSeq(Bootstrap, 1, Booted[BootState])
  /\ UNCHANGED <<game, artifacts, requests, answers>>

(* createRetryRun.                                                         *)
CreateRetryRun ==
  /\ run.state = None
  /\ game.child
  /\ game.status = "mapped"
  /\ run' = [NoRun EXCEPT !.state = "chess_ready", !.child = TRUE]
  /\ log' = <<<<None, "chess_ready">>>>
  /\ UNCHANGED <<game, artifacts, requests, answers>>

(* Game statements advance the revision by one.                            *)
GameMoves(status, events) ==
  /\ game' = [game EXCEPT !.status = status, !.revision = @ + 1, !.events = events]
  /\ UNCHANGED <<run, log, artifacts, requests>>

Start == game.status = "mapped" /\ GameMoves("playing", <<>>) /\ UNCHANGED answers

(* appendMove: the client's move, and a forced pass of the other side.     *)
AppendMove ==
  /\ game.status = "playing"
  /\ \E passed \in 0..1 :
       LET of(source) == [revision |-> game.revision + 1, source |-> source]
           moved == Append(game.events, of("client"))
           events == IF passed = 1 /\ ~Over(moved) THEN Append(moved, of("server")) ELSE moved
       IN  GameMoves(IF Over(events) THEN "completed" ELSE "playing", events)
  /\ UNCHANGED answers

BeginAnswer ==
  /\ game.status \in {"completed", "answer_failed"}
  /\ run.state = "gate_passed"
  /\ answers < MaxAnswers
  /\ GameMoves("answering", game.events)
  /\ answers' = answers + 1

EndAnswer ==
  /\ game.status = "answering"
  /\ \E status \in {"answered", "answer_failed"} : GameMoves(status, game.events)
  /\ UNCHANGED answers

Abandon ==
  /\ game.status \in {"mapped", "playing", "completed", "answer_failed", "answered"}
  /\ GameMoves("abandoned", game.events)
  /\ UNCHANGED answers

RunMoves(row, to) == Advances(row, to) /\ UNCHANGED <<game, artifacts, requests, answers>>

(* synchronizeLifecycleWithGame, statement by statement.                   *)
SyncStart ==
  /\ run.state = "chess_ready"
  /\ game.status = "playing" \/ Over(game.events)
  /\ RunMoves(run, "chess_playing")

SyncTerminal ==
  /\ run.state = "chess_playing"
  /\ Over(game.events)
  /\ RunMoves([run EXCEPT !.record = TRUE], "chess_terminal")

(* What has no directional record is not executed any further.             *)
Queue == run.state = "chess_terminal" /\ run.record /\ RunMoves(run, "portia_pending")

(* ensureForStage, before Portia is asked: her research is not needed, or  *)
(* a search begins, if the player consented to one.                        *)
Research ==
  /\ run.state = "portia_pending"
  /\ artifacts.research.status = "absent"
  /\ \E status \in {"not_needed", "searching"} :
       /\ status = "searching" => game.consent
       /\ artifacts' = [artifacts EXCEPT !.research.status = status]
  /\ Advances(run, run.state)
  /\ UNCHANGED <<game, requests, answers>>

(* Of n sources no more than FetchLimit pages are asked for; which ones is *)
(* a matter of the trust in their hosts.                                   *)
Fetched(n) ==
  {pages \in SUBSET (1..n) : Cardinality(pages) = IF n < FetchLimit THEN n ELSE FetchLimit}

(* The search completes: each page asked for was read, or failed to be.    *)
Discover ==
  /\ run.state = "portia_pending"
  /\ artifacts.research.status = "searching"
  /\ \E n \in 1..SourceLimit : \E pages \in Fetched(n) : \E facts \in SUBSET pages :
       artifacts' = [artifacts EXCEPT !.research =
         [status |-> "completed", sources |-> [i \in 1..n |-> i], facts |-> facts,
          failures |-> pages \ facts]]
  /\ Advances(run, run.state)
  /\ UNCHANGED <<game, requests, answers>>

(* The search fails, is refused or times out.                              *)
GiveUp ==
  /\ run.state = "portia_pending"
  /\ artifacts.research.status = "searching"
  /\ artifacts' = [artifacts EXCEPT !.research.status = "failed"]
  /\ Advances(run, run.state)
  /\ UNCHANGED <<game, requests, answers>>

(* Portia is asked only when her research has ended.                       *)
Researched == artifacts.research.status \notin {"absent", "searching"}

Reserve(r) ==
  /\ requests[r].status = "absent"
  /\ \A x \in Requests : requests[x].status # "in_progress"
  /\ \E s \in Stages : /\ run.state = Pending[s]
                       /\ s = "portia" => Researched
                       /\ requests' = [requests EXCEPT ![r] = [stage |-> s, status |-> "in_progress"]]
  /\ UNCHANGED <<game, run, log, artifacts, answers>>

Attempt(r) ==
  \E s \in Stages :
    /\ run.state = Pending[s]
    /\ requests[r].stage = s
    /\ requests[r].status \in {"in_progress", "succeeded"}
    /\ RunMoves([run EXCEPT !.active = r], Running[s])

(* settleModelRequest, or the sweep of a lease that ran out.               *)
Settle(r) ==
  /\ requests[r].status = "in_progress"
  /\ \E status \in {"succeeded", "failed", "indeterminate"} :
       requests' = [requests EXCEPT ![r].status = status]
  /\ UNCHANGED <<game, run, log, artifacts, answers>>

Fenced(r, s) == run.state = Running[s] /\ run.active = r /\ requests[r].stage = s

(* Mutant: a finished stage keeps its fence.                               *)
Unfenced_Kept(row) == row

Unfenced(row) == [row EXCEPT !.active = None]

Store(r) ==
  \E s \in Stages :
    /\ Fenced(r, s)
    /\ requests[r].status = "succeeded"
    /\ artifacts' = IF s = "portia" THEN [artifacts EXCEPT !.review = r]
                                    ELSE [artifacts EXCEPT !.result = r]
    /\ Advances(Unfenced(run), Complete[s])
    /\ UNCHANGED <<game, requests, answers>>

Fail(r) ==
  \E s \in Stages :
    /\ Fenced(r, s)
    /\ requests[r].status \in {"failed", "indeterminate"}
    /\ run.failed[s] < FailureLimit
    /\ RunMoves([Unfenced(run) EXCEPT !.failed[s] = @ + 1],
                IF run.failed[s] + 1 >= FailureLimit THEN Unavailable[s] ELSE Pending[s])

Judge ==
  /\ run.state = "portia_complete"
  /\ \E passed \in BOOLEAN :
       /\ artifacts' = [artifacts EXCEPT !.gate = IF passed THEN "passed" ELSE "failed"]
       /\ Advances(run, IF passed THEN "gate_passed" ELSE "gate_failed")
  /\ UNCHANGED <<game, requests, answers>>

Authorize ==
  run.state = "gate_passed" /\ game.status = "answered" /\ RunMoves(run, "charlotte_pending")

(* The end of a failed Gate, and the parent's side of createRetryRun.      *)
Resolve ==
  \/ run.state = "gate_failed" /\ RunMoves(run, "insufficient_basis")
  \/ run.state = "insufficient_basis" /\ RunMoves(run, "retry_ready")
  \/ run.state = "gate_failed" /\ RunMoves(run, "retry_ready")
  \/ run.state = "retry_ready" /\ RunMoves(run, "retry_running")

Executable == {"charlotte_complete", "wilbur_planning", "wilbur_in_progress", "wilbur_observed"}

Plan ==
  /\ run.state \in Executable
  /\ artifacts.actions < MaxNotes
  /\ artifacts' = [artifacts EXCEPT !.actions = @ + 1]
  /\ Advances(run, IF run.state = "charlotte_complete" THEN "wilbur_planning" ELSE run.state)
  /\ UNCHANGED <<game, requests, answers>>

Observe ==
  /\ run.state \in Executable
  /\ Len(artifacts.notes) < MaxNotes
  /\ \E a \in 1..artifacts.actions : artifacts' = [artifacts EXCEPT !.notes = Append(@, a)]
  /\ Advances(run, "wilbur_observed")
  /\ UNCHANGED <<game, requests, answers>>

Progress ==
  /\ run.state \in Executable \ {"charlotte_complete", "wilbur_in_progress"}
  /\ artifacts.actions > Len(artifacts.notes)
  /\ RunMoves(run, "wilbur_in_progress")

Next ==
  \/ EnsureRun \/ CreateRetryRun \/ Start \/ AppendMove \/ BeginAnswer \/ EndAnswer \/ Abandon
  \/ SyncStart \/ SyncTerminal \/ Queue \/ Judge \/ Authorize \/ Resolve
  \/ Research \/ Discover \/ GiveUp \/ Plan \/ Observe \/ Progress
  \/ \E r \in Requests : Reserve(r) \/ Attempt(r) \/ Settle(r) \/ Store(r) \/ Fail(r)

Spec == Init /\ [][Next]_caseVars

-----------------------------------------------------------------------------
(* Packing.                                                                *)

PortiaEvidence == {"portia_complete", "gate_passed", "gate_failed", "retry_ready", "retry_running",
                   "charlotte_pending", "charlotte_running", "charlotte_unavailable",
                   "insufficient_basis"} \cup Executable
GateEvidence == PortiaEvidence \ {"portia_complete"}
GateRefused == {"gate_failed", "retry_ready", "retry_running", "insufficient_basis"}
TerminalEvidence == PortiaEvidence \cup {"chess_terminal", "portia_pending", "portia_running",
                                         "portia_unavailable"}

(* The field allowlists, by what an absent field leaves unchecked.         *)
Kept == [p \in Profiles |->
  CASE p = "private-full-v1"      -> {"narrative", "requestSha256", "idempotencyKey"}
    [] p = "research-redacted-v1" -> {"requestSha256"}
    [] p = "metadata-only-v1"     -> {}]

Omitted == [p \in Profiles |-> Kept["private-full-v1"] \ Kept[p]]

(* What the export reads, in one repeatable-read transaction.              *)
Rows == [game |-> game, run |-> run, log |-> log, artifacts |-> artifacts, requests |-> requests]

(* A client's move bound the revision it was made against; its key is its. *)
PackedEvent(rows, p, n) ==
  LET e == rows.game.events[n]
      has(field) == e.source = "client" /\ field \in Kept[p]
  IN  [ply |-> n, revision |-> e.revision, source |-> e.source,
       digest |-> IF has("requestSha256") THEN e.revision - 1 ELSE None,
       key |-> IF has("idempotencyKey") THEN n ELSE None]

PackedGame(rows, p) ==
  LET g == rows.game IN
  [status |-> g.status, consent |-> g.consent, revision |-> g.revision,
   summary |-> Over(g.events), events |-> [n \in DOMAIN g.events |-> PackedEvent(rows, p, n)]]

(* A move as the directional record has it.                                *)
CanonicalEvent(e) == [revision |-> e.revision, source |-> e.source]

Recorded(events) == [n \in DOMAIN events |-> CanonicalEvent(events[n])]

(* trajectoryDirectionalRecordEvidence; it throws where Packs is false.    *)
Evidence(rows, p) ==
  IF rows.run.record
  THEN [status |-> "bound",
        record |-> IF "narrative" \in Kept[p] THEN Recorded(rows.game.events) ELSE None]
  ELSE [status |-> "not_terminal", record |-> None]

Packs == run.state # None /\ (run.record <=> run.state \in TerminalEvidence)

(* URLs are narrative; what is left of a source is its place.              *)
PackedSource(rows, p, n) ==
  [ordinal |-> n,
   url |-> IF "narrative" \in Kept[p] THEN rows.artifacts.research.sources[n] ELSE None]

(* So are pages.                                                           *)
PackedResearch(rows, p) ==
  LET r == rows.artifacts.research
      kept(pages) == IF "narrative" \in Kept[p] THEN pages ELSE {}
  IN  [consent |-> rows.game.consent, status |-> r.status, limit |-> SourceLimit,
       sources |-> [n \in DOMAIN r.sources |-> PackedSource(rows, p, n)],
       facts |-> kept(r.facts), failures |-> kept(r.failures)]

(* Reviews, the Gate, results, actions and observations.                   *)
PackedArtifacts(rows) ==
  [field \in DOMAIN rows.artifacts \ {"research"} |-> rows.artifacts[field]]

PackedActivities(rows) == [n \in DOMAIN rows.log |-> <<n, rows.log[n]>>]

PackedRequests(rows) ==
  {<<r, rows.requests[r]>> : r \in {x \in Requests : rows.requests[x].stage # None}}

PackedLifecycle(rows, p) ==
  [run |-> rows.run, evidence |-> Evidence(rows, p), artifacts |-> PackedArtifacts(rows),
   research |-> PackedResearch(rows, p), activities |-> PackedActivities(rows)]

Data(rows, p) ==
  [identity |-> rows.run.child,
   game |-> PackedGame(rows, p),
   lifecycle |-> PackedLifecycle(rows, p),
   providerInvocations |-> PackedRequests(rows),
   redaction |-> [profile |-> p, allowlist |-> Kept[p], omissions |-> Omitted[p]]]

(* One digest for every section, and a root over the profile and them all. *)
Seal(p, data) ==
  [profile |-> p, entries |-> data, root |-> <<p, data>>, data |-> data]

Bundle(p) == Seal(p, Data(Rows, p))

-----------------------------------------------------------------------------
(* verifyCaseBundle.                                                       *)

ManifestVerifies(b) == b.entries = b.data /\ b.root = <<b.profile, b.data>>

(* Declared and actual fields are those of the profile.                    *)
DeclaredVerifies(b) ==
  b.data.redaction = [profile |-> b.profile, allowlist |-> Kept[b.profile],
                      omissions |-> Omitted[b.profile]]

GameShapeVerifies(b) ==
  \A n \in DOMAIN b.data.game.events :
    LET e == b.data.game.events[n] IN
      /\ e.digest # None => "requestSha256" \in Kept[b.profile]
      /\ e.key # None => "idempotencyKey" \in Kept[b.profile]

LifecycleShapeVerifies(b) ==
  LET l == b.data.lifecycle IN
  /\ l.evidence.record # None => "narrative" \in Kept[b.profile]
  /\ l.research.consent = b.data.game.consent

ShapeVerifies(b) == DeclaredVerifies(b) /\ GameShapeVerifies(b) /\ LifecycleShapeVerifies(b)

Settling == {"answering", "answer_failed", "answered", "abandoned"}

(* Each revision is one client move and the passes it forced.              *)
GroupsVerify(events) ==
  /\ \A n \in DOMAIN events :
       IF n = 1 \/ events[n].revision # events[n - 1].revision
       THEN /\ events[n].source = "client"
            /\ n > 1 => events[n].revision = events[n - 1].revision + 1
       ELSE events[n].source = "server"
  /\ \A n \in DOMAIN events : events[n].revision > 0

EventsVerify(b) ==
  LET g == b.data.game
      events == g.events
      last == events[Len(events)].revision
      client == {n \in DOMAIN events : events[n].source = "client"}
  IN  /\ GroupsVerify(events)
      /\ "idempotencyKey" \in Kept[b.profile] =>
           /\ \A n \in DOMAIN events : events[n].key # None <=> n \in client
           /\ \A m, n \in client : events[m].key = events[n].key => m = n
      /\ "requestSha256" \in Kept[b.profile] =>
           \A n \in DOMAIN events :
             events[n].digest = IF n \in client THEN events[n].revision - 1 ELSE None
      /\ g.revision > 0
      /\ g.status = "mapped" => events = <<>>
      /\ events # <<>> =>
           /\ last <= g.revision
           /\ g.status \in {"playing", "completed"} => g.revision = last
           /\ g.status \in Settling => g.revision > last

Packed(b, r) == {c \in b.data.providerInvocations : c[1] = r}

ReferencesVerify(b) ==
  LET a == b.data.lifecycle.artifacts IN
  /\ b.data.identity = b.data.lifecycle.run.child
  /\ a.review # None => Packed(b, a.review) # {}
  /\ a.result # None => Packed(b, a.result) # {}
  /\ \A n \in DOMAIN a.notes : a.notes[n] \in 1..a.actions

(* Nothing is searched or found for a player who did not consent.          *)
OptOutVerifies(r) ==
  ~r.consent =>
    /\ r.status \in {"absent", "not_needed"}
    /\ r.sources = <<>> /\ r.facts = {} /\ r.failures = {}

(* The sources are numbered from one, distinct, and within their limit.    *)
SourcesVerify(r) ==
  LET n == Len(r.sources) IN
  /\ {r.sources[i].ordinal : i \in 1..n} = 1..n
  /\ n <= r.limit
  /\ \A i, j \in 1..n : r.sources[i].url = r.sources[j].url => i = j \/ r.sources[i].url = None

(* A page was read, or failed to be, once and of a disclosed source, and   *)
(* no more pages than are fetched.                                         *)
PagesVerify(r) ==
  /\ Cardinality(r.facts \cup r.failures) <= FetchLimit
  /\ r.facts \cap r.failures = {}
  /\ \A page \in r.facts \cup r.failures : \E i \in DOMAIN r.sources : r.sources[i].url = page

ResearchVerifies(b) ==
  LET r == b.data.lifecycle.research IN OptOutVerifies(r) /\ SourcesVerify(r) /\ PagesVerify(r)

(* The activities are one unbroken legal history that ends where the run is. *)
HistoryVerifies(b) ==
  LET acts == b.data.lifecycle.activities
      from(n) == acts[n][2][1]
      to(n) == acts[n][2][2]
      retried == /\ from(1) = None
                 /\ to(1) = "chess_ready"
                 /\ b.data.lifecycle.run.child
  IN  /\ acts # <<>>
      /\ \A n \in DOMAIN acts : acts[n][1] = n
      /\ ~b.data.lifecycle.run.child => acts[1][2] = <<"anansi_pending", "anansi_running">>
      /\ \A n \in DOMAIN acts : (n = 1 /\ retried) \/ Legal(from(n), to(n))
      /\ \A n \in DOMAIN acts : n > 1 => from(n) = to(n - 1)
      /\ to(Len(acts)) = b.data.lifecycle.run.state

(* The artifacts a state calls for are there, one each.                    *)
EvidenceVerifies(b) ==
  LET a == b.data.lifecycle.artifacts
      state == b.data.lifecycle.run.state
  IN  /\ state \in PortiaEvidence => a.review # None
      /\ state \in GateEvidence => a.gate # None
      /\ state \in Executable => a.result # None
      /\ a.gate # None /\ state \in GateEvidence => (a.gate = "failed" <=> state \in GateRefused)

Bound(b, r, stage, statuses) ==
  \E c \in Packed(b, r) : c[2].stage = stage /\ c[2].status \in statuses

(* Reviews and results are those of succeeded requests; a running stage,   *)
(* and no other, has a request, and that one may still succeed.            *)
BindingsVerify(b) ==
  LET a == b.data.lifecycle.artifacts
      r == b.data.lifecycle.run
  IN  /\ a.review # None => Bound(b, a.review, "portia", {"succeeded"})
      /\ a.result # None => Bound(b, a.result, "charlotte", {"succeeded"})
      /\ \A s \in Stages :
           r.state = Running[s] => Bound(b, r.active, s, {"in_progress", "succeeded"})
      /\ r.state \notin {Running[s] : s \in Stages} => r.active = None

BudgetsVerify(b) ==
  \A s \in Stages :
    LET count == b.data.lifecycle.run.failed[s] IN
      /\ count <= FailureLimit
      /\ b.data.lifecycle.run.state = Unavailable[s] => count = FailureLimit

(* The moves are played again, ply after ply, to the end they claim.       *)
ReplayVerifies(b) ==
  LET g == b.data.game
      over == Over(g.events)
  IN  /\ \A n \in DOMAIN g.events : g.events[n].ply = n
      /\ over => g.status \notin {"mapped", "playing"}
      /\ ~over => g.status \notin {"completed", "answering", "answer_failed", "answered"}
      /\ g.summary = over
      /\ b.data.lifecycle.run.state \in TerminalEvidence => g.summary

(* The directional record is there for a finished game, and is derived     *)
(* again where the profile keeps it.                                       *)
DirectionVerifies(b) ==
  LET e == b.data.lifecycle.evidence
      events == b.data.game.events
  IN  IF e.status = "not_terminal"
      THEN ~Over(events) /\ e.record = None
      ELSE /\ Over(events)
           /\ IF "narrative" \in Kept[b.profile]
              THEN e.record = Recorded(events)
              ELSE e.record = None

Verifies(b) ==
  /\ ManifestVerifies(b) /\ ShapeVerifies(b) /\ EventsVerify(b)
  /\ ReferencesVerify(b) /\ ResearchVerifies(b) /\ HistoryVerifies(b)
  /\ EvidenceVerifies(b) /\ BindingsVerify(b) /\ BudgetsVerify(b)
  /\ ReplayVerifies(b) /\ DirectionVerifies(b)

(* exportCase answers with the bundle only if it verifies.                 *)
Exports(p) == Packs /\ Verifies(Bundle(p))

-----------------------------------------------------------------------------
(* Properties.                                                             *)

(* A provider attempt ended badly, and the run has yet to count it.        *)
Unsettled ==
  \E s \in Stages : run.state = Running[s] /\ requests[run.active].status \in {"failed", "indeterminate"}

(* A same-field replay nobody has started: its revision is zero.           *)
Unstarted == game.revision = 0

(* The game is over, and the run does not hold its directional record:     *)
(* the move was committed and the run not yet moved, or the run was first  *)
(* made for a game already over.                                           *)
Unsynchronized == Over(game.events) /\ ~run.record

(* The run was first made for a game already abandoned.                    *)
Belated == run.state = "abandoned"

(* A lifecycle can be exported at every moment, under every profile, but   *)
(* for four named windows; there it never can.                             *)
ExportsOutsideWindows ==
  run.state # None =>
    \A p \in Profiles : Exports(p) <=> ~(Unsettled \/ Unstarted \/ Unsynchronized \/ Belated)

(* Two exports that differ in nothing a cross-check would notice.          *)
Recounted(data) == {[data EXCEPT !.lifecycle.run.failed[s] = 1 - (@ % 2)] : s \in Stages}

(* A copy with a section, or the profile, of another export, or with a     *)
(* count changed in it, does not verify.                                   *)
MixedCopiesFail ==
  Packs => \A p, q \in Profiles :
    LET b == Bundle(p)
        o == Bundle(q)
    IN  /\ \A d \in Recounted(b.data) : ~Verifies([b EXCEPT !.data = d])
        /\ p # q => ~Verifies([b EXCEPT !.profile = q])
        /\ \A section \in DOMAIN b.data :
             o.data[section] # b.data[section] =>
               ~Verifies([b EXCEPT !.data[section] = o.data[section]])

(* A copy that lost a move, an activity, a research source or a move of    *)
(* its directional record, and was sealed anew, does not verify either.    *)
(* Nothing tells of a last source with no page beside it, never fetched or *)
(* not kept by the profile, of the end of an abandoned game, of a pass     *)
(* after the last move, or of the only move of an unfinished game.         *)
Losses(data) ==
  LET events == data.game.events
      acts == data.lifecycle.activities
      research == data.lifecycle.research
      sources == research.sources
  IN  {[data EXCEPT !.game.events = RemoveAt(events, n)] :
         n \in {m \in DOMAIN events :
                  m < Len(events) \/ (events[m].source = "client" /\ data.game.status # "abandoned" /\ m > 1)}}
      \cup
      {[data EXCEPT !.lifecycle.activities = RemoveAt(acts, n)] :
         n \in {m \in DOMAIN acts : m < Len(acts) \/ acts[m][2][1] # acts[m][2][2]}}
      \cup
      {[data EXCEPT !.lifecycle.research.sources = RemoveAt(@, n)] :
         n \in {m \in DOMAIN sources : m < Len(sources) \/ sources[m].url \in research.facts \cup research.failures}}
      \cup
      (IF data.lifecycle.evidence.record = None THEN {}
       ELSE {[data EXCEPT !.lifecycle.evidence.record = Tail(@)]})

LossesAreCaught ==
  Packs => \A p \in Profiles : \A d \in Losses(Data(Rows, p)) : ~Verifies(Seal(p, d))

(* An export is refused in four named windows and nowhere else, and a      *)
(* damaged or mixed copy never passes verification.                        *)
CasesVerify == ExportsOutsideWindows /\ MixedCopiesFail /\ LossesAreCaught
=============================================================================
