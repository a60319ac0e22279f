---------------------------- MODULE RetryLineage ----------------------------
(***************************************************************************)
(* The genealogy of one root game: a failed Gate, the Retry that answers   *)
(* it (retryLifecycle of src/server/http/service-adapter.ts over           *)
(* createRetryRun of src/server/lifecycle/repository.ts) and the child run *)
(* it leaves, which may fail its own Gate in turn.                         *)
(*                                                                         *)
(* Each action is one SQL statement of a handler.  A run that has been     *)
(* judged never returns to an earlier state, so its state stands for its   *)
(* revision in a compare-and-set.  What happens between a terminal game    *)
(* and its Gate is ModelStages' subject and one action here.               *)
(***************************************************************************)
EXTENDS Lifecycle, FiniteSets

CONSTANTS
  Handlers,      \* concurrent invocations of retryLifecycle
  Keys,          \* client idempotency keys; a child game is named by its key
  Root,          \* the game of the root run
  None,          \* SQL NULL
  Fingerprints,  \* bound: terminal ecologies a game may end in
  Reviews,       \* bound: the reviews Portia may give
  MaxCrashes     \* bound: how many handlers die between two statements

Games == Keys \cup {Root}

VARIABLES
  runs,     \* lifecycle_runs, by game
  child,    \* games started by a Retry, by key
  handler,  \* what each handler holds in memory
  crashes   \* handlers lost so far

vars == <<runs, child, handler, crashes>>

-----------------------------------------------------------------------------
(* Rows.                                                                   *)

(* The states of a run between a Retry and the Gate.                       *)
RunStates == {"chess_ready", "chess_terminal", "gate_passed", "gate_failed", "retry_ready",
              "retry_running", "insufficient_basis"}

Run == [state : RunStates, parent : Games \cup {None}, generation : Nat, attempt : Nat,
        replays : 0..SameFieldReplays, regenerations : 0..FieldRegenerations,
        fingerprint : Fingerprints \cup {None}, verdict : Review \cup {None}]

Exists(g) == runs[g] # None
Failed(g) == Exists(g) /\ runs[g].verdict # None /\ ~Passes(runs[g].verdict)

(* mode and source are what the key was used for.                          *)
ChildGame == [status : {"dividing", "mapped", "failed"}, source : Games, mode : Modes]

ASSUME ConstantsAssumption ==
  /\ Root \notin Keys
  /\ None \notin Keys \cup {Root} \cup Fingerprints
  /\ None \notin Run \cup ChildGame
  /\ Reviews \subseteq Review
  /\ MaxCrashes \in Nat

Idle == [step |-> "idle"]

Task == [step : {"decide", "stop", "grant", "weave", "await", "parent", "ready", "run", "insert"},
         game : Games, key : Keys, mode : Modes \cup {None}, snap : Run]

Step(h) == handler[h].step
Parent(h) == runs[handler[h].game]
Finish(h) == handler' = [handler EXCEPT ![h] = Idle]
Goto(h, step) == handler' = [handler EXCEPT ![h].step = step]

Gone(h) == Finish(h) /\ UNCHANGED <<runs, child, crashes>>

Move(g, to) == runs' = [runs EXCEPT ![g].state = to]

RecommendedFor(row) == Recommend(row.verdict, row.replays, row.regenerations)

-----------------------------------------------------------------------------
(* A run up to its Gate.                                                   *)

(* synchronizeLifecycleWithGame, once the game is over.                    *)
FinishGame(g, f) ==
  /\ Exists(g)
  /\ runs[g].state = "chess_ready"
  /\ runs' = [runs EXCEPT ![g].state = "chess_terminal", ![g].fingerprint = f]
  /\ UNCHANGED <<child, handler, crashes>>

(* Portia's review and storeGate.                                          *)
JudgeRun(g, v) ==
  /\ Exists(g)
  /\ runs[g].state = "chess_terminal"
  /\ runs' = [runs EXCEPT ![g].verdict = v,
                          ![g].state = IF Passes(v) THEN "gate_passed" ELSE "gate_failed"]
  /\ UNCHANGED <<child, handler, crashes>>

(* concludeInsufficientBasisGate.                                          *)
ConcludeGate(g) ==
  /\ Exists(g)
  /\ runs[g].state = "gate_failed"
  /\ RecommendedFor(runs[g]) = "insufficient_basis"
  /\ Move(g, "insufficient_basis")
  /\ UNCHANGED <<child, handler, crashes>>

-----------------------------------------------------------------------------
(* retryLifecycle.                                                         *)

Retryable(row) ==
  row.state \in {"gate_failed", "retry_running"} \/ CanReopen(row.state, row.regenerations)

Open(h, g, k) ==
  /\ handler[h] = Idle
  /\ Failed(g)
  /\ Retryable(runs[g])
  /\ handler' = [handler EXCEPT
       ![h] = [step |-> "decide", game |-> g, key |-> k, mode |-> None, snap |-> runs[g]]]
  /\ UNCHANGED <<runs, child, crashes>>

(* Mutant: an ecology seen before is not noticed.                          *)
Duplicate_Never(h) == FALSE

(* hasPriorTerminalFingerprint.                                            *)
Duplicate(h) ==
  \E g \in Games \ {handler[h].game} :
    Exists(g) /\ runs[g].fingerprint = handler[h].snap.fingerprint

(* A Retry already running only looks for the child it should return.      *)
Decide(h) ==
  LET row == handler[h].snap
      mode == DecideRetry(RecommendedFor(row), row.replays, row.regenerations, Duplicate(h))
  IN
  /\ Step(h) = "decide"
  /\ handler' = [handler EXCEPT
       ![h] = CASE row.state = "retry_running"  -> Idle
                [] row.state # "retry_running" /\ mode = "insufficient_basis"
                                                -> [@ EXCEPT !.step = "stop"]
                [] row.state # "retry_running" /\ mode = "replay_game"
                                                -> [@ EXCEPT !.step = "grant", !.mode = mode]
                [] row.state # "retry_running" /\ mode = "regenerate_field"
                                                -> [@ EXCEPT !.step = "weave", !.mode = mode]]
  /\ UNCHANGED <<runs, child, crashes>>

Stop(h) ==
  /\ Step(h) = "stop"
  /\ IF Parent(h).state = handler[h].snap.state
     THEN Move(handler[h].game, "insufficient_basis")
     ELSE runs' = runs
  /\ Finish(h)
  /\ UNCHANGED <<child, crashes>>

ChildOf(h, status) == [status |-> status, source |-> handler[h].game, mode |-> handler[h].mode]

(* consumeReplayGameStart: one game per key, made once and found again.    *)
Grant(h) ==
  LET k == handler[h].key IN
  /\ Step(h) = "grant"
  /\ child[k] \in {None, ChildOf(h, "mapped")}
  /\ child' = [child EXCEPT ![k] = ChildOf(h, "mapped")]
  /\ Goto(h, "parent")
  /\ UNCHANGED <<runs, crashes>>

(* A quota is spent, or the key was used for something else.               *)
Refused(h) == Step(h) \in {"grant", "weave"} /\ Gone(h)

(* A new field: the shell, then the division that fills it.                *)
Weave(h) ==
  LET k == handler[h].key IN
  /\ Step(h) = "weave"
  /\ child[k] = None
  /\ child' = [child EXCEPT ![k] = ChildOf(h, "dividing")]
  /\ Goto(h, "await")
  /\ UNCHANGED <<runs, crashes>>

(* The division settles for the handler that called, or reconcilePending-  *)
(* Game settles it for one that finds it waiting.                          *)
Settled(h, status) ==
  LET k == handler[h].key IN
  /\ Step(h) \in {"weave", "await"}
  /\ child[k] = ChildOf(h, "dividing")
  /\ child' = [child EXCEPT ![k].status = status]
  /\ IF status = "mapped" THEN Goto(h, "parent") ELSE Finish(h)
  /\ UNCHANGED <<runs, crashes>>

Found(h) ==
  /\ Step(h) \in {"weave", "await"}
  /\ child[handler[h].key] \in {ChildOf(h, "mapped"), ChildOf(h, "failed")}
  /\ IF child[handler[h].key].status = "mapped" THEN Goto(h, "parent") ELSE Finish(h)
  /\ UNCHANGED <<runs, child, crashes>>

-----------------------------------------------------------------------------
(* createRetryRun.                                                         *)

(* Mutant: a parent that is ready to retry is taken for finished.          *)
NextStep_NotReady(row) ==
  CASE row.state = "gate_failed" \/ CanReopen(row.state, row.regenerations) -> "ready"
    [] row.state = "retry_running" -> "insert"
    [] OTHER -> "idle"

NextStep(row) ==
  CASE row.state = "gate_failed" \/ CanReopen(row.state, row.regenerations) -> "ready"
    [] row.state = "retry_ready"   -> "run"
    [] row.state = "retry_running" -> "insert"
    [] OTHER -> "idle"

(* The existing child and the parent as it is now.                         *)
ReadParent(h) ==
  /\ Step(h) = "parent"
  /\ IF Exists(handler[h].key) \/ NextStep(Parent(h)) = "idle"
     THEN Finish(h)
     ELSE handler' = [handler EXCEPT ![h].step = NextStep(Parent(h)), ![h].snap = Parent(h)]
  /\ UNCHANGED <<runs, child, crashes>>

(* transition(): compare-and-set, or nothing when already there; the row   *)
(* is read again afterwards.                                               *)
Advance(h, step, to) ==
  /\ Step(h) = step
  /\ IF Parent(h).state = to
     THEN runs' = runs /\ Goto(h, "parent")
     ELSE IF Parent(h).state = handler[h].snap.state
     THEN Move(handler[h].game, to) /\ Goto(h, "parent")
     ELSE runs' = runs /\ Finish(h)
  /\ UNCHANGED <<child, crashes>>

Authorize(h) == Advance(h, "ready", "retry_ready")
Start(h) == Advance(h, "run", "retry_running")

ChildRow(h) ==
  LET p == handler[h].snap
      same == handler[h].mode = "replay_game"
  IN  [state |-> "chess_ready", parent |-> handler[h].game,
       generation |-> IF same THEN p.generation ELSE p.generation + 1,
       attempt |-> IF same THEN p.attempt + 1 ELSE 1,
       replays |-> IF same THEN p.replays + 1 ELSE p.replays,
       regenerations |-> IF same THEN p.regenerations ELSE p.regenerations + 1,
       fingerprint |-> None, verdict |-> None]

(* Mutant: without the unique index.                                       *)
Insertable_Anywhere(row) ==
  row.replays \in 0..SameFieldReplays /\ row.regenerations \in 0..FieldRegenerations

(* UNIQUE (root_run_id, field_generation, game_attempt) and the CHECKs on  *)
(* both counters.                                                          *)
Insertable(row) ==
  /\ row.replays \in 0..SameFieldReplays
  /\ row.regenerations \in 0..FieldRegenerations
  /\ \A g \in Games : Exists(g) => <<runs[g].generation, runs[g].attempt>>
                                     # <<row.generation, row.attempt>>

Insert(h) ==
  LET k == handler[h].key IN
  /\ Step(h) = "insert"
  /\ runs' = IF ~Exists(k) /\ Insertable(ChildRow(h))
             THEN [runs EXCEPT ![k] = ChildRow(h)]
             ELSE runs
  /\ Finish(h)
  /\ UNCHANGED <<child, crashes>>

-----------------------------------------------------------------------------
Crash(h) ==
  /\ handler[h] # Idle
  /\ crashes < MaxCrashes
  /\ crashes' = crashes + 1
  /\ Finish(h)
  /\ UNCHANGED <<runs, child>>

Fresh == [state |-> "chess_ready", parent |-> None, generation |-> 1, attempt |-> 1,
          replays |-> 0, regenerations |-> 0, fingerprint |-> None, verdict |-> None]

(* A root run begins with its game, or was stopped by an older Gate before *)
(* it had used its regeneration.                                           *)
RootRuns ==
  {row \in [state : {"insufficient_basis"}, parent : {None}, generation : {1}, attempt : {1},
            replays : {0}, regenerations : {0}, fingerprint : Fingerprints, verdict : Reviews] :
     ~Passes(row.verdict)} \cup {Fresh}

Init ==
  /\ \E row \in RootRuns : runs = [g \in Games |-> IF g = Root THEN row ELSE None]
  /\ child = [k \in Keys |-> None]
  /\ handler = [h \in Handlers |-> Idle]
  /\ crashes = 0

Advances(h) ==
  \/ Decide(h) \/ Stop(h)
  \/ Grant(h) \/ Refused(h) \/ Weave(h) \/ Found(h)
  \/ \E status \in {"dividing", "mapped", "failed"} : Settled(h, status)
  \/ ReadParent(h) \/ Authorize(h) \/ Start(h) \/ Insert(h)

Next ==
  \/ \E g \in Games :
       \/ \E f \in Fingerprints : FinishGame(g, f)
       \/ \E v \in Reviews : JudgeRun(g, v)
       \/ ConcludeGate(g)
  \/ \E h \in Handlers :
       \/ \E g \in Games, k \in Keys : Open(h, g, k)
       \/ Advances(h)
       \/ Crash(h)

Spec == Init /\ [][Next]_vars

(* A handler in flight goes on, and a player who wants the retry asks for  *)
(* it again whenever the server would take it.                             *)
Fairness ==
  /\ \A h \in Handlers : WF_vars(Advances(h))
  /\ \A g \in Games : SF_vars(\E h \in Handlers, k \in Keys : Open(h, g, k))

FairSpec == Spec /\ Fairness

-----------------------------------------------------------------------------
(* Properties.                                                             *)

Children(g) == {k \in Keys : Exists(k) /\ runs[k].parent = g}

(* a is a run that k descends from; a lineage has no more runs than keys.  *)
IsAncestor(a, k) ==
  /\ Exists(a) /\ Exists(k)
  /\ \/ runs[a].generation < runs[k].generation
     \/ runs[a].generation = runs[k].generation /\ runs[a].attempt < runs[k].attempt

(* Types; and a child run belongs to a game that was mapped for it.        *)
TypeOK ==
  /\ \A g \in Games : runs[g] \in Run \cup {None}
  /\ child \in [Keys -> ChildGame \cup {None}]
  /\ \A h \in Handlers : handler[h] = Idle \/ handler[h] \in Task
  /\ crashes \in 0..MaxCrashes
  /\ \A k \in Keys : Exists(k) =>
       child[k] # None /\ child[k].status = "mapped" /\ child[k].source = runs[k].parent

Made(mode) == {k \in Keys : Exists(k) /\ child[k].mode = mode}

(* Two tabs that retry one failed Gate make each repair once between them, *)
(* only a run whose Retry is running has a child, and one new field is all *)
(* a lineage ever gets.                                                    *)
RepairsHappenOnce ==
  /\ TypeOK
  /\ \A g \in Games, mode \in Modes : Cardinality(Children(g) \cap Made(mode)) <= 1
  /\ \A g \in Games : Children(g) # {} => runs[g].state = "retry_running"
  /\ Cardinality(Made("regenerate_field")) <= FieldRegenerations

(* Retries made one at a time, with any handler dying anywhere, spend the  *)
(* root's budget and no more: the lineage is a chain of at most four runs. *)
LineageIsBoundedChain ==
  /\ \A g \in Games : Cardinality(Children(g)) <= 1
  /\ Cardinality(Made("replay_game")) <= SameFieldReplays
  /\ Cardinality(Made("regenerate_field")) <= FieldRegenerations

(* docs/WEBCHESS_WHITE_PAPER_V3.md:923: "One root genealogy therefore      *)
(* contains at most the initial game, two same-field replay children, and  *)
(* one regenerated-field child: four games across no more than two fields".*)
AtMostFourGames == Cardinality({g \in Games : Exists(g)}) <= 4

(* The same field is not replayed after an ecology the lineage had already *)
(* seen.                                                                   *)
NoReplayOfDuplicates ==
  \A k \in Keys : Exists(k) /\ child[k].mode = "replay_game" =>
    \A a \in Games : a # runs[k].parent /\ IsAncestor(a, runs[k].parent) =>
      runs[a].fingerprint # runs[runs[k].parent].fingerprint

(* A lineage grown by one Retry at a time stays inside its budget and      *)
(* makes each child in the mode its earlier ecologies call for.            *)
LineageIsSound == LineageIsBoundedChain /\ NoReplayOfDuplicates

(* No step gives a run up while the lineage still has its regeneration,    *)
(* and none gives up a run that has a child.                               *)
StopStep ==
  \A g \in Games :
    (Exists(g) /\ runs[g].state # "insufficient_basis" /\ runs'[g].state = "insufficient_basis")
      => runs[g].regenerations = FieldRegenerations /\ Children(g) = {}
StopsOnlyExhausted == [][StopStep]_runs

(* A Retry that has begun gets its child, unless a handler is lost.        *)
RetriesComplete ==
  \A g \in Games :
    (Exists(g) /\ runs[g].state \in {"retry_ready", "retry_running"})
      ~> (Children(g) # {} \/ crashes > 0)
=============================================================================
