------------------------- MODULE RetryLineageProofs -------------------------
(***************************************************************************)
(* Two handlers, or any number, that retry one failed Gate make each       *)
(* repair once, whatever the reviews, the keys and the crashes.  The heart *)
(* of it is the unique index on a run's place in its lineage: a child's    *)
(* place is a function of its parent's place and of the repair.            *)
(***************************************************************************)
EXTENDS RetryLineage, FiniteSetTheorems, TLAPS

-----------------------------------------------------------------------------
(* The inductive invariant.                                                *)

Typed ==
  /\ runs \in [Games -> Run \cup {None}]
  /\ child \in [Keys -> ChildGame \cup {None}]
  /\ handler \in [Handlers -> {Idle} \cup Task]
  /\ crashes \in 0..MaxCrashes

Mapped(k) == child[k] # None /\ child[k].status = "mapped"

SamePlace(a, b) == a.generation = b.generation /\ a.attempt = b.attempt

(* A run's field is the one its regenerations reached.                     *)
FieldsCounted == \A g \in Games : Exists(g) => runs[g].generation = runs[g].regenerations + 1

Judged(row) == row.verdict \in Review /\ ~Passes(row.verdict)

(* A run that failed its Gate has the review it failed by.                 *)
FailuresJudged == \A g \in Games : Exists(g) /\ runs[g].state = "gate_failed" => Judged(runs[g])

(* A child stands next to its parent, where its repair puts it, and the    *)
(* parent's Retry never stops running.                                     *)
ChildrenPlaced ==
  \A k \in Keys : Exists(k) =>
    /\ Mapped(k)
    /\ child[k].source = runs[k].parent
    /\ child[k].mode \in Modes
    /\ runs[k].parent \in Games
    /\ Exists(runs[k].parent)
    /\ runs[runs[k].parent].state = "retry_running"
    /\ child[k].mode = "replay_game" =>
         /\ runs[k].generation = runs[runs[k].parent].generation
         /\ runs[k].attempt = runs[runs[k].parent].attempt + 1
    /\ child[k].mode = "regenerate_field" =>
         /\ runs[k].generation = runs[runs[k].parent].generation + 1
         /\ runs[k].attempt = 1

PlacesUnique ==
  \A g, other \in Games :
    Exists(g) /\ Exists(other) /\ SamePlace(runs[g], runs[other]) => g = other

(* What a handler holds is still true of the run it is about: its place    *)
(* and its counters always, its state as far as a compare-and-set needs.   *)
Informed(h) ==
  Step(h) # "idle" =>
    /\ Exists(handler[h].game)
    /\ SamePlace(handler[h].snap, Parent(h))
    /\ handler[h].snap.replays = Parent(h).replays
    /\ handler[h].snap.regenerations = Parent(h).regenerations
    /\ Step(h) = "decide" => Judged(handler[h].snap)
    /\ Step(h) = "stop" => /\ handler[h].snap.state # "retry_running"
                           /\ handler[h].snap.regenerations = FieldRegenerations
    /\ Step(h) \notin {"decide", "stop"} => handler[h].mode \in Modes
    /\ Step(h) \in {"parent", "ready", "run", "insert"} =>
         child[handler[h].key] = ChildOf(h, "mapped")
    /\ Step(h) = "ready" => handler[h].snap.state # "retry_running"
    /\ Step(h) = "run" => handler[h].snap.state = "retry_ready"
    /\ Step(h) = "insert" => Parent(h).state = "retry_running"

HandlersInformed == \A h \in Handlers : Informed(h)

Placed == FieldsCounted /\ FailuresJudged /\ ChildrenPlaced /\ PlacesUnique

LineageInv == Typed /\ Placed /\ HandlersInformed

-----------------------------------------------------------------------------
(* What the policy can answer.                                             *)

(* A Gate is given up only by a lineage that has used its new field.       *)
LEMMA GivingUp ==
  ASSUME NEW review \in Review, ~Passes(review), NEW replays \in Nat, NEW regenerations \in Nat,
         Recommend(review, replays, regenerations) = "insufficient_basis"
  PROVE  regenerations >= FieldRegenerations
BY DEF Recommend, FieldOrStop, FieldRegenerations

(* A Retry either makes one of the two repairs or gives up, and gives up   *)
(* only where the Gate did or where no repair is left.                     *)
LEMMA RetryDecisions ==
  ASSUME NEW recommendation, NEW replays \in Nat, NEW regenerations \in Nat, NEW duplicate
  PROVE  LET mode == DecideRetry(recommendation, replays, regenerations, duplicate) IN
         /\ mode \in Modes \cup {"insufficient_basis"}
         /\ mode = "insufficient_basis" =>
              \/ recommendation = "insufficient_basis"
              \/ regenerations >= FieldRegenerations
BY DEF DecideRetry, Modes, FieldRegenerations

(* The null row is no row.                                                 *)
LEMMA RowsAreNotNull ==
  /\ \A row \in Run : row # None
  /\ \A row \in ChildGame : row # None
BY ConstantsAssumption

-----------------------------------------------------------------------------
(* What most transactions leave alone.                                     *)

(* Every run that was there is still there, in its place, with its         *)
(* counters, and a Retry that was running still is.                        *)
RunsKept ==
  \A g \in Games : Exists(g) =>
    /\ runs'[g] # None
    /\ SamePlace(runs'[g], runs[g])
    /\ runs'[g].parent = runs[g].parent
    /\ runs'[g].replays = runs[g].replays
    /\ runs'[g].regenerations = runs[g].regenerations
    /\ runs[g].state = "retry_running" => runs'[g].state = "retry_running"
    /\ runs'[g].state = "gate_failed" =>
         \/ Judged(runs'[g])
         \/ runs[g].state = "gate_failed" /\ runs'[g].verdict = runs[g].verdict

NoNewRun == \A g \in Games : runs'[g] # None => Exists(g)

(* A game that was mapped for a Retry stays mapped for it.                 *)
ChildrenKept == \A k \in Keys : Mapped(k) => child'[k] = child[k]

(* One run changes its state, its ecology or its verdict.                  *)
LEMMA RowChanges ==
  ASSUME Typed, NEW g \in Games, Exists(g), NEW row \in Run,
         SamePlace(row, runs[g]), row.parent = runs[g].parent,
         row.replays = runs[g].replays, row.regenerations = runs[g].regenerations,
         runs[g].state = "retry_running" => row.state = "retry_running",
         row.state = "gate_failed" => Judged(row),
         runs' = [runs EXCEPT ![g] = row]
  PROVE  /\ RunsKept /\ NoNewRun
         /\ runs' \in [Games -> Run \cup {None}]
<1>1. runs \in [Games -> Run \cup {None}]
  BY DEF Typed
<1>2. row # None
  BY RowsAreNotNull
<1>. QED
  BY <1>1, <1>2 DEF RunsKept, NoNewRun, SamePlace, Exists

(* A run moves to another state, or stays where it is.                     *)
LEMMA StateMoves ==
  ASSUME Typed, NEW g \in Games, Exists(g), NEW to \in RunStates \ {"gate_failed"},
         runs[g].state = "retry_running" => to = "retry_running",
         runs' = [runs EXCEPT ![g].state = to]
  PROVE  /\ RunsKept /\ NoNewRun
         /\ runs' \in [Games -> Run \cup {None}]
<1>. DEFINE row == [runs[g] EXCEPT !.state = to]
<1>1. runs[g] \in Run
  BY DEF Typed, Exists
<1>2. /\ row \in Run /\ SamePlace(row, runs[g]) /\ row.parent = runs[g].parent
      /\ row.replays = runs[g].replays /\ row.regenerations = runs[g].regenerations
      /\ row.state = to
  BY <1>1 DEF Run, SamePlace
<1>3. runs' = [runs EXCEPT ![g] = row]
  OBVIOUS
<1>. HIDE DEF row
<1>. QED
  BY <1>2, <1>3, RowChanges

(* Then the lineage is as well placed as before.                           *)
LEMMA PlacedKept ==
  ASSUME Typed, Placed, RunsKept, NoNewRun, ChildrenKept
  PROVE  Placed'
<1>1. \A g \in Games : runs'[g] # None =>
        /\ runs[g] # None
        /\ runs'[g].generation = runs[g].generation
        /\ runs'[g].attempt = runs[g].attempt
        /\ runs'[g].parent = runs[g].parent
        /\ runs'[g].regenerations = runs[g].regenerations
  BY DEF RunsKept, NoNewRun, SamePlace, Exists
<1>2. FieldsCounted'
  BY <1>1 DEF Placed, FieldsCounted, Exists
<1>3. PlacesUnique' /\ FailuresJudged'
  <2>1. PlacesUnique'
    BY <1>1 DEF Placed, PlacesUnique, Exists, SamePlace
  <2>2. FailuresJudged'
    BY <1>1 DEF Placed, FailuresJudged, RunsKept, Exists, Judged
  <2>. QED
    BY <2>1, <2>2
<1>4. ChildrenPlaced'
  <2>. SUFFICES ASSUME NEW k \in Keys, runs'[k] # None
                PROVE  /\ Mapped(k)'
                       /\ child'[k].source = runs'[k].parent
                       /\ child'[k].mode \in Modes
                       /\ runs'[k].parent \in Games
                       /\ runs'[runs'[k].parent] # None
                       /\ runs'[runs'[k].parent].state = "retry_running"
                       /\ child'[k].mode = "replay_game" =>
                            /\ runs'[k].generation = runs'[runs'[k].parent].generation
                            /\ runs'[k].attempt = runs'[runs'[k].parent].attempt + 1
                       /\ child'[k].mode = "regenerate_field" =>
                            /\ runs'[k].generation = runs'[runs'[k].parent].generation + 1
                            /\ runs'[k].attempt = 1
    BY DEF ChildrenPlaced, Exists
  <2>1. k \in Games /\ Exists(k)
    BY DEF Games, NoNewRun
  <2>2. Mapped(k) /\ child'[k] = child[k]
    BY <2>1 DEF Placed, ChildrenPlaced, ChildrenKept
  <2>3. /\ child[k].source = runs[k].parent /\ child[k].mode \in Modes
        /\ runs[k].parent \in Games /\ Exists(runs[k].parent)
        /\ runs[runs[k].parent].state = "retry_running"
        /\ child[k].mode = "replay_game" =>
             /\ runs[k].generation = runs[runs[k].parent].generation
             /\ runs[k].attempt = runs[runs[k].parent].attempt + 1
        /\ child[k].mode = "regenerate_field" =>
             /\ runs[k].generation = runs[runs[k].parent].generation + 1
             /\ runs[k].attempt = 1
    BY <2>1 DEF Placed, ChildrenPlaced
  <2>4. /\ runs'[runs[k].parent] # None
        /\ runs'[runs[k].parent].state = "retry_running"
        /\ runs'[runs[k].parent].generation = runs[runs[k].parent].generation
        /\ runs'[runs[k].parent].attempt = runs[runs[k].parent].attempt
    BY <2>3 DEF RunsKept, SamePlace
  <2>. QED
    BY <1>1, <2>1, <2>2, <2>3, <2>4 DEF Mapped
<1>. QED
  BY <1>2, <1>3, <1>4 DEF Placed

(* A handler that does nothing in a step is as well informed as before.    *)
LEMMA InformedKept ==
  ASSUME Typed, RunsKept, ChildrenKept, NEW h \in Handlers, Informed(h), handler'[h] = handler[h]
  PROVE  Informed(h)'
<1>. SUFFICES ASSUME handler[h].step # "idle"
              PROVE  Informed(h)'
  BY DEF Informed, Step
<1>1. /\ handler[h] \in Task /\ handler[h].game \in Games /\ handler[h].key \in Keys
  BY DEF Typed, Task, Idle
<1>2. /\ runs[handler[h].game] # None
      /\ runs'[handler[h].game] # None
      /\ SamePlace(runs'[handler[h].game], runs[handler[h].game])
      /\ runs'[handler[h].game].replays = runs[handler[h].game].replays
      /\ runs'[handler[h].game].regenerations = runs[handler[h].game].regenerations
      /\ runs[handler[h].game].state = "retry_running" =>
           runs'[handler[h].game].state = "retry_running"
  BY <1>1 DEF Informed, Step, Exists, RunsKept
<1>3. ASSUME handler[h].step \in {"parent", "ready", "run", "insert"}
      PROVE  /\ child[handler[h].key] = ChildOf(h, "mapped")
             /\ child'[handler[h].key] = child[handler[h].key]
  <2>1. child[handler[h].key] = ChildOf(h, "mapped") /\ handler[h].mode \in Modes
    BY <1>3 DEF Informed, Step
  <2>2. ChildOf(h, "mapped") \in ChildGame /\ ChildOf(h, "mapped").status = "mapped"
    BY <1>1, <2>1 DEF ChildOf, ChildGame
  <2>. QED
    BY <1>1, <2>1, <2>2, RowsAreNotNull DEF ChildrenKept, Mapped
<1>4. ChildOf(h, "mapped")' = ChildOf(h, "mapped")
  BY DEF ChildOf
<1>. QED
  BY <1>1, <1>2, <1>3, <1>4 DEF Informed, Step, Exists, Parent, SamePlace

(* So one handler's step is a matter of what that handler now holds.       *)
LEMMA OneHandler ==
  ASSUME LineageInv, Typed', RunsKept, NoNewRun, ChildrenKept, NEW h \in Handlers,
         \A other \in Handlers \ {h} : handler'[other] = handler[other],
         Informed(h)'
  PROVE  LineageInv'
<1>1. Placed'
  BY PlacedKept DEF LineageInv
<1>2. ASSUME NEW other \in Handlers
      PROVE  Informed(other)'
  <2>1. CASE other = h
    BY <2>1
  <2>2. CASE other # h
    BY <2>2, InformedKept DEF LineageInv, HandlersInformed
  <2>. QED
    BY <2>1, <2>2
<1>. QED
  BY <1>1, <1>2 DEF LineageInv, HandlersInformed

(* Runs and mapped games that nobody touched are kept.                     *)
LEMMA NothingMoves ==
  /\ runs' = runs => RunsKept /\ NoNewRun
  /\ child' = child => ChildrenKept
BY DEF RunsKept, NoNewRun, ChildrenKept, SamePlace, Exists

(* A handler that returns or dies holds nothing.                           *)
LEMMA Finishing ==
  ASSUME Typed, NEW h \in Handlers, Finish(h)
  PROVE  /\ handler' \in [Handlers -> {Idle} \cup Task]
         /\ \A other \in Handlers \ {h} : handler'[other] = handler[other]
         /\ Informed(h)'
<1>1. handler'[h].step = "idle"
  BY DEF Finish, Typed, Idle
<1>2. Informed(h)'
  BY <1>1 DEF Informed, Step
<1>. QED
  BY <1>2 DEF Finish, Typed

(* The next state of a handler that goes on.                               *)
LEMMA GoingOn ==
  ASSUME Typed, NEW h \in Handlers, NEW task \in Task, handler' = [handler EXCEPT ![h] = task]
  PROVE  /\ handler' \in [Handlers -> {Idle} \cup Task]
         /\ handler'[h] = task
         /\ \A other \in Handlers \ {h} : handler'[other] = handler[other]
BY DEF Typed

-----------------------------------------------------------------------------
(* Every transaction keeps the invariant.                                  *)

LEMMA LineageInit == Init => LineageInv
<1>. SUFFICES ASSUME Init
              PROVE  LineageInv
  OBVIOUS
<1>1. PICK row \in RootRuns : runs = [g \in Games |-> IF g = Root THEN row ELSE None]
  BY DEF Init
<1>2. row \in Run /\ row.generation = row.regenerations + 1 /\ row.state # "gate_failed"
  <2>1. Fresh \in Run /\ Fresh.generation = Fresh.regenerations + 1 /\ Fresh.state # "gate_failed"
    BY DEF Fresh, Run, RunStates, SameFieldReplays, FieldRegenerations
  <2>2. CASE row # Fresh
    <3>1. row \in [state : {"insufficient_basis"}, parent : {None}, generation : {1}, attempt : {1},
                   replays : {0}, regenerations : {0}, fingerprint : Fingerprints,
                   verdict : Reviews]
      BY <2>2 DEF RootRuns
    <3>. QED
      BY <3>1, ConstantsAssumption DEF Run, RunStates, SameFieldReplays, FieldRegenerations
  <2>. QED
    BY <2>1, <2>2
<1>3. \A g \in Games : Exists(g) => g = Root /\ runs[g] = row
  BY <1>1 DEF Exists
<1>4. \A k \in Keys : k \in Games /\ ~Exists(k)
  BY <1>3, ConstantsAssumption DEF Games
<1>5. Typed
  BY <1>1, <1>2, ConstantsAssumption DEF Init, Typed
<1>6. Placed
  BY <1>2, <1>3, <1>4 DEF Placed, FieldsCounted, FailuresJudged, ChildrenPlaced, PlacesUnique
<1>7. HandlersInformed
  BY DEF Init, HandlersInformed, Informed, Step, Idle
<1>. QED
  BY <1>5, <1>6, <1>7 DEF LineageInv

(* Up to its Gate a run changes on its own, in its place.                  *)
LEMMA RunMoves ==
  ASSUME LineageInv, NEW g \in Games,
         \/ \E f \in Fingerprints : FinishGame(g, f)
         \/ \E v \in Reviews : JudgeRun(g, v)
         \/ ConcludeGate(g)
  PROVE  RunsKept /\ NoNewRun /\ runs' \in [Games -> Run \cup {None}]
<1>0. Typed /\ Exists(g) /\ runs[g] \in Run
  BY DEF LineageInv, Typed, FinishGame, JudgeRun, ConcludeGate, Exists
<1>1. ASSUME NEW f \in Fingerprints, FinishGame(g, f)
      PROVE  RunsKept /\ NoNewRun /\ runs' \in [Games -> Run \cup {None}]
  <2>. DEFINE row == [runs[g] EXCEPT !.state = "chess_terminal", !.fingerprint = f]
  <2>1. /\ row \in Run /\ SamePlace(row, runs[g]) /\ row.parent = runs[g].parent
        /\ row.replays = runs[g].replays /\ row.regenerations = runs[g].regenerations
        /\ row.state = "chess_terminal"
    BY <1>0 DEF Run, RunStates, SamePlace
  <2>2. runs' = [runs EXCEPT ![g] = row] /\ runs[g].state # "retry_running"
    BY <1>1 DEF FinishGame
  <2>. HIDE DEF row
  <2>. QED
    BY <1>0, <2>1, <2>2, RowChanges
<1>2. ASSUME NEW v \in Reviews, JudgeRun(g, v)
      PROVE  RunsKept /\ NoNewRun /\ runs' \in [Games -> Run \cup {None}]
  <2>. DEFINE to == IF Passes(v) THEN "gate_passed" ELSE "gate_failed"
              row == [runs[g] EXCEPT !.verdict = v, !.state = to]
  <2>0. v \in Review /\ to \in RunStates
    BY ConstantsAssumption DEF RunStates
  <2>. HIDE DEF to
  <2>1. /\ row \in Run /\ SamePlace(row, runs[g]) /\ row.parent = runs[g].parent
        /\ row.replays = runs[g].replays /\ row.regenerations = runs[g].regenerations
        /\ row.state = to /\ row.verdict = v
    BY <1>0, <2>0 DEF Run, SamePlace
  <2>2. runs' = [runs EXCEPT ![g] = row] /\ runs[g].state # "retry_running"
    BY <1>2 DEF JudgeRun, to
  <2>. HIDE DEF row
  <2>3. row.state = "gate_failed" => Judged(row)
    BY <2>0, <2>1 DEF Judged, to
  <2>. QED
    BY <1>0, <2>1, <2>2, <2>3, RowChanges
<1>3. ASSUME ConcludeGate(g)
      PROVE  RunsKept /\ NoNewRun /\ runs' \in [Games -> Run \cup {None}]
  BY <1>0, <1>3, StateMoves DEF ConcludeGate, Move, RunStates
<1>. QED
  BY <1>1, <1>2, <1>3

LEMMA RunStep ==
  ASSUME LineageInv, NEW g \in Games,
         \/ \E f \in Fingerprints : FinishGame(g, f)
         \/ \E v \in Reviews : JudgeRun(g, v)
         \/ ConcludeGate(g)
  PROVE  LineageInv'
<1>a. Typed
  BY DEF LineageInv
<1>1. RunsKept /\ NoNewRun /\ runs' \in [Games -> Run \cup {None}]
  BY RunMoves
<1>2. child' = child /\ handler' = handler /\ crashes' = crashes
  BY DEF FinishGame, JudgeRun, ConcludeGate
<1>3. Typed' /\ ChildrenKept
  BY <1>a, <1>1, <1>2, NothingMoves DEF Typed
<1>4. Placed'
  BY <1>1, <1>3, PlacedKept DEF LineageInv
<1>5. HandlersInformed'
  BY <1>1, <1>2, <1>3, InformedKept DEF LineageInv, HandlersInformed
<1>. QED
  BY <1>3, <1>4, <1>5 DEF LineageInv

(* A handler in flight, as the invariant describes it.                     *)
LEMMA InFlight ==
  ASSUME LineageInv, NEW h \in Handlers, Step(h) # "idle"
  PROVE  /\ handler[h] \in Task
         /\ handler[h].game \in Games /\ handler[h].key \in Keys /\ handler[h].key \in Games
         /\ handler[h].snap \in Run
         /\ Exists(handler[h].game) /\ Parent(h) \in Run
         /\ Informed(h)
<1>1. handler[h] \in Task
  BY DEF LineageInv, Typed, Step, Idle
<1>2. Informed(h)
  BY DEF LineageInv, HandlersInformed
<1>3. Exists(handler[h].game)
  BY <1>2 DEF Informed
<1>. QED
  BY <1>1, <1>2, <1>3 DEF LineageInv, Typed, Task, Exists, Parent, Games

(* A handler changes step; the rest of what it holds stays, but for what   *)
(* the new step may have had to learn.                                     *)
LEMMA NextTask ==
  ASSUME LineageInv, NEW h \in Handlers, Step(h) # "idle",
         NEW step \in {"decide", "stop", "grant", "weave", "await", "parent", "ready", "run", "insert"},
         handler' = [handler EXCEPT ![h].step = step]
  PROVE  /\ handler' \in [Handlers -> {Idle} \cup Task]
         /\ handler'[h].step = step
         /\ handler'[h].game = handler[h].game /\ handler'[h].key = handler[h].key
         /\ handler'[h].mode = handler[h].mode /\ handler'[h].snap = handler[h].snap
         /\ \A other \in Handlers \ {h} : handler'[other] = handler[other]
<1>1. handler[h] \in Task
  BY InFlight
<1>. DEFINE task == [handler[h] EXCEPT !.step = step]
<1>2. /\ task \in Task /\ task.step = step /\ task.game = handler[h].game
      /\ task.key = handler[h].key /\ task.mode = handler[h].mode /\ task.snap = handler[h].snap
  BY <1>1 DEF Task
<1>3. handler' = [handler EXCEPT ![h] = task]
  OBVIOUS
<1>. HIDE DEF task
<1>. QED
  BY <1>2, <1>3, GoingOn DEF LineageInv

(* A handler in flight returns or dies: nothing else happens.              *)
LEMMA GoneStep ==
  ASSUME LineageInv, NEW h \in Handlers, Finish(h), runs' = runs, child' = child,
         crashes' \in 0..MaxCrashes
  PROVE  LineageInv'
<1>1. RunsKept /\ NoNewRun /\ ChildrenKept
  BY NothingMoves
<1>2. Typed' /\ Informed(h)' /\ \A other \in Handlers \ {h} : handler'[other] = handler[other]
  BY Finishing DEF LineageInv, Typed
<1>. QED
  BY <1>1, <1>2, OneHandler

(* A Retry is asked for: the handler reads the run it is about.            *)
LEMMA OpenStep ==
  ASSUME LineageInv, NEW h \in Handlers, NEW g \in Games, NEW k \in Keys, Open(h, g, k)
  PROVE  LineageInv'
<1>. DEFINE task == [step |-> "decide", game |-> g, key |-> k, mode |-> None, snap |-> runs[g]]
<1>1. Exists(g) /\ runs[g] \in Run /\ Judged(runs[g])
  BY DEF Open, Failed, Exists, LineageInv, Typed, Run, Judged
<1>2. task \in Task /\ task.step = "decide" /\ task.game = g /\ task.snap = runs[g]
  BY <1>1 DEF Task
<1>3. handler' = [handler EXCEPT ![h] = task]
  BY DEF Open
<1>. HIDE DEF task
<1>4. /\ handler' \in [Handlers -> {Idle} \cup Task] /\ handler'[h] = task
      /\ \A other \in Handlers \ {h} : handler'[other] = handler[other]
  BY <1>2, <1>3, GoingOn DEF LineageInv
<1>5. runs' = runs /\ child' = child /\ crashes' = crashes
  BY DEF Open
<1>6. Informed(h)'
  BY <1>1, <1>2, <1>4, <1>5 DEF Informed, Step, Exists, Parent, SamePlace
<1>. QED
  BY <1>4, <1>5, <1>6, NothingMoves, OneHandler DEF LineageInv, Typed

(* The Retry decision.                                                     *)
LEMMA DecideStep ==
  ASSUME LineageInv, NEW h \in Handlers, Decide(h)
  PROVE  LineageInv'
<1>. DEFINE row == handler[h].snap
            mode == DecideRetry(RecommendedFor(row), row.replays, row.regenerations, Duplicate(h))
<1>1. Step(h) = "decide" /\ Step(h) # "idle"
  BY DEF Decide
<1>2. /\ handler[h] \in Task /\ row \in Run /\ Exists(handler[h].game) /\ Informed(h)
  BY <1>1, InFlight
<1>3. row.replays \in Nat /\ row.regenerations \in Nat /\ row.regenerations <= FieldRegenerations
  BY <1>2 DEF Run, SameFieldReplays, FieldRegenerations
<1>4. runs' = runs /\ child' = child /\ crashes' = crashes
  BY DEF Decide
<1>5. CASE row.state = "retry_running"
  BY <1>4, <1>5, GoneStep DEF Decide, Finish, LineageInv, Typed
<1>6. CASE row.state # "retry_running"
  <2>1. mode \in Modes \cup {"insufficient_basis"}
    BY <1>3, RetryDecisions
  <2>2. ASSUME NEW step \in {"stop", "grant", "weave"}, NEW m \in Modes \cup {None},
               handler' = [handler EXCEPT ![h] = [handler[h] EXCEPT !.step = step, !.mode = m]],
               step = "stop" => row.regenerations = FieldRegenerations,
               step # "stop" => m \in Modes
        PROVE  LineageInv'
    <3>. DEFINE task == [handler[h] EXCEPT !.step = step, !.mode = m]
    <3>1. /\ task \in Task /\ task.step = step /\ task.game = handler[h].game
          /\ task.mode = m /\ task.snap = row
      BY <1>2, <2>2 DEF Task
    <3>2. handler' = [handler EXCEPT ![h] = task]
      BY <2>2
    <3>. HIDE DEF task
    <3>3. /\ handler' \in [Handlers -> {Idle} \cup Task] /\ handler'[h] = task
          /\ \A other \in Handlers \ {h} : handler'[other] = handler[other]
      BY <3>1, <3>2, GoingOn DEF LineageInv
    <3>4. Informed(h)'
      BY <1>1, <1>2, <1>4, <1>6, <2>2, <3>1, <3>3
         DEF Informed, Step, Exists, Parent, SamePlace
    <3>. QED
      BY <1>4, <3>3, <3>4, NothingMoves, OneHandler DEF LineageInv, Typed
  <2>3. CASE mode = "insufficient_basis"
    <3>1. handler' = [handler EXCEPT ![h] = [handler[h] EXCEPT !.step = "stop"]]
      BY <1>6, <2>3 DEF Decide, Modes
    <3>2. handler[h].mode \in Modes \cup {None}
      BY <1>2 DEF Task
    <3>3. [handler[h] EXCEPT !.step = "stop"]
            = [handler[h] EXCEPT !.step = "stop", !.mode = handler[h].mode]
      BY <1>2 DEF Task
    <3>4. row.regenerations = FieldRegenerations
      <4>1. ASSUME RecommendedFor(row) = "insufficient_basis"
            PROVE  row.regenerations >= FieldRegenerations
        BY <1>1, <1>2, <1>3, <4>1, GivingUp DEF RecommendedFor, Informed, Judged
      <4>2. row.regenerations >= FieldRegenerations
        BY <1>3, <2>3, <4>1, RetryDecisions
      <4>. QED
        BY <1>3, <4>2 DEF FieldRegenerations
    <3>. QED
      BY <2>2, <3>1, <3>2, <3>3, <3>4
  <2>4. CASE mode = "replay_game"
    <3>1. handler' = [handler EXCEPT ![h] = [handler[h] EXCEPT !.step = "grant", !.mode = mode]]
      BY <1>6, <2>4 DEF Decide
    <3>. QED
      BY <2>2, <2>4, <3>1 DEF Modes
  <2>5. CASE mode = "regenerate_field"
    <3>1. handler' = [handler EXCEPT ![h] = [handler[h] EXCEPT !.step = "weave", !.mode = mode]]
      BY <1>6, <2>5 DEF Decide
    <3>. QED
      BY <2>2, <2>5, <3>1 DEF Modes
  <2>. QED
    BY <2>1, <2>3, <2>4, <2>5 DEF Modes
<1>. QED
  BY <1>5, <1>6
(* A Retry gives its run up.                                               *)
LEMMA StopKeeps ==
  ASSUME LineageInv, NEW h \in Handlers, Stop(h)
  PROVE  LineageInv'
<1>1. Step(h) = "stop" /\ Step(h) # "idle"
  BY DEF Stop
<1>2. /\ handler[h].game \in Games /\ Exists(handler[h].game) /\ Informed(h)
  BY <1>1, InFlight
<1>3. handler[h].snap.state # "retry_running"
  BY <1>1, <1>2 DEF Informed
<1>4. CASE Parent(h).state = handler[h].snap.state
  <2>1. RunsKept /\ NoNewRun /\ runs' \in [Games -> Run \cup {None}]
    BY <1>2, <1>3, <1>4, StateMoves DEF Stop, Move, Parent, LineageInv, RunStates
  <2>2. child' = child /\ crashes' = crashes /\ Finish(h)
    BY DEF Stop
  <2>. QED
    BY <2>1, <2>2, NothingMoves, Finishing, OneHandler DEF LineageInv, Typed
<1>5. CASE Parent(h).state # handler[h].snap.state
  BY <1>5, GoneStep DEF Stop, LineageInv, Typed
<1>. QED
  BY <1>4, <1>5

(* A game is made, or found, for the Retry.                                *)
LEMMA ChildWritten ==
  ASSUME LineageInv, NEW h \in Handlers, Step(h) \in {"grant", "weave", "await"},
         NEW status \in {"dividing", "mapped", "failed"},
         child[handler[h].key] = ChildOf(h, status) \/ ~Mapped(handler[h].key),
         child' = [child EXCEPT ![handler[h].key] = ChildOf(h, status)]
  PROVE  child' \in [Keys -> ChildGame \cup {None}] /\ ChildrenKept
<1>1. /\ handler[h].game \in Games /\ handler[h].key \in Keys /\ handler[h].mode \in Modes
  BY InFlight DEF Informed
<1>2. ChildOf(h, status) \in ChildGame
  BY <1>1 DEF ChildOf, ChildGame
<1>. QED
  BY <1>1, <1>2 DEF LineageInv, Typed, ChildrenKept

(* The handler goes on, to a step that asks nothing more of it than a mode *)
(* and, from there on, its game.                                           *)
LEMMA ChildStep ==
  ASSUME LineageInv, NEW h \in Handlers, Step(h) \in {"grant", "weave", "await"},
         NEW step \in {"await", "parent"},
         child' \in [Keys -> ChildGame \cup {None}], ChildrenKept,
         step = "parent" => child'[handler[h].key] = ChildOf(h, "mapped"),
         Goto(h, step), runs' = runs, crashes' = crashes
  PROVE  LineageInv'
<1>1. Informed(h) /\ Step(h) # "idle" /\ Step(h) \notin {"decide", "stop"}
  BY InFlight
<1>2. /\ handler' \in [Handlers -> {Idle} \cup Task]
      /\ handler'[h].step = step
      /\ handler'[h].game = handler[h].game /\ handler'[h].key = handler[h].key
      /\ handler'[h].mode = handler[h].mode /\ handler'[h].snap = handler[h].snap
      /\ \A other \in Handlers \ {h} : handler'[other] = handler[other]
  BY <1>1, NextTask DEF Goto
<1>3. ChildOf(h, "mapped")' = ChildOf(h, "mapped")
  BY <1>2 DEF ChildOf
<1>4. Informed(h)'
  BY <1>1, <1>2, <1>3 DEF Informed, Step, Exists, Parent, SamePlace
<1>. QED
  BY <1>2, <1>4, NothingMoves, OneHandler DEF LineageInv, Typed

(* A division that settles is the game it was, but for how it ended.       *)
LEMMA SettledChild ==
  ASSUME NEW h \in Handlers, NEW status, Settled(h, status)
  PROVE  child' = [child EXCEPT ![handler[h].key] = ChildOf(h, status)]
<1>1. [ChildOf(h, "dividing") EXCEPT !.status = status] = ChildOf(h, status)
  BY DEF ChildOf
<1>2. child' = [child EXCEPT ![handler[h].key] = [child[handler[h].key] EXCEPT !.status = status]]
  BY DEF Settled
<1>3. child[handler[h].key] = ChildOf(h, "dividing")
  BY DEF Settled
<1>. QED
  BY <1>1, <1>2, <1>3

(* The statements that make the child's game.                              *)
LEMMA GameWritten ==
  ASSUME LineageInv, NEW h \in Handlers,
         \/ Grant(h) \/ Refused(h) \/ Weave(h) \/ Found(h)
         \/ \E status \in {"dividing", "mapped", "failed"} : Settled(h, status)
  PROVE  child' \in [Keys -> ChildGame \cup {None}] /\ ChildrenKept
<1>1. Step(h) \in {"grant", "weave", "await"}
  BY DEF Grant, Refused, Weave, Found, Settled
<1>2. CASE Grant(h)
  BY <1>1, <1>2, ChildWritten DEF Grant, Mapped
<1>3. CASE Weave(h)
  BY <1>1, <1>3, ChildWritten DEF Weave, Mapped
<1>4. CASE Refused(h) \/ Found(h)
  BY <1>4, NothingMoves DEF Refused, Gone, Found, LineageInv, Typed
<1>5. ASSUME NEW status \in {"dividing", "mapped", "failed"}, Settled(h, status)
      PROVE  child' \in [Keys -> ChildGame \cup {None}] /\ ChildrenKept
  <2>1. child' = [child EXCEPT ![handler[h].key] = ChildOf(h, status)]
    BY <1>5, SettledChild
  <2>2. ChildOf(h, "dividing").status = "dividing"
    BY DEF ChildOf
  <2>3. ~Mapped(handler[h].key)
    BY <1>5, <2>2 DEF Settled, Mapped
  <2>. QED
    BY <1>1, <2>1, <2>3, ChildWritten
<1>. QED
  BY <1>2, <1>3, <1>4, <1>5

LEMMA GameStep ==
  ASSUME LineageInv, NEW h \in Handlers,
         \/ Grant(h) \/ Refused(h) \/ Weave(h) \/ Found(h)
         \/ \E status \in {"dividing", "mapped", "failed"} : Settled(h, status)
  PROVE  LineageInv'
<1>0. child' \in [Keys -> ChildGame \cup {None}] /\ ChildrenKept
  BY GameWritten
<1>1. Step(h) \in {"grant", "weave", "await"}
  BY DEF Grant, Refused, Weave, Found, Settled
<1>2. handler[h].key \in Keys /\ Step(h) # "idle"
  BY <1>1, InFlight
<1>3. CASE Grant(h)
  <2>1. child'[handler[h].key] = ChildOf(h, "mapped")
    BY <1>2, <1>3 DEF Grant, LineageInv, Typed
  <2>. QED
    BY <1>0, <1>1, <1>3, <2>1, ChildStep DEF Grant
<1>4. CASE Refused(h)
  BY <1>4, GoneStep DEF Refused, Gone, LineageInv, Typed
<1>5. CASE Weave(h)
  BY <1>0, <1>1, <1>5, ChildStep DEF Weave
<1>6. CASE Found(h)
  <2>1. CASE child[handler[h].key].status = "mapped"
    <3>1. child[handler[h].key] = ChildOf(h, "mapped")
      BY <1>6, <2>1 DEF Found, ChildOf
    <3>. QED
      BY <1>0, <1>1, <1>6, <2>1, <3>1, ChildStep DEF Found
  <2>2. CASE child[handler[h].key].status # "mapped"
    BY <1>6, <2>2, GoneStep DEF Found, LineageInv, Typed
  <2>. QED
    BY <2>1, <2>2
<1>7. ASSUME NEW status \in {"dividing", "mapped", "failed"}, Settled(h, status)
      PROVE  LineageInv'
  <2>1. child'[handler[h].key] = ChildOf(h, status)
    BY <1>2, <1>7, SettledChild DEF LineageInv, Typed
  <2>2. CASE status = "mapped"
    BY <1>0, <1>1, <1>7, <2>1, <2>2, ChildStep DEF Settled
  <2>3. CASE status # "mapped"
    <3>1. Finish(h) /\ runs' = runs /\ crashes' = crashes
      BY <1>7, <2>3 DEF Settled
    <3>. QED
      BY <1>0, <3>1, NothingMoves, Finishing, OneHandler DEF LineageInv, Typed
  <2>. QED
    BY <2>2, <2>3
<1>. QED
  BY <1>3, <1>4, <1>5, <1>6, <1>7

-----------------------------------------------------------------------------
(* createRetryRun keeps the invariant.                                     *)

(* The parent is read, and read again after each transition.               *)
LEMMA ReadStep ==
  ASSUME LineageInv, NEW h \in Handlers, ReadParent(h)
  PROVE  LineageInv'
<1>1. Step(h) = "parent" /\ Step(h) # "idle"
  BY DEF ReadParent
<1>2. /\ handler[h] \in Task /\ handler[h].game \in Games /\ Exists(handler[h].game)
      /\ Informed(h) /\ Parent(h) \in Run
  BY <1>1, InFlight
<1>3. runs' = runs /\ child' = child /\ crashes' = crashes
  BY DEF ReadParent
<1>. DEFINE step == NextStep(Parent(h))
<1>4. /\ step \in {"ready", "run", "insert", "idle"}
      /\ step = "ready" => Parent(h).state # "retry_running"
      /\ step = "run" => Parent(h).state = "retry_ready"
      /\ step = "insert" => Parent(h).state = "retry_running"
  BY DEF NextStep, CanReopen
<1>5. CASE Exists(handler[h].key) \/ step = "idle"
  BY <1>3, <1>5, GoneStep DEF ReadParent, LineageInv, Typed
<1>6. CASE ~Exists(handler[h].key) /\ step # "idle"
  <2>. DEFINE task == [handler[h] EXCEPT !.step = step, !.snap = Parent(h)]
  <2>1. handler' = [handler EXCEPT ![h] = task]
    BY <1>6 DEF ReadParent
  <2>. HIDE DEF step
  <2>2. /\ task \in Task /\ task.step = step /\ task.game = handler[h].game
        /\ task.key = handler[h].key /\ task.mode = handler[h].mode /\ task.snap = Parent(h)
    BY <1>2, <1>4, <1>6 DEF Task
  <2>. HIDE DEF task
  <2>3. /\ handler' \in [Handlers -> {Idle} \cup Task] /\ handler'[h] = task
        /\ \A other \in Handlers \ {h} : handler'[other] = handler[other]
    BY <2>1, <2>2, GoingOn DEF LineageInv
  <2>4. ChildOf(h, "mapped")' = ChildOf(h, "mapped")
    BY <2>2, <2>3 DEF ChildOf
  <2>5. Informed(h)'
    BY <1>1, <1>2, <1>3, <1>4, <1>6, <2>2, <2>3, <2>4
       DEF Informed, Step, Exists, Parent, SamePlace
  <2>. QED
    BY <1>3, <2>3, <2>5, NothingMoves, OneHandler DEF LineageInv, Typed
<1>. QED
  BY <1>5, <1>6

(* A transition of the parent by compare-and-set.                          *)
LEMMA AdvanceStep ==
  ASSUME LineageInv, NEW h \in Handlers, Authorize(h) \/ Start(h)
  PROVE  LineageInv'
<1>. DEFINE to == IF Step(h) = "ready" THEN "retry_ready" ELSE "retry_running"
<1>1. /\ Step(h) \in {"ready", "run"} /\ Step(h) # "idle" /\ Step(h) \notin {"decide", "stop"}
      /\ Advance(h, Step(h), to)
  BY DEF Authorize, Start, Advance
<1>2. /\ handler[h].game \in Games /\ Exists(handler[h].game) /\ Informed(h)
  BY <1>1, InFlight
<1>3. /\ to \in RunStates \ {"gate_failed"}
      /\ handler[h].snap.state = "retry_running" => to = "retry_running"
  BY <1>1, <1>2 DEF Informed, RunStates
<1>. HIDE DEF to
<1>4. child' = child /\ crashes' = crashes
  BY <1>1 DEF Advance
<1>5. ASSUME Goto(h, "parent"), RunsKept, NoNewRun, runs' \in [Games -> Run \cup {None}]
      PROVE  LineageInv'
  <2>1. /\ handler' \in [Handlers -> {Idle} \cup Task]
        /\ handler'[h].step = "parent"
        /\ handler'[h].game = handler[h].game /\ handler'[h].key = handler[h].key
        /\ handler'[h].mode = handler[h].mode /\ handler'[h].snap = handler[h].snap
        /\ \A other \in Handlers \ {h} : handler'[other] = handler[other]
    BY <1>1, <1>5, NextTask DEF Goto
  <2>2. ChildOf(h, "mapped")' = ChildOf(h, "mapped")
    BY <2>1 DEF ChildOf
  <2>3. Informed(h)'
    BY <1>1, <1>2, <1>4, <1>5, <2>1, <2>2 DEF Informed, Step, Exists, Parent, SamePlace, RunsKept
  <2>. QED
    BY <1>4, <1>5, <2>1, <2>3, NothingMoves, OneHandler DEF LineageInv, Typed
<1>6. CASE Parent(h).state = to
  BY <1>1, <1>5, <1>6, NothingMoves DEF Advance, LineageInv, Typed
<1>7. CASE Parent(h).state # to /\ Parent(h).state = handler[h].snap.state
  BY <1>1, <1>2, <1>3, <1>5, <1>7, StateMoves DEF Advance, Move, Parent, LineageInv
<1>8. CASE Parent(h).state # to /\ Parent(h).state # handler[h].snap.state
  BY <1>1, <1>4, <1>8, GoneStep DEF Advance, LineageInv, Typed
<1>. QED
  BY <1>6, <1>7, <1>8
(* The child is inserted: the unique index finds no run in its place.      *)
LEMMA InsertStep ==
  ASSUME LineageInv, NEW h \in Handlers, Insert(h)
  PROVE  LineageInv'
<1>. DEFINE k == handler[h].key
            g == handler[h].game
            row == ChildRow(h)
<1>1. Step(h) = "insert" /\ Step(h) # "idle"
  BY DEF Insert
<1>2. /\ g \in Games /\ k \in Keys /\ k \in Games /\ Exists(g) /\ runs[g] \in Run
      /\ handler[h].snap \in Run /\ SamePlace(handler[h].snap, runs[g])
      /\ handler[h].snap.regenerations = runs[g].regenerations
      /\ child[k] = ChildOf(h, "mapped") /\ handler[h].mode \in Modes
      /\ runs[g].state = "retry_running"
  BY <1>1, InFlight DEF Informed, Parent
<1>3. child' = child /\ crashes' = crashes /\ Finish(h)
  BY DEF Insert
<1>4. CASE ~(~Exists(k) /\ Insertable(row))
  BY <1>3, <1>4, GoneStep DEF Insert, LineageInv, Typed
<1>5. CASE ~Exists(k) /\ Insertable(row)
  <2>1. runs' = [runs EXCEPT ![k] = row]
    BY <1>5 DEF Insert
  <2>2. /\ row.parent = g /\ row.state = "chess_ready"
        /\ handler[h].mode = "replay_game" =>
             /\ row.generation = runs[g].generation
             /\ row.attempt = runs[g].attempt + 1
             /\ row.regenerations = runs[g].regenerations
        /\ handler[h].mode = "regenerate_field" =>
             /\ row.generation = runs[g].generation + 1
             /\ row.attempt = 1
             /\ row.regenerations = runs[g].regenerations + 1
    BY <1>2 DEF ChildRow, SamePlace
  <2>3. row \in Run
    <3>1. row.replays \in 0..SameFieldReplays /\ row.regenerations \in 0..FieldRegenerations
      BY <1>5 DEF Insertable
    <3>2. row.generation \in Nat /\ row.attempt \in Nat
      BY <1>2, <2>2 DEF Run, Modes
    <3>. QED
      BY <1>2, <3>1, <3>2 DEF ChildRow, Run, RunStates
  <2>4. row # None
    BY <2>3, RowsAreNotNull
  <2>5. /\ runs' \in [Games -> Run \cup {None}] /\ runs'[k] = row
        /\ \A other \in Games \ {k} : runs'[other] = runs[other]
    BY <1>2, <2>1, <2>3 DEF LineageInv, Typed
  <2>. HIDE DEF row
  <2>6. RunsKept
    BY <1>5, <2>5 DEF RunsKept, SamePlace, Exists
  <2>7. Typed' /\ ChildrenKept
    BY <1>3, <2>5, NothingMoves, Finishing DEF LineageInv, Typed
  <2>8. HandlersInformed'
    <3>1. ASSUME NEW other \in Handlers
          PROVE  Informed(other)'
      BY <1>3, <2>6, <2>7, InformedKept, Finishing DEF LineageInv, HandlersInformed
    <3>. QED
      BY <3>1 DEF HandlersInformed
  <2>9. FieldsCounted'
    BY <1>2, <2>2, <2>5 DEF LineageInv, Placed, FieldsCounted, Exists, Modes, Run
  <2>10. FailuresJudged'
    BY <2>2, <2>5 DEF LineageInv, Placed, FailuresJudged, Exists
  <2>11. PlacesUnique'
    <3>1. \A other \in Games : Exists(other) => ~SamePlace(runs[other], row)
      BY <1>5 DEF Insertable, SamePlace
    <3>2. \A other \in Games : Exists(other) => ~SamePlace(row, runs[other])
      BY <3>1 DEF SamePlace
    <3>. QED
      BY <1>5, <2>5, <3>1, <3>2 DEF LineageInv, Placed, PlacesUnique, Exists
  <2>12. ChildrenPlaced'
    <3>1. /\ Mapped(k) /\ child[k].source = g /\ child[k].mode = handler[h].mode
      <4>1. ChildOf(h, "mapped") \in ChildGame
        BY <1>2 DEF ChildOf, ChildGame
      <4>. QED
        BY <1>2, <4>1, RowsAreNotNull DEF Mapped, ChildOf
    <3>2. g # k
      BY <1>2, <1>5
    <3>3. ASSUME NEW other \in Keys, other # k, runs'[other] # None
          PROVE  /\ Exists(other) /\ runs'[other] = runs[other]
                 /\ runs[other].parent # k
                 /\ runs[other].parent \in Games
                 /\ runs'[runs[other].parent] = runs[runs[other].parent]
      <4>1. Exists(other) /\ runs'[other] = runs[other]
        BY <2>5, <3>3 DEF Exists, Games
      <4>2. runs[other].parent \in Games /\ Exists(runs[other].parent)
        BY <4>1 DEF LineageInv, Placed, ChildrenPlaced
      <4>. QED
        BY <1>5, <2>5, <4>1, <4>2
    <3>4. ASSUME NEW other \in Keys, other # k, Exists(other)'
          PROVE  /\ Mapped(other)
                 /\ child[other].source = runs'[other].parent
                 /\ child[other].mode \in Modes
                 /\ runs'[other].parent \in Games
                 /\ runs'[runs'[other].parent] # None
                 /\ runs'[runs'[other].parent].state = "retry_running"
                 /\ child[other].mode = "replay_game" =>
                      /\ runs'[other].generation = runs'[runs'[other].parent].generation
                      /\ runs'[other].attempt = runs'[runs'[other].parent].attempt + 1
                 /\ child[other].mode = "regenerate_field" =>
                      /\ runs'[other].generation = runs'[runs'[other].parent].generation + 1
                      /\ runs'[other].attempt = 1
      BY <3>3, <3>4 DEF LineageInv, Placed, ChildrenPlaced, Exists
    <3>5. /\ Mapped(k)
          /\ child[k].source = runs'[k].parent
          /\ child[k].mode \in Modes
          /\ runs'[k].parent \in Games
          /\ runs'[runs'[k].parent] # None
          /\ runs'[runs'[k].parent].state = "retry_running"
          /\ child[k].mode = "replay_game" =>
               /\ runs'[k].generation = runs'[runs'[k].parent].generation
               /\ runs'[k].attempt = runs'[runs'[k].parent].attempt + 1
          /\ child[k].mode = "regenerate_field" =>
               /\ runs'[k].generation = runs'[runs'[k].parent].generation + 1
               /\ runs'[k].attempt = 1
      <4>1. runs'[g] = runs[g] /\ runs'[k] = row
        BY <1>2, <2>5, <3>2
      <4>. QED
        BY <1>2, <2>2, <3>1, <4>1 DEF Exists
    <3>. QED
      BY <1>3, <3>4, <3>5 DEF ChildrenPlaced, Exists, Mapped
  <2>. QED
    BY <2>7, <2>8, <2>9, <2>10, <2>11, <2>12 DEF LineageInv, Placed
<1>. QED
  BY <1>4, <1>5

-----------------------------------------------------------------------------
(* The invariant.                                                          *)

LEMMA LineageStep == LineageInv /\ [Next]_vars => LineageInv'
<1>. SUFFICES ASSUME LineageInv, [Next]_vars
              PROVE  LineageInv'
  OBVIOUS
<1>1. ASSUME NEW g \in Games,
             \/ \E f \in Fingerprints : FinishGame(g, f)
             \/ \E v \in Reviews : JudgeRun(g, v)
             \/ ConcludeGate(g)
      PROVE  LineageInv'
  BY <1>1, RunStep
<1>2. ASSUME NEW h \in Handlers, NEW g \in Games, NEW k \in Keys, Open(h, g, k)
      PROVE  LineageInv'
  BY <1>2, OpenStep
<1>3. ASSUME NEW h \in Handlers, Advances(h)
      PROVE  LineageInv'
  BY <1>3, DecideStep, StopKeeps, GameStep, ReadStep, AdvanceStep, InsertStep DEF Advances
<1>4. ASSUME NEW h \in Handlers, Crash(h)
      PROVE  LineageInv'
  <2>1. crashes' \in 0..MaxCrashes
    BY <1>4, ConstantsAssumption DEF Crash, LineageInv, Typed
  <2>. QED
    BY <1>4, <2>1, GoneStep DEF Crash
<1>5. CASE UNCHANGED vars
  <2>1. RunsKept /\ NoNewRun /\ ChildrenKept
    BY <1>5, NothingMoves DEF vars
  <2>2. Typed' /\ handler' = handler
    BY <1>5 DEF vars, LineageInv, Typed
  <2>. QED
    BY <2>1, <2>2, PlacedKept, InformedKept DEF LineageInv, HandlersInformed
<1>. QED
  BY <1>1, <1>2, <1>3, <1>4, <1>5 DEF Next

(* Each run keeps its place in the lineage, whoever retries.               *)
THEOREM LineageInvariant == Spec => []LineageInv
BY LineageInit, LineageStep, PTL DEF Spec
-----------------------------------------------------------------------------
(* What the invariant says of a lineage.                                   *)

(* A set without two different members has at most one.                    *)
LEMMA AtMostOneMember ==
  ASSUME NEW S, \A x, y \in S : x = y
  PROVE  Cardinality(S) <= 1
<1>1. CASE S = {}
  BY <1>1, FS_EmptySet
<1>2. CASE S # {}
  <2>1. PICK x \in S : S = {x}
    BY <1>2
  <2>. QED
    BY <2>1, FS_Singleton
<1>. QED
  BY <1>1, <1>2

(* One repair of one parent has one place, so it is made once.             *)
LEMMA OneChildPerRepair ==
  ASSUME LineageInv, NEW g \in Games, NEW mode \in Modes
  PROVE  Cardinality(Children(g) \cap Made(mode)) <= 1
<1>. SUFFICES ASSUME NEW x \in Children(g) \cap Made(mode), NEW y \in Children(g) \cap Made(mode)
              PROVE  x = y
  BY AtMostOneMember
<1>1. /\ x \in Keys /\ Exists(x) /\ runs[x].parent = g /\ child[x].mode = mode
      /\ y \in Keys /\ Exists(y) /\ runs[y].parent = g /\ child[y].mode = mode
  BY DEF Children, Made
<1>2. SamePlace(runs[x], runs[y])
  BY <1>1 DEF LineageInv, Placed, ChildrenPlaced, SamePlace, Modes
<1>. QED
  BY <1>1, <1>2 DEF LineageInv, Placed, PlacesUnique, Games

(* A new field is the second, and its first game has one place.            *)
LEMMA OneNewField ==
  ASSUME LineageInv
  PROVE  Cardinality(Made("regenerate_field")) <= FieldRegenerations
<1>1. ASSUME NEW x \in Made("regenerate_field")
      PROVE  /\ x \in Games /\ Exists(x) /\ runs[x].generation = 2 /\ runs[x].attempt = 1
  <2>1. /\ x \in Keys /\ x \in Games /\ Exists(x) /\ child[x].mode = "regenerate_field"
    BY DEF Made, Games
  <2>2. /\ runs[x].parent \in Games /\ Exists(runs[x].parent) /\ runs[x].attempt = 1
        /\ runs[x].generation = runs[runs[x].parent].generation + 1
    BY <2>1 DEF LineageInv, Placed, ChildrenPlaced
  <2>3. /\ runs[x] \in Run /\ runs[runs[x].parent] \in Run
    BY <2>1, <2>2 DEF LineageInv, Typed, Exists
  <2>4. /\ runs[x].generation = runs[x].regenerations + 1
        /\ runs[runs[x].parent].generation = runs[runs[x].parent].regenerations + 1
    BY <2>1, <2>2 DEF LineageInv, Placed, FieldsCounted
  <2>. QED
    BY <2>1, <2>2, <2>3, <2>4 DEF Run, FieldRegenerations
<1>2. \A x, y \in Made("regenerate_field") : x = y
  BY <1>1 DEF LineageInv, Placed, PlacesUnique, SamePlace
<1>3. Cardinality(Made("regenerate_field")) <= 1
  BY <1>2, AtMostOneMember
<1>. QED
  BY <1>3 DEF FieldRegenerations

(* Any number of tabs and handlers that retry one failed Gate make each    *)
(* repair once between them; only a run whose Retry is running has a       *)
(* child; and one new field is all a lineage ever gets.                    *)
THEOREM RepairsAlwaysHappenOnce == Spec => []RepairsHappenOnce
<1>1. LineageInv => RepairsHappenOnce
  <2>. SUFFICES ASSUME LineageInv
                PROVE  RepairsHappenOnce
    OBVIOUS
  <2>1. TypeOK
    BY DEF LineageInv, Placed, ChildrenPlaced, Mapped, Typed, TypeOK, Games
  <2>2. ASSUME NEW g \in Games, Children(g) # {}
        PROVE  runs[g].state = "retry_running"
    BY <2>2 DEF Children, LineageInv, Placed, ChildrenPlaced
  <2>. QED
    BY <2>1, <2>2, OneChildPerRepair, OneNewField DEF RepairsHappenOnce
<1>. QED
  BY <1>1, LineageInvariant, PTL

LEMMA StopsExhaust == LineageInv /\ [Next]_vars => [StopStep]_runs
<1>. SUFFICES ASSUME LineageInv, [Next]_vars, runs' # runs
              PROVE  StopStep
  OBVIOUS
<1>. SUFFICES ASSUME NEW g \in Games, Exists(g), runs[g].state # "insufficient_basis",
                     runs'[g].state = "insufficient_basis"
              PROVE  runs[g].regenerations = FieldRegenerations /\ Children(g) = {}
  BY DEF StopStep
<1>0. runs[g] \in Run /\ runs[g].regenerations \in Nat
      /\ runs[g].regenerations <= FieldRegenerations
  BY DEF LineageInv, Typed, Exists, Run, FieldRegenerations
<1>a. runs[g].state # "retry_running" => Children(g) = {}
  BY DEF LineageInv, Placed, ChildrenPlaced, Children
<1>1. ASSUME NEW other \in Games, ConcludeGate(other)
      PROVE  runs[g].regenerations = FieldRegenerations /\ Children(g) = {}
  <2>1. g = other
    BY <1>1 DEF ConcludeGate, Move, LineageInv, Typed
  <2>2. /\ runs[g].state = "gate_failed" /\ RecommendedFor(runs[g]) = "insufficient_basis"
        /\ Judged(runs[g])
    BY <1>1, <2>1 DEF ConcludeGate, LineageInv, Placed, FailuresJudged
  <2>3. runs[g].regenerations >= FieldRegenerations
    BY <1>0, <2>2, GivingUp DEF RecommendedFor, Judged, Run, SameFieldReplays
  <2>. QED
    BY <1>0, <1>a, <2>2, <2>3 DEF FieldRegenerations
<1>2. ASSUME NEW h \in Handlers, Stop(h)
      PROVE  runs[g].regenerations = FieldRegenerations /\ Children(g) = {}
  <2>1. Step(h) = "stop" /\ Step(h) # "idle"
    BY <1>2 DEF Stop
  <2>2. Informed(h) /\ handler[h].game \in Games
    BY <2>1, InFlight
  <2>3. g = handler[h].game /\ Parent(h).state = handler[h].snap.state
    BY <1>2, <2>2 DEF Stop, Move, Parent, LineageInv, Typed
  <2>. QED
    BY <1>a, <2>1, <2>2, <2>3 DEF Informed, Parent
<1>3. ASSUME NEW other \in Games, NEW f \in Fingerprints, FinishGame(other, f)
      PROVE  FALSE
  BY <1>3 DEF FinishGame, LineageInv, Typed
<1>4. ASSUME NEW other \in Games, NEW v \in Reviews, JudgeRun(other, v)
      PROVE  FALSE
  BY <1>4 DEF JudgeRun, LineageInv, Typed
<1>5. ASSUME NEW h \in Handlers, Authorize(h) \/ Start(h)
      PROVE  FALSE
  <2>1. PICK to \in {"retry_ready", "retry_running"} :
          runs' = runs \/ Move(handler[h].game, to)
    BY <1>5 DEF Authorize, Start, Advance
  <2>2. runs \in [Games -> Run \cup {None}]
    BY DEF LineageInv, Typed
  <2>3. runs'[g] = runs[g] \/ runs'[g].state = to
    BY <1>0, <2>1, <2>2 DEF Move, Run
  <2>. QED
    BY <2>1, <2>3
<1>6. ASSUME NEW h \in Handlers, Insert(h)
      PROVE  FALSE
  BY <1>6 DEF Insert, ChildRow, Exists, LineageInv, Typed
<1>7. ASSUME NEW h \in Handlers, Advances(h) \/ Crash(h), ~Stop(h), ~Authorize(h), ~Start(h),
             ~Insert(h)
      PROVE  FALSE
  BY <1>7 DEF Advances, Crash, Decide, Grant, Refused, Gone, Weave, Found, Settled, ReadParent
<1>8. ASSUME NEW h \in Handlers, NEW other \in Games, NEW k \in Keys, Open(h, other, k)
      PROVE  FALSE
  BY <1>8 DEF Open
<1>. QED
  BY <1>1, <1>2, <1>3, <1>4, <1>5, <1>6, <1>7, <1>8 DEF Next, Advances, vars

(* Neither the Gate nor a Retry gives a run up while its lineage still has *)
(* a field to weave, or once it has a child.                               *)
THEOREM StopsAlwaysExhausted == Spec => StopsOnlyExhausted
BY StopsExhaust, LineageInvariant, PTL DEF Spec, StopsOnlyExhausted

-----------------------------------------------------------------------------
(* Retries made one at a time: the lineage is a chain, and whoever works   *)
(* on it works on its last run.                                            *)

OneAtATime == \A h, other \in Handlers : h = other

Before(a, b) ==
  \/ a.generation < b.generation
  \/ a.generation = b.generation /\ a.attempt < b.attempt

Played(row) == row.state \notin {"chess_ready", "chess_terminal"}

(* A run whose ecology may still change has no verdict.                    *)
UnplayedUnjudged == \A g \in Games : Exists(g) /\ ~Played(runs[g]) => runs[g].verdict = None

(* A run without a child is the last of its lineage.                       *)
LastIsLast ==
  \A g, last \in Games : Exists(g) /\ Exists(last) /\ g # last /\ Children(last) = {}
    => Before(runs[g], runs[last])

OneChildEach == \A g \in Games : \A x, y \in Children(g) : x = y

(* Along the chain replays are counted, a replayed child above all before. *)
ReplaysGrow ==
  \A g, other \in Games : Exists(g) /\ Exists(other) /\ Before(runs[g], runs[other]) =>
    /\ runs[g].replays <= runs[other].replays
    /\ other \in Keys /\ child[other].mode = "replay_game" => runs[g].replays < runs[other].replays

Chained == UnplayedUnjudged /\ LastIsLast /\ OneChildEach /\ ReplaysGrow /\ NoReplayOfDuplicates

(* No other run ended in the ecology of this one.                          *)
Unseen(g) == \A a \in Games \ {g} : Exists(a) => runs[a].fingerprint # runs[g].fingerprint

(* The run a handler works on has no child yet, and is replayed only if    *)
(* its ecology was new.                                                    *)
AtTheEnd(h) ==
  Step(h) # "idle" =>
    /\ Played(Parent(h))
    /\ Step(h) = "decide" => handler[h].snap.fingerprint = Parent(h).fingerprint
    /\ Step(h) # "decide" \/ handler[h].snap.state # "retry_running" =>
         Children(handler[h].game) = {}
    /\ Step(h) \notin {"decide", "stop"} /\ handler[h].mode = "replay_game" =>
         Unseen(handler[h].game)

ChainInv == LineageInv /\ Chained /\ \A h \in Handlers : AtTheEnd(h)

(* A run that was played keeps its ecology.                                *)
EcologiesKept ==
  \A g \in Games : Exists(g) /\ Played(runs[g]) =>
    Played(runs'[g]) /\ runs'[g].fingerprint = runs[g].fingerprint

(* What a step does that makes no child.                                   *)
NoChildMade ==
  /\ RunsKept /\ NoNewRun /\ ChildrenKept /\ EcologiesKept
  /\ UnplayedUnjudged'

(* A run with a child was played, and one without is alone in that.        *)
LEMMA ParentsPlayed ==
  ASSUME LineageInv, NEW g \in Games, Children(g) # {}
  PROVE  Exists(g) /\ Played(runs[g])
BY DEF LineageInv, Placed, ChildrenPlaced, Children, Played

LEMMA OneLast ==
  ASSUME LineageInv, Chained, NEW g \in Games, NEW last \in Games, Exists(g), Exists(last),
         Children(g) = {}, Children(last) = {}
  PROVE  g = last
<1>1. /\ runs[g] \in Run /\ runs[last] \in Run
  BY DEF LineageInv, Typed, Exists
<1>2. ~(Before(runs[g], runs[last]) /\ Before(runs[last], runs[g]))
  BY <1>1 DEF Before, Run
<1>. QED
  BY <1>2 DEF Chained, LastIsLast

LEMMA ChildrenSame ==
  ASSUME LineageInv, RunsKept, NoNewRun
  PROVE  \A g : Children(g)' = Children(g)
<1>. SUFFICES ASSUME NEW g
              PROVE  Children(g)' = Children(g)
  OBVIOUS
<1>1. \A k \in Keys : Exists(k)' <=> Exists(k)
  BY DEF RunsKept, NoNewRun, Exists, Games
<1>2. \A k \in Keys : Exists(k) => runs'[k].parent = runs[k].parent
  BY DEF RunsKept, Games
<1>. QED
  BY <1>1, <1>2 DEF Children

(* An ecology that nobody had seen stays unseen at the end of the chain.   *)
LEMMA UnseenKept ==
  ASSUME LineageInv, Chained, NoChildMade, NEW g \in Games, Exists(g), Played(runs[g]),
         Children(g) = {}, Unseen(g)
  PROVE  Unseen(g)'
<1>1. runs'[g].fingerprint = runs[g].fingerprint
  BY DEF NoChildMade, EcologiesKept
<1>2. ASSUME NEW a \in Games, a # g, runs'[a] # None
      PROVE  runs'[a].fingerprint # runs'[g].fingerprint
  <2>1. Exists(a)
    BY <1>2 DEF NoChildMade, NoNewRun
  <2>2. Children(a) # {}
    BY <1>2, <2>1, OneLast
  <2>3. runs'[a].fingerprint = runs[a].fingerprint
    BY <2>1, <2>2, ParentsPlayed DEF NoChildMade, EcologiesKept
  <2>. QED
    BY <1>1, <1>2, <2>1, <2>3 DEF Unseen
<1>. QED
  BY <1>2 DEF Unseen, Exists

LEMMA ChainedKept ==
  ASSUME LineageInv, Chained, NoChildMade
  PROVE  Chained'
<1>1. \A g \in Games : runs'[g] # None =>
        /\ runs[g] # None
        /\ runs'[g].generation = runs[g].generation
        /\ runs'[g].attempt = runs[g].attempt
        /\ runs'[g].parent = runs[g].parent
        /\ runs'[g].replays = runs[g].replays
  BY DEF NoChildMade, RunsKept, NoNewRun, SamePlace, Exists
<1>2. \A g : Children(g)' = Children(g)
  BY ChildrenSame DEF NoChildMade
<1>3. \A k \in Keys : runs'[k] # None => child'[k] = child[k]
  BY <1>1 DEF LineageInv, Placed, ChildrenPlaced, NoChildMade, ChildrenKept, Exists, Games
<1>4. LastIsLast'
  BY <1>1, <1>2 DEF Chained, LastIsLast, Before, Exists
<1>5. OneChildEach'
  BY <1>2 DEF Chained, OneChildEach
<1>6. ReplaysGrow'
  BY <1>1, <1>3 DEF Chained, ReplaysGrow, Before, Exists
<1>7. NoReplayOfDuplicates'
  <2>. SUFFICES ASSUME NEW k \in Keys, runs'[k] # None, child'[k].mode = "replay_game",
                       NEW a \in Games, a # runs'[k].parent, runs'[a] # None,
                       runs'[runs'[k].parent] # None,
                       Before(runs'[a], runs'[runs'[k].parent])
                PROVE  runs'[a].fingerprint # runs'[runs'[k].parent].fingerprint
    BY DEF NoReplayOfDuplicates, Exists, IsAncestor, Before
  <2> DEFINE p == runs[k].parent
  <2>1. /\ k \in Games /\ Exists(k) /\ child[k].mode = "replay_game" /\ runs'[k].parent = p
    BY <1>1, <1>3 DEF Games, Exists
  <2>2. /\ p \in Games /\ Exists(p) /\ k \in Children(p)
    BY <2>1 DEF LineageInv, Placed, ChildrenPlaced, Children
  <2>3. /\ Exists(a) /\ IsAncestor(a, p)
    BY <1>1, <2>1, <2>2 DEF IsAncestor, Exists, Before
  <2>4. runs[a].fingerprint # runs[p].fingerprint
    BY <2>1, <2>3 DEF Chained, NoReplayOfDuplicates
  <2>5. Children(a) # {}
    <3>1. /\ runs[a] \in Run /\ runs[p] \in Run
      BY <2>2, <2>3 DEF LineageInv, Typed, Exists
    <3>2. ~Before(runs[p], runs[a])
      BY <2>3, <3>1 DEF IsAncestor, Before, Run
    <3>. QED
      BY <2>1, <2>2, <2>3, <3>2 DEF Chained, LastIsLast
  <2>. QED
    BY <2>1, <2>2, <2>3, <2>4, <2>5, ParentsPlayed DEF NoChildMade, EcologiesKept
<1>. QED
  BY <1>4, <1>5, <1>6, <1>7 DEF Chained, NoChildMade

(* A handler that goes on with its run, at a step after the decision.      *)
LEMMA EndKept ==
  ASSUME LineageInv, Chained, NoChildMade, NEW h \in Handlers, AtTheEnd(h),
         \/ handler'[h] = handler[h]
         \/ handler'[h].step = "idle"
         \/ /\ Step(h) \notin {"idle", "decide", "stop"} /\ handler'[h].step # "decide"
            /\ handler'[h].game = handler[h].game /\ handler'[h].mode = handler[h].mode
  PROVE  AtTheEnd(h)'
<1>. SUFFICES ASSUME handler'[h].step # "idle"
              PROVE  AtTheEnd(h)'
  BY DEF AtTheEnd, Step
<1>1. /\ Step(h) # "idle" /\ handler'[h].game = handler[h].game
      /\ handler'[h].mode = handler[h].mode
  BY DEF Step
<1>2. /\ handler[h].game \in Games /\ Exists(handler[h].game) /\ Played(Parent(h))
  BY <1>1, InFlight DEF AtTheEnd
<1>3. /\ Played(Parent(h)') /\ Parent(h)'.fingerprint = Parent(h).fingerprint
  BY <1>1, <1>2 DEF NoChildMade, EcologiesKept, Parent
<1>4. Children(handler[h].game)' = Children(handler[h].game)
  BY ChildrenSame DEF NoChildMade
<1>5. ASSUME Step(h) \notin {"decide", "stop"} /\ handler[h].mode = "replay_game"
      PROVE  Unseen(handler[h].game)'
  <2>1. Children(handler[h].game) = {} /\ Unseen(handler[h].game)
    BY <1>1, <1>5 DEF AtTheEnd
  <2>. QED
    BY <1>2, <2>1, UnseenKept DEF Parent
<1>6. CASE handler'[h] = handler[h]
  BY <1>1, <1>2, <1>3, <1>4, <1>5, <1>6 DEF AtTheEnd, Step, Parent, Unseen, Exists
<1>7. CASE Step(h) \notin {"idle", "decide", "stop"} /\ handler'[h].step # "decide"
  BY <1>1, <1>2, <1>3, <1>4, <1>5, <1>7 DEF AtTheEnd, Step, Parent, Unseen, Exists
<1>. QED
  BY <1>6, <1>7

(* Runs that nobody touched.                                               *)
LEMMA NothingPlayed ==
  ASSUME LineageInv, Chained, runs' = runs
  PROVE  EcologiesKept /\ UnplayedUnjudged'
BY DEF EcologiesKept, Chained, UnplayedUnjudged, Exists, Played

(* A run that was judged moves to another state.                           *)
LEMMA JudgedMoves ==
  ASSUME LineageInv, Chained, NEW g \in Games, Exists(g), NEW to,
         to \notin {"chess_ready", "chess_terminal"}, Move(g, to)
  PROVE  EcologiesKept /\ UnplayedUnjudged'
<1>1. runs \in [Games -> Run \cup {None}] /\ runs[g] \in Run
  BY DEF LineageInv, Typed, Exists
<1>2. \A other \in Games :
        /\ other # g => runs'[other] = runs[other]
        /\ runs'[g].state = to /\ runs'[g].fingerprint = runs[g].fingerprint
  BY <1>1 DEF Move, Run
<1>. QED
  BY <1>2 DEF EcologiesKept, Chained, UnplayedUnjudged, Exists, Played

(* A run up to its Gate makes no child.                                    *)
LEMMA RunMakesNone ==
  ASSUME LineageInv, Chained, NEW g \in Games,
         \/ \E f \in Fingerprints : FinishGame(g, f)
         \/ \E v \in Reviews : JudgeRun(g, v)
         \/ ConcludeGate(g)
  PROVE  EcologiesKept /\ UnplayedUnjudged'
<1>1. runs \in [Games -> Run \cup {None}] /\ runs[g] \in Run /\ Exists(g)
  BY DEF LineageInv, Typed, Exists, FinishGame, JudgeRun, ConcludeGate
<1>2. ASSUME NEW f \in Fingerprints, FinishGame(g, f)
      PROVE  EcologiesKept /\ UnplayedUnjudged'
  <2>1. /\ \A other \in Games : other # g => runs'[other] = runs[other]
        /\ runs'[g].verdict = runs[g].verdict /\ ~Played(runs[g])
    BY <1>1, <1>2 DEF FinishGame, Run, Played
  <2>. QED
    BY <1>1, <2>1 DEF EcologiesKept, Chained, UnplayedUnjudged, Exists
<1>3. ASSUME NEW v \in Reviews, JudgeRun(g, v)
      PROVE  EcologiesKept /\ UnplayedUnjudged'
  <2>1. /\ \A other \in Games : other # g => runs'[other] = runs[other]
        /\ Played(runs'[g]) /\ ~Played(runs[g])
    BY <1>1, <1>3 DEF JudgeRun, Run, Played
  <2>. QED
    BY <1>1, <2>1 DEF EcologiesKept, Chained, UnplayedUnjudged, Exists
<1>4. CASE ConcludeGate(g)
  BY <1>1, <1>4, JudgedMoves DEF ConcludeGate
<1>. QED
  BY <1>2, <1>3, <1>4

(* The whole invariant after a step that makes no child: only the handler  *)
(* that acts is to be looked at.                                           *)
LEMMA EndsKept ==
  ASSUME ChainInv, NoChildMade, LineageInv',
         \A h \in Handlers : AtTheEnd(h)'
  PROVE  ChainInv'
BY ChainedKept DEF ChainInv

LEMMA OthersKept ==
  ASSUME ChainInv, NoChildMade, LineageInv', NEW h \in Handlers, AtTheEnd(h)',
         \A other \in Handlers \ {h} : handler'[other] = handler[other]
  PROVE  ChainInv'
<1>1. ASSUME NEW other \in Handlers
      PROVE  AtTheEnd(other)'
  <2>1. CASE other = h
    BY <2>1
  <2>2. CASE other # h
    BY <2>2, EndKept DEF ChainInv
  <2>. QED
    BY <2>1, <2>2
<1>. QED
  BY <1>1, EndsKept

LEMMA RunChains ==
  ASSUME ChainInv, NEW g \in Games,
         \/ \E f \in Fingerprints : FinishGame(g, f)
         \/ \E v \in Reviews : JudgeRun(g, v)
         \/ ConcludeGate(g)
  PROVE  ChainInv'
<1>1. child' = child /\ handler' = handler
  BY DEF FinishGame, JudgeRun, ConcludeGate
<1>2. NoChildMade /\ LineageInv'
  BY <1>1, RunMoves, RunStep, RunMakesNone, NothingMoves DEF ChainInv, NoChildMade
<1>3. \A h \in Handlers : AtTheEnd(h)'
  BY <1>1, <1>2, EndKept DEF ChainInv
<1>. QED
  BY <1>2, <1>3, EndsKept

LEMMA OpenChains ==
  ASSUME ChainInv, NEW h \in Handlers, NEW g \in Games, NEW k \in Keys, Open(h, g, k)
  PROVE  ChainInv'
<1>1. runs' = runs /\ child' = child
  BY DEF Open
<1>2. NoChildMade /\ LineageInv'
  BY <1>1, OpenStep, NothingMoves, NothingPlayed DEF ChainInv, NoChildMade
<1>3. /\ handler'[h].step = "decide" /\ handler'[h].game = g /\ handler'[h].snap = runs[g]
      /\ \A other \in Handlers \ {h} : handler'[other] = handler[other]
  BY DEF Open, ChainInv, LineageInv, Typed
<1>4. Exists(g) /\ Played(runs[g])
  BY DEF Open, Failed, ChainInv, Chained, UnplayedUnjudged, Played
<1>5. runs[g].state # "retry_running" => Children(g) = {}
  BY DEF ChainInv, LineageInv, Placed, ChildrenPlaced, Children
<1>6. Children(g)' = Children(g)
  BY <1>2, ChildrenSame DEF ChainInv, NoChildMade
<1>7. AtTheEnd(h)'
  BY <1>1, <1>3, <1>4, <1>5, <1>6 DEF AtTheEnd, Step, Parent
<1>. QED
  BY <1>2, <1>3, <1>7, OthersKept

LEMMA DecideChains ==
  ASSUME ChainInv, NEW h \in Handlers, Decide(h)
  PROVE  ChainInv'
<1>. DEFINE row == handler[h].snap
            mode == DecideRetry(RecommendedFor(row), row.replays, row.regenerations, Duplicate(h))
<1>1. runs' = runs /\ child' = child /\ Step(h) = "decide"
  BY DEF Decide
<1>2. NoChildMade /\ LineageInv'
  BY <1>1, DecideStep, NothingMoves, NothingPlayed DEF ChainInv, NoChildMade
<1>3. /\ handler[h] \in Task /\ handler[h].game \in Games /\ Exists(handler[h].game)
      /\ handler \in [Handlers -> {Idle} \cup Task]
  BY <1>1, InFlight DEF ChainInv, LineageInv, Typed
<1>4. \A other \in Handlers \ {h} : handler'[other] = handler[other]
  BY <1>3 DEF Decide
<1>5. \/ handler'[h].step = "idle"
      \/ /\ handler'[h].step \in {"stop", "grant", "weave"}
         /\ handler'[h].game = handler[h].game
         /\ row.state # "retry_running"
         /\ handler'[h].step # "stop" => handler'[h].mode = mode
  <2>1. CASE row.state = "retry_running"
    BY <1>3, <2>1 DEF Decide, Idle
  <2>2. CASE row.state # "retry_running"
    <3>1. mode \in {"insufficient_basis", "replay_game", "regenerate_field"}
      BY DEF DecideRetry
    <3>. HIDE DEF mode
    <3>2. handler'[h] = CASE row.state = "retry_running"  -> Idle
                [] row.state # "retry_running" /\ mode = "insufficient_basis"
                                                -> [handler[h] EXCEPT !.step = "stop"]
                [] row.state # "retry_running" /\ mode = "replay_game"
                                                -> [handler[h] EXCEPT !.step = "grant", !.mode = mode]
                [] row.state # "retry_running" /\ mode = "regenerate_field"
                                                -> [handler[h] EXCEPT !.step = "weave", !.mode = mode]
      BY <1>3 DEF Decide, mode
    <3>3. \/ handler'[h] = [handler[h] EXCEPT !.step = "stop"]
          \/ handler'[h] = [handler[h] EXCEPT !.step = "grant", !.mode = mode]
          \/ handler'[h] = [handler[h] EXCEPT !.step = "weave", !.mode = mode]
      BY <2>2, <3>1, <3>2
    <3>. QED
      BY <1>3, <2>2, <3>3 DEF Task
  <2>. QED
    BY <2>1, <2>2
<1>6. Played(Parent(h)) /\ row.fingerprint = Parent(h).fingerprint
  BY <1>1 DEF ChainInv, AtTheEnd
<1>7. ASSUME mode = "replay_game"
      PROVE  Unseen(handler[h].game)
  <2>1. ~Duplicate(h)
    BY <1>7 DEF DecideRetry
  <2>. QED
    BY <1>6, <2>1 DEF Duplicate, Unseen, Parent
<1>. HIDE DEF mode
<1>8. ASSUME row.state # "retry_running"
      PROVE  Children(handler[h].game) = {}
  BY <1>1, <1>8 DEF ChainInv, AtTheEnd
<1>9. \A g : Children(g)' = Children(g)
  BY <1>2, ChildrenSame DEF ChainInv, NoChildMade
<1>10. \A g : Unseen(g) => Unseen(g)'
  BY <1>1 DEF Unseen, Exists
<1>11. AtTheEnd(h)'
  <2>1. CASE handler'[h].step = "idle"
    BY <2>1 DEF AtTheEnd, Step
  <2>2. CASE handler'[h].step # "idle"
    <3>1. /\ handler'[h].step \in {"stop", "grant", "weave"}
          /\ handler'[h].game = handler[h].game
          /\ row.state # "retry_running"
          /\ handler'[h].step # "stop" => handler'[h].mode = mode
      BY <1>5, <2>2
    <3>2. Played(Parent(h))' /\ Children(handler[h].game)' = {}
      BY <1>1, <1>6, <1>8, <1>9, <3>1 DEF Parent, Played
    <3>3. handler'[h].step # "stop" /\ handler'[h].mode = "replay_game"
            => Unseen(handler[h].game)'
      BY <1>7, <1>10, <3>1
    <3>. QED
      BY <3>1, <3>2, <3>3 DEF AtTheEnd, Step, Parent, Played, Unseen, Children, Exists
  <2>. QED
    BY <2>1, <2>2
<1>. QED
  BY <1>2, <1>4, <1>11, OthersKept

LEMMA StopChains ==
  ASSUME ChainInv, NEW h \in Handlers, Stop(h)
  PROVE  ChainInv'
<1>1. Step(h) = "stop" /\ child' = child /\ Finish(h)
  BY DEF Stop
<1>2. /\ handler[h].game \in Games /\ Exists(handler[h].game) /\ Informed(h)
      /\ handler[h].snap.state # "retry_running"
  BY <1>1, InFlight DEF ChainInv, Informed
<1>3. RunsKept /\ NoNewRun /\ EcologiesKept /\ UnplayedUnjudged'
  <2>1. CASE runs' = runs
    BY <2>1, NothingMoves, NothingPlayed DEF ChainInv
  <2>2. CASE Parent(h).state = handler[h].snap.state /\ Move(handler[h].game, "insufficient_basis")
    <3>1. RunsKept /\ NoNewRun
      <4>1. /\ Typed /\ "insufficient_basis" \in RunStates \ {"gate_failed"}
            /\ runs[handler[h].game].state # "retry_running"
            /\ runs' = [runs EXCEPT ![handler[h].game].state = "insufficient_basis"]
        BY <1>2, <2>2 DEF Move, Parent, ChainInv, LineageInv, RunStates
      <4>. QED
        BY <1>2, <4>1, StateMoves
    <3>. QED
      BY <1>2, <2>2, <3>1, JudgedMoves DEF ChainInv
  <2>. QED
    BY <2>1, <2>2 DEF Stop
<1>4. NoChildMade /\ LineageInv'
  BY <1>1, <1>3, StopKeeps, NothingMoves DEF ChainInv, NoChildMade
<1>5. /\ handler'[h].step = "idle"
      /\ \A other \in Handlers \ {h} : handler'[other] = handler[other]
  BY <1>1 DEF Finish, Idle, ChainInv, LineageInv, Typed
<1>. QED
  BY <1>4, <1>5, EndKept, OthersKept DEF ChainInv

LEMMA GameChains ==
  ASSUME ChainInv, NEW h \in Handlers,
         \/ Grant(h) \/ Refused(h) \/ Weave(h) \/ Found(h)
         \/ \E status \in {"dividing", "mapped", "failed"} : Settled(h, status)
  PROVE  ChainInv'
<1>1. Step(h) \in {"grant", "weave", "await"} /\ runs' = runs
  BY DEF Grant, Refused, Gone, Weave, Found, Settled
<1>2. NoChildMade /\ LineageInv'
  BY <1>1, GameStep, GameWritten, NothingMoves, NothingPlayed DEF ChainInv, NoChildMade
<1>3. Finish(h) \/ Goto(h, "parent") \/ Goto(h, "await")
  BY DEF Grant, Refused, Gone, Weave, Found, Settled
<1>4. /\ handler[h] \in Task /\ handler \in [Handlers -> {Idle} \cup Task]
  BY <1>1, InFlight DEF ChainInv, LineageInv, Typed
<1>5. /\ \A other \in Handlers \ {h} : handler'[other] = handler[other]
      /\ \/ handler'[h].step = "idle"
         \/ /\ handler'[h].step # "decide"
            /\ handler'[h].game = handler[h].game /\ handler'[h].mode = handler[h].mode
  BY <1>3, <1>4 DEF Finish, Goto, Idle, Task
<1>. QED
  BY <1>1, <1>2, <1>5, EndKept, OthersKept DEF ChainInv

LEMMA ReadChains ==
  ASSUME ChainInv, NEW h \in Handlers, ReadParent(h)
  PROVE  ChainInv'
<1>1. Step(h) = "parent" /\ runs' = runs /\ child' = child
  BY DEF ReadParent
<1>2. NoChildMade /\ LineageInv'
  BY <1>1, ReadStep, NothingMoves, NothingPlayed DEF ChainInv, NoChildMade
<1>3. /\ handler[h] \in Task /\ handler \in [Handlers -> {Idle} \cup Task]
  BY <1>1, InFlight DEF ChainInv, LineageInv, Typed
<1>4. NextStep(Parent(h)) \in {"ready", "run", "insert", "idle"}
  BY DEF NextStep
<1>5. /\ \A other \in Handlers \ {h} : handler'[other] = handler[other]
      /\ \/ handler'[h].step = "idle"
         \/ /\ handler'[h].step # "decide"
            /\ handler'[h].game = handler[h].game /\ handler'[h].mode = handler[h].mode
  BY <1>3, <1>4 DEF ReadParent, Finish, Idle, Task
<1>. QED
  BY <1>1, <1>2, <1>5, EndKept, OthersKept DEF ChainInv

LEMMA AdvanceChains ==
  ASSUME ChainInv, NEW h \in Handlers, Authorize(h) \/ Start(h)
  PROVE  ChainInv'
<1>. DEFINE to == IF Step(h) = "ready" THEN "retry_ready" ELSE "retry_running"
<1>1. /\ Step(h) \in {"ready", "run"} /\ child' = child /\ Advance(h, Step(h), to)
  BY DEF Authorize, Start, Advance
<1>2. /\ handler[h].game \in Games /\ Exists(handler[h].game) /\ Informed(h)
      /\ handler[h] \in Task /\ handler \in [Handlers -> {Idle} \cup Task]
  BY <1>1, InFlight DEF ChainInv, LineageInv, Typed
<1>3. /\ to \in RunStates \ {"gate_failed"} /\ Played([state |-> to])
      /\ handler[h].snap.state = "retry_running" => to = "retry_running"
  BY <1>1, <1>2 DEF Informed, RunStates, Played
<1>. HIDE DEF to
<1>4. RunsKept /\ NoNewRun /\ EcologiesKept /\ UnplayedUnjudged'
  <2>1. CASE runs' = runs
    BY <2>1, NothingMoves, NothingPlayed DEF ChainInv
  <2>2. CASE Parent(h).state = handler[h].snap.state /\ Move(handler[h].game, to)
    <3>1. to \notin {"chess_ready", "chess_terminal"}
      BY <1>3 DEF Played
    <3>. QED
      BY <1>2, <1>3, <2>2, <3>1, StateMoves, JudgedMoves DEF Move, Parent, ChainInv, LineageInv
  <2>. QED
    BY <1>1, <2>1, <2>2 DEF Advance
<1>5. NoChildMade /\ LineageInv'
  BY <1>1, <1>4, AdvanceStep, NothingMoves DEF ChainInv, NoChildMade
<1>6. /\ \A other \in Handlers \ {h} : handler'[other] = handler[other]
      /\ \/ handler'[h].step = "idle"
         \/ /\ handler'[h].step # "decide"
            /\ handler'[h].game = handler[h].game /\ handler'[h].mode = handler[h].mode
  BY <1>1, <1>2 DEF Advance, Finish, Goto, Idle, Task
<1>. QED
  BY <1>1, <1>5, <1>6, EndKept, OthersKept DEF ChainInv

LEMMA CrashChains ==
  ASSUME ChainInv, NEW h \in Handlers, Crash(h)
  PROVE  ChainInv'
<1>1. runs' = runs /\ child' = child /\ Finish(h)
  BY DEF Crash
<1>2. LineageInv'
  BY LineageStep DEF ChainInv, Next
<1>3. NoChildMade
  BY <1>1, NothingMoves, NothingPlayed DEF ChainInv, NoChildMade
<1>4. /\ handler'[h].step = "idle"
      /\ \A other \in Handlers \ {h} : handler'[other] = handler[other]
  BY <1>1 DEF Finish, Idle, ChainInv, LineageInv, Typed
<1>. QED
  BY <1>2, <1>3, <1>4, EndKept, OthersKept DEF ChainInv

-----------------------------------------------------------------------------
(* The child becomes the last run of the chain.                            *)

LEMMA InsertChains ==
  ASSUME ChainInv, OneAtATime, NEW h \in Handlers, Insert(h)
  PROVE  ChainInv'
<1>. DEFINE k == handler[h].key
            p == handler[h].game
            row == ChildRow(h)
<1>1. /\ Step(h) = "insert" /\ Step(h) # "idle" /\ Step(h) \notin {"decide", "stop"}
      /\ child' = child /\ Finish(h)
  BY DEF Insert
<1>2. /\ LineageInv /\ Chained /\ LineageInv'
  BY InsertStep DEF ChainInv
<1>3. \A other \in Handlers : AtTheEnd(other)'
  <2>1. handler'[h].step = "idle"
    BY <1>1, <1>2 DEF Finish, Idle, LineageInv, Typed
  <2>2. AtTheEnd(h)'
    BY <2>1 DEF AtTheEnd, Step
  <2>. QED
    BY <2>2 DEF OneAtATime
<1>4. CASE runs' = runs
  <2>1. NoChildMade
    BY <1>1, <1>2, <1>4, NothingMoves, NothingPlayed DEF NoChildMade
  <2>. QED
    BY <1>2, <1>3, <2>1, EndsKept
<1>5. CASE ~Exists(k) /\ Insertable(row) /\ runs' = [runs EXCEPT ![k] = row]
  <2>1. /\ p \in Games /\ k \in Keys /\ k \in Games /\ Exists(p) /\ runs[p] \in Run
        /\ handler[h].snap \in Run /\ SamePlace(handler[h].snap, runs[p])
        /\ handler[h].snap.replays = runs[p].replays
        /\ child[k] = ChildOf(h, "mapped") /\ handler[h].mode \in Modes
        /\ runs[p].state = "retry_running" /\ runs \in [Games -> Run \cup {None}]
    BY <1>1, <1>2, InFlight DEF Informed, Parent, LineageInv, Typed
  <2>2. /\ Children(p) = {}
        /\ handler[h].mode = "replay_game" => Unseen(p)
    BY <1>1 DEF ChainInv, AtTheEnd
  <2>3. /\ row.parent = p /\ row.state = "chess_ready" /\ row.verdict = None
        /\ row.replays = IF handler[h].mode = "replay_game" THEN runs[p].replays + 1
                         ELSE runs[p].replays
        /\ Before(runs[p], row) /\ child[k].mode = handler[h].mode
    BY <2>1 DEF ChildRow, ChildOf, SamePlace, Before, Run
  <2>4. row \in Run /\ row # None
    <3>1. row.replays \in 0..SameFieldReplays /\ row.regenerations \in 0..FieldRegenerations
      BY <1>5 DEF Insertable
    <3>2. row.generation \in Nat /\ row.attempt \in Nat
      BY <2>1 DEF ChildRow, Run
    <3>3. row \in Run
      BY <2>1, <3>1, <3>2 DEF ChildRow, Run, RunStates
    <3>. QED
      BY <3>3, RowsAreNotNull
  <2>. HIDE DEF row
  <2>5. /\ runs'[k] = row /\ \A g \in Games \ {k} : runs'[g] = runs[g]
    BY <1>5, <2>1
  <2>7. k # p /\ \A g \in Games : runs'[g] # None <=> g = k \/ Exists(g)
    BY <1>5, <2>1, <2>4, <2>5 DEF Exists
  <2>8. \A g \in Games : Exists(g) => Before(runs[g], row) /\ ~Before(row, runs[g])
    <3>. SUFFICES ASSUME NEW g \in Games, Exists(g)
                  PROVE  Before(runs[g], row) /\ ~Before(row, runs[g])
      OBVIOUS
    <3>1. g = p \/ Before(runs[g], runs[p])
      BY <1>2, <2>1, <2>2 DEF Chained, LastIsLast
    <3>2. runs[g] \in Run
      BY <2>1 DEF Exists
    <3>. QED
      BY <2>1, <2>3, <2>4, <3>1, <3>2 DEF Before, Run
  <2>9. \A other \in Keys : runs'[other] # None =>
          runs'[other].parent # k /\ runs'[other].parent \in Games
    <3>. SUFFICES ASSUME NEW other \in Keys, runs'[other] # None
                  PROVE  runs'[other].parent # k /\ runs'[other].parent \in Games
      OBVIOUS
    <3>1. CASE other = k
      BY <2>1, <2>3, <2>5, <2>7, <3>1
    <3>2. CASE other # k
      <4>1. Exists(other) /\ runs'[other] = runs[other] /\ other \in Games
        BY <2>5, <3>2 DEF Exists, Games
      <4>2. Exists(runs[other].parent) /\ runs[other].parent \in Games
        BY <1>2, <4>1 DEF LineageInv, Placed, ChildrenPlaced
      <4>. QED
        BY <1>5, <4>1, <4>2
    <3>. QED
      BY <3>1, <3>2
  <2>10. \A g \in Games : Children(g)' = IF g = p THEN {k} ELSE Children(g)
    <3>1. \A g \in Games, other \in Keys :
            runs'[other] # None /\ runs'[other].parent = g
              <=> \/ other = k /\ g = p
                  \/ Exists(other) /\ runs[other].parent = g
      BY <1>5, <2>1, <2>3, <2>4, <2>5 DEF Exists, Games
    <3>2. \A other \in Keys : ~(Exists(other) /\ runs[other].parent = p)
      BY <2>2 DEF Children
    <3>3. \A g \in Games : Children(g)' = {other \in Keys : runs'[other] # None /\ runs'[other].parent = g}
      BY DEF Children, Exists
    <3>. QED
      BY <2>1, <3>1, <3>2, <3>3 DEF Children
  <2>12. UnplayedUnjudged'
    BY <1>2, <2>3, <2>5, <2>7 DEF Chained, UnplayedUnjudged, Exists, Played
  <2>13. LastIsLast'
    <3>. SUFFICES ASSUME NEW g \in Games, NEW last \in Games, runs'[g] # None, runs'[last] # None,
                         g # last, Children(last)' = {}
                  PROVE  Before(runs'[g], runs'[last])
      BY DEF LastIsLast, Exists
    <3>1. last # p /\ (last # k => Children(last) = {})
      BY <2>10
    <3>2. last = k
      BY <1>2, <2>1, <2>2, <2>7, <3>1, OneLast
    <3>. QED
      BY <2>5, <2>7, <2>8, <3>2
  <2>14. OneChildEach'
    BY <1>2, <2>10 DEF Chained, OneChildEach
  <2>15. ReplaysGrow'
    <3>. SUFFICES ASSUME NEW g \in Games, NEW other \in Games, runs'[g] # None, runs'[other] # None,
                         Before(runs'[g], runs'[other])
                  PROVE  /\ runs'[g].replays <= runs'[other].replays
                         /\ other \in Keys /\ child[other].mode = "replay_game"
                              => runs'[g].replays < runs'[other].replays
      BY <1>1 DEF ReplaysGrow, Exists
    <3>1. CASE other # k
      <4>1. g # k
        BY <2>5, <2>7, <2>8, <3>1
      <4>. QED
        BY <1>2, <2>5, <2>7, <3>1, <4>1 DEF Chained, ReplaysGrow
    <3>2. CASE other = k
      <4>1. g # k
        BY <2>4, <2>5, <3>2 DEF Before, Run
      <4>2. runs'[g] = runs[g] /\ Exists(g) /\ runs[g] \in Run
        BY <2>1, <2>5, <2>7, <4>1 DEF Exists
      <4>3. g = p \/ Before(runs[g], runs[p])
        BY <1>2, <2>1, <2>2, <4>2 DEF Chained, LastIsLast
      <4>4. runs[g].replays <= runs[p].replays
        BY <1>2, <2>1, <4>2, <4>3 DEF Chained, ReplaysGrow, Run
      <4>. QED
        BY <2>1, <2>3, <2>5, <3>2, <4>2, <4>4 DEF Run, SameFieldReplays
    <3>. QED
      BY <3>1, <3>2
  <2>16. NoReplayOfDuplicates'
    <3>. SUFFICES ASSUME NEW other \in Keys, runs'[other] # None, child[other].mode = "replay_game",
                         NEW a \in Games, a # runs'[other].parent, runs'[a] # None,
                         runs'[runs'[other].parent] # None,
                         Before(runs'[a], runs'[runs'[other].parent])
                  PROVE  runs'[a].fingerprint # runs'[runs'[other].parent].fingerprint
      BY <1>1 DEF NoReplayOfDuplicates, Exists, IsAncestor, Before
    <3>1. runs'[other].parent \in Games /\ runs'[other].parent # k
      BY <2>9
    <3>2. runs'[runs'[other].parent] = runs[runs'[other].parent] /\ Exists(runs'[other].parent)
      BY <2>5, <2>7, <3>1
    <3>3. a # k
      BY <2>5, <2>8, <3>1, <3>2
    <3>4. runs'[a] = runs[a] /\ Exists(a)
      BY <2>5, <2>7, <3>3
    <3>5. CASE other = k
      BY <2>2, <2>3, <2>5, <3>2, <3>4, <3>5 DEF Unseen
    <3>6. CASE other # k
      <4>1. Exists(other) /\ runs'[other] = runs[other]
        BY <2>5, <2>7, <3>6 DEF Games
      <4>. QED
        BY <1>2, <3>2, <3>4, <4>1 DEF Chained, NoReplayOfDuplicates, IsAncestor, Before
    <3>. QED
      BY <3>5, <3>6
  <2>. QED
    BY <1>2, <1>3, <2>12, <2>13, <2>14, <2>15, <2>16 DEF ChainInv, Chained
<1>. QED
  BY <1>4, <1>5 DEF Insert

-----------------------------------------------------------------------------
(* The chain, and what it says.                                            *)

LEMMA ChainBegins == Init => ChainInv
<1>. SUFFICES ASSUME Init
              PROVE  ChainInv
  OBVIOUS
<1>1. LineageInv
  BY LineageInit
<1>2. \A g \in Games : Exists(g) => g = Root /\ runs[g] \in RootRuns
  BY DEF Init, Exists
<1>3. \A g : Children(g) = {}
  BY <1>2, ConstantsAssumption DEF Children, Games
<1>4. UnplayedUnjudged
  BY <1>2 DEF UnplayedUnjudged, Played, RootRuns, Fresh
<1>5. ReplaysGrow
  <2>. SUFFICES ASSUME NEW g \in Games, NEW other \in Games, Exists(g), Exists(other),
                       Before(runs[g], runs[other])
                PROVE  FALSE
    BY DEF ReplaysGrow
  <2>1. g = other /\ runs[g] \in Run
    BY <1>1, <1>2 DEF LineageInv, Typed, Exists
  <2>. QED
    BY <2>1 DEF Before, Run
<1>6. Chained
  BY <1>2, <1>3, <1>4, <1>5, ConstantsAssumption
     DEF Chained, LastIsLast, OneChildEach, NoReplayOfDuplicates, Games
<1>. QED
  BY <1>1, <1>6 DEF ChainInv, AtTheEnd, Init, Step, Idle

LEMMA ChainSteps == OneAtATime /\ ChainInv /\ [Next]_vars => ChainInv'
<1>. SUFFICES ASSUME OneAtATime, ChainInv, [Next]_vars
              PROVE  ChainInv'
  OBVIOUS
<1>1. ASSUME NEW g \in Games,
             \/ \E f \in Fingerprints : FinishGame(g, f)
             \/ \E v \in Reviews : JudgeRun(g, v)
             \/ ConcludeGate(g)
      PROVE  ChainInv'
  BY <1>1, RunChains
<1>2. ASSUME NEW h \in Handlers, NEW g \in Games, NEW k \in Keys, Open(h, g, k)
      PROVE  ChainInv'
  BY <1>2, OpenChains
<1>3. ASSUME NEW h \in Handlers, Advances(h)
      PROVE  ChainInv'
  BY <1>3, DecideChains, StopChains, GameChains, ReadChains, AdvanceChains, InsertChains
     DEF Advances
<1>4. ASSUME NEW h \in Handlers, Crash(h)
      PROVE  ChainInv'
  BY <1>4, CrashChains
<1>5. CASE UNCHANGED vars
  <2>1. runs' = runs /\ child' = child /\ handler' = handler
    BY <1>5 DEF vars
  <2>2. LineageInv' /\ NoChildMade
    BY <2>1, LineageStep, NothingMoves, NothingPlayed DEF ChainInv, NoChildMade
  <2>3. \A h \in Handlers : AtTheEnd(h)'
    BY <2>1, <2>2, EndKept DEF ChainInv
  <2>. QED
    BY <2>2, <2>3, EndsKept
<1>. QED
  BY <1>1, <1>2, <1>3, <1>4, <1>5 DEF Next

(* A set whose members are told apart by a number up to n has n at most.   *)
LEMMA AtMostMembers ==
  ASSUME NEW S, NEW n \in Nat, NEW f \in [S -> 1..n], \A x, y \in S : f[x] = f[y] => x = y
  PROVE  Cardinality(S) <= n
<1>1. IsFiniteSet(1..n) /\ Cardinality(1..n) = n
  BY FS_Interval
<1>2. f \in Injection(S, 1..n)
  BY DEF Injection, IsInjective
<1>3. Cardinality(S) <= Cardinality(1..n)
  BY <1>1, <1>2, FS_Injection
<1>. QED
  BY <1>1, <1>3

LEMMA ChainIsSound == ChainInv => LineageIsSound
<1>. SUFFICES ASSUME ChainInv
              PROVE  LineageIsSound
  OBVIOUS
<1>1. \A g \in Games : Cardinality(Children(g)) <= 1
  BY AtMostOneMember DEF ChainInv, Chained, OneChildEach
<1>2. Cardinality(Made("replay_game")) <= SameFieldReplays
  <2> DEFINE S == Made("replay_game")
             f == [k \in S |-> runs[k].replays]
  <2>1. \A k \in S : /\ k \in Keys /\ k \in Games /\ Exists(k) /\ child[k].mode = "replay_game"
                     /\ runs[k] \in Run
    BY DEF Made, Games, ChainInv, LineageInv, Typed, Exists
  <2>2. ASSUME NEW k \in S
        PROVE  runs[k].replays \in 1..SameFieldReplays
    <3>1. /\ runs[k].parent \in Games /\ Exists(runs[k].parent) /\ runs[runs[k].parent] \in Run
          /\ runs[k].generation = runs[runs[k].parent].generation
          /\ runs[k].attempt = runs[runs[k].parent].attempt + 1
      BY <2>1 DEF ChainInv, LineageInv, Placed, ChildrenPlaced, Typed, Exists
    <3>2. Before(runs[runs[k].parent], runs[k])
      BY <2>1, <3>1 DEF Before, Run
    <3>3. runs[runs[k].parent].replays < runs[k].replays
      BY <2>1, <3>1, <3>2 DEF ChainInv, Chained, ReplaysGrow
    <3>. QED
      BY <2>1, <3>1, <3>3 DEF Run, SameFieldReplays
  <2>3. ASSUME NEW x \in S, NEW y \in S, runs[x].replays = runs[y].replays
        PROVE  x = y
    <3>1. ~Before(runs[x], runs[y]) /\ ~Before(runs[y], runs[x])
      BY <2>1, <2>3 DEF ChainInv, Chained, ReplaysGrow, Run, SameFieldReplays
    <3>2. SamePlace(runs[x], runs[y])
      BY <2>1, <3>1 DEF Before, SamePlace, Run
    <3>. QED
      BY <2>1, <3>2 DEF ChainInv, LineageInv, Placed, PlacesUnique
  <2> HIDE DEF S
  <2>4. f \in [S -> 1..SameFieldReplays] /\ \A x, y \in S : f[x] = f[y] => x = y
    BY <2>2, <2>3
  <2>5. SameFieldReplays \in Nat
    BY DEF SameFieldReplays
  <2>. QED
    BY <2>4, <2>5, AtMostMembers DEF S
<1>. QED
  BY <1>1, <1>2, OneNewField DEF LineageIsSound, LineageIsBoundedChain, ChainInv, Chained

(* Retries made one at a time, whoever dies and wherever, spend the budget *)
(* of the root and no more: a chain of at most four runs, none replayed    *)
(* after an ecology its lineage had seen.                                  *)
THEOREM SequentialRetriesAreSound == OneAtATime => (Spec => []LineageIsSound)
<1>. SUFFICES ASSUME OneAtATime
              PROVE  Spec => []LineageIsSound
  OBVIOUS
<1>1. Init => ChainInv
  BY ChainBegins
<1>2. ChainInv /\ [Next]_vars => ChainInv'
  BY ChainSteps
<1>3. ChainInv => LineageIsSound
  BY ChainIsSound
<1>. QED
  BY <1>1, <1>2, <1>3, PTL DEF Spec
=============================================================================
