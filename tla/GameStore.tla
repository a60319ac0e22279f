----------------------------- MODULE GameStore -----------------------------
(***************************************************************************)
(* One owner's games: the rows of `games`, the append-only `game_events`   *)
(* and the replay starts, as DurableGameRepository                         *)
(* (src/server/games/repository.ts) and consumeReplayGameStart             *)
(* (src/server/usage) write them.                                          *)
(*                                                                         *)
(* Every write is one SQL statement whose WHERE clause compares the        *)
(* caller's revision, so it is one action.  A move and a view of a game    *)
(* take several statements and are handlers: others write between them.    *)
(* Which moves are legal and when a game ends is the chess rules' concern; *)
(* here a move has any of the results a move may have.                     *)
(***************************************************************************)
EXTENDS Naturals, Sequences, FiniteSets

CONSTANTS
  GameIds,      \* ids of games; a replay's id is its idempotency key
  MoveKeys,     \* idempotency keys of moves
  Handlers,     \* concurrent invocations of appendMove and getOwnedGame
  Answers,      \* answer payloads
  None,         \* SQL NULL
  DailyGames,   \* the daily limit on game starts
  Results,      \* bound: what a move may leave (see Commit)
  MaxRevision   \* bound: highest revision of a game

VARIABLES
  game,     \* the row of each game, or None
  log,      \* the events of each game, in ply order
  starts,   \* game_start_requests, by idempotency key
  used,     \* replay starts charged to the user's game_starts bucket
  latest,   \* history: the game started last
  acked,    \* history: what appendMove answered for a key when it committed
  handler   \* what each handler holds in memory

vars == <<game, log, starts, used, latest, acked, handler>>

-----------------------------------------------------------------------------
(* Rows.                                                                   *)

Statuses == {"dividing", "division_failed", "mapped", "playing", "completed", "answering",
             "answer_failed", "answered", "abandoned"}

(* TERMINAL_STATUSES.                                                      *)
Terminal == {"completed", "answering", "answer_failed", "answered"}

(* ABANDONABLE_STATUSES.                                                   *)
Abandonable == Statuses \ {"answering", "abandoned"}

(* ended says that the row stores an outcome.                              *)
Row == [status : Statuses, rev : 0..MaxRevision, current : BOOLEAN,
        source : GameIds \cup {None}, ended : BOOLEAN, answer : Answers \cup {None}]

(* An event belongs to the revision that appended it; over says that the   *)
(* position after it has an outcome.  A forced pass has no key.            *)
Event == [key : MoveKeys \cup {None}, rev : 1..MaxRevision, over : BOOLEAN]

(* game_start_requests: the source of a replay and its revision then.      *)
Start == [source : GameIds, rev : 0..MaxRevision]

Ack == [rev : 1..MaxRevision, status : {"playing", "completed"}]

ASSUME ConstantsAssumption ==
  /\ None \notin GameIds \cup MoveKeys \cup Answers
  /\ None \notin Row \cup Start \cup Ack
  /\ DailyGames \in Nat
  /\ Results \subseteq {<<FALSE>>, <<TRUE>>, <<FALSE, FALSE>>, <<FALSE, TRUE>>}
  /\ MaxRevision \in Nat

Exists(g) == game[g] # None
Status(g) == game[g].status

(* Events read from a log are named by their places in it.                 *)
EventsUpTo(g, rev) == {i \in DOMAIN log[g] : log[g][i].rev <= rev}

Over(g, events) == \E last \in events : log[g][last].over /\ \A i \in events : i <= last

Shell(source) == [status |-> "dividing", rev |-> 0, current |-> TRUE, source |-> source,
                  ended |-> FALSE, answer |-> None]

(* Every other game of the owner stops being the current one; its revision *)
(* stays.                                                                  *)
Retired(games) ==
  [g \in GameIds |-> IF games[g] # None THEN [games[g] EXCEPT !.current = FALSE] ELSE None]

(* Mutant: a game that was retired still takes writes.                     *)
Matches_Retired(g, rev, statuses) ==
  /\ Exists(g)
  /\ game[g].rev = rev
  /\ Status(g) \in statuses
  /\ game[g].rev < MaxRevision

(* The WHERE clause of every write but abandonGame's.                      *)
Matches(g, rev, statuses) ==
  /\ Exists(g)
  /\ game[g].rev = rev
  /\ Status(g) \in statuses
  /\ game[g].current
  /\ game[g].rev < MaxRevision

Put(g, status) == [game EXCEPT ![g].status = status, ![g].rev = @ + 1]

Kept == <<log, starts, used, latest, acked>>

-----------------------------------------------------------------------------
(* Writes of one statement.  A caller passes the revision it saw; a caller *)
(* that saw another one changes nothing.                                   *)

(* getOrCreateDivision, for a live reservation whose id the game takes.    *)
CreateDivision(g) ==
  /\ ~Exists(g)
  /\ game' = [Retired(game) EXCEPT ![g] = Shell(None)]
  /\ latest' = g
  /\ UNCHANGED <<log, starts, used, acked, handler>>

(* finishDivision.                                                         *)
FinishDivision(g, rev) ==
  /\ Matches(g, rev, {"dividing"})
  /\ game' = Put(g, "mapped")
  /\ UNCHANGED <<Kept, handler>>

(* failDivision.                                                           *)
FailDivision(g, rev) ==
  /\ Matches(g, rev, {"dividing"})
  /\ game' = Put(g, "division_failed")
  /\ UNCHANGED <<Kept, handler>>

StartGame(g, rev) ==
  /\ Matches(g, rev, {"mapped"})
  /\ game' = Put(g, "playing")
  /\ UNCHANGED <<Kept, handler>>

BeginAnswer(g, rev) ==
  /\ Matches(g, rev, {"completed", "answer_failed"})
  /\ game' = Put(g, "answering")
  /\ UNCHANGED <<Kept, handler>>

StoreAnswer(g, rev, a) ==
  /\ Matches(g, rev, {"answering"})
  /\ game' = [Put(g, "answered") EXCEPT ![g].answer = a]
  /\ UNCHANGED <<Kept, handler>>

FailAnswer(g, rev) ==
  /\ Matches(g, rev, {"answering"})
  /\ game' = Put(g, "answer_failed")
  /\ UNCHANGED <<Kept, handler>>

(* abandonGame, which a retired game may still be given to.                *)
AbandonGame(g, rev) ==
  /\ Exists(g)
  /\ game[g].rev = rev
  /\ Status(g) \in Abandonable
  /\ game[g].rev < MaxRevision
  /\ game' = [Put(g, "abandoned") EXCEPT ![g].current = FALSE]
  /\ UNCHANGED <<Kept, handler>>

-----------------------------------------------------------------------------
(* consumeReplayGameStart: consume, activate and verify in one transaction *)
(* under the reservation lock.                                             *)

(* The source is at the caller's revision and over.                        *)
Replayable(g, rev) ==
  /\ Exists(g)
  /\ game[g].rev = rev
  /\ Status(g) \in {"completed", "answer_failed", "answered"}
  /\ used < DailyGames

(* The key was used for this very replay.                                  *)
SameStart(k, g, rev) == starts[k] # None /\ starts[k].source = g /\ starts[k].rev = rev

(* requests.activated_at IS NULL.                                          *)
Pending(k) == starts[k] = None

Charge(k) == IF starts[k] = None THEN 1 ELSE 0

Child(k, g) == IF Exists(k) THEN game[k] ELSE [Shell(g) EXCEPT !.status = "mapped"]

ReplayGame(k, g, rev) ==
  /\ \/ ~Exists(k) /\ starts[k] = None /\ Replayable(g, rev)
     \/ Exists(k) /\ SameStart(k, g, rev)
  /\ starts' = [starts EXCEPT ![k] = [source |-> g, rev |-> rev]]
  /\ used' = used + Charge(k)
  /\ game' = IF Pending(k)
             THEN [Retired(game) EXCEPT ![k] = [Child(k, g) EXCEPT !.current = TRUE]]
             ELSE game
  /\ latest' = IF starts[k] = None THEN k ELSE latest
  /\ UNCHANGED <<log, acked, handler>>

-----------------------------------------------------------------------------
(* A view of a game, and a move: several statements each.                  *)

Idle == [step |-> "idle"]

(* row is the copy a handler still needs.                                  *)
Task == [step : {"view", "lookup", "replay", "commit", "raced", "echo"},
         game : GameIds, key : MoveKeys \cup {None}, rev : 0..MaxRevision,
         row : Row \cup {None}]

Step(h) == handler[h].step
Target(h) == handler[h].game
Goto(h, step) == handler' = [handler EXCEPT ![h].step = step, ![h].row = None]
Finish(h) == handler' = [handler EXCEPT ![h] = Idle]

ReadOnly == UNCHANGED <<game, Kept>>

(* ownedRow, the first statement of getOwnedGame.                          *)
OpenView(h, g) ==
  /\ handler[h] = Idle
  /\ Exists(g)
  /\ handler' = [handler EXCEPT
       ![h] = [step |-> "view", game |-> g, key |-> None, rev |-> 0, row |-> game[g]]]
  /\ ReadOnly

(* Mutant: the events are read without the row's revision.                 *)
EventsFor_All(h) == DOMAIN log[Target(h)]

(* snapshotForRow: the events that belong to the row that was read.        *)
EventsFor(h) == EventsUpTo(Target(h), handler[h].row.rev)

(* What snapshotFrom and statusMatchesReplay accept.                       *)
Sound(g, row, events) ==
  /\ row.status \in {"dividing", "division_failed"} => events = {}
  /\ row.status = "mapped" => events = {}
  /\ row.status = "playing" => ~Over(g, events)
  /\ row.status \in Terminal => Over(g, events)
  /\ row.ended = Over(g, events)

View(h) ==
  /\ Step(h) = "view"
  /\ Finish(h)
  /\ ReadOnly

(* idempotentMoveRow.                                                      *)
Uses(g, k) == {i \in DOMAIN log[g] : log[g][i].key = k}
Use(g, k) == log[g][CHOOSE i \in Uses(g, k) : TRUE]
Found(h) == Use(Target(h), handler[h].key)

(* request_sha256 covers the revision the client expected.                 *)
SameRequest(h) ==
  Uses(Target(h), handler[h].key) # {} /\ Found(h).rev = handler[h].rev + 1

(* appendMove, its first statement.  A request for a revision or a game    *)
(* that takes no move, and whose key is new, is refused without a trace.   *)
OpenMove(h, g, k) ==
  /\ handler[h] = Idle
  /\ Exists(g)
  /\ Status(g) = "playing"
  /\ game[g].current
  /\ game[g].rev < MaxRevision
  /\ handler' = [handler EXCEPT
       ![h] = [step |-> "lookup", game |-> g, key |-> k, rev |-> game[g].rev, row |-> game[g]]]
  /\ ReadOnly

(* A request repeated after its move was made goes straight to the answer. *)
OpenRepeat(h, g, k) ==
  /\ handler[h] = Idle
  /\ Uses(g, k) # {}
  /\ handler' = [handler EXCEPT
       ![h] = [step |-> "echo", game |-> g, key |-> k, rev |-> Use(g, k).rev - 1, row |-> None]]
  /\ ReadOnly

LookUp(h) ==
  /\ Step(h) = "lookup"
  /\ CASE Uses(Target(h), handler[h].key) = {} -> handler' = [handler EXCEPT ![h].step = "replay"]
       [] SameRequest(h) -> Goto(h, "echo")
       [] OTHER -> Finish(h)
  /\ ReadOnly

(* snapshotForRow again, and acceptMoveCommand on the position it gives.   *)
Replay(h) ==
  /\ Step(h) = "replay"
  /\ IF Sound(Target(h), handler[h].row, EventsFor(h)) THEN Goto(h, "commit") ELSE Finish(h)
  /\ ReadOnly

(* A result of a move: the game goes on or is over after it, or the other  *)
(* side has to pass and the game goes on or is over after the pass.        *)
Appended(h, result) ==
  [i \in 1..Len(result) |->
     [key |-> IF i = 1 THEN handler[h].key ELSE None,
      rev |-> handler[h].rev + 1, over |-> result[i]]]

EndsGame(result) == result[Len(result)]

(* Mutant: the update does not compare the revision.                       *)
Commits_Any(h) ==
  /\ Exists(Target(h))
  /\ Status(Target(h)) = "playing"
  /\ game[Target(h)].current
  /\ game[Target(h)].rev < MaxRevision

Commits(h) == Matches(Target(h), handler[h].rev, {"playing"})

(* The compare-and-set and the insertion of the events, one statement.     *)
Commit(h, result) ==
  LET g == Target(h)
      status == IF EndsGame(result) THEN "completed" ELSE "playing"
  IN
  /\ Step(h) = "commit"
  /\ Commits(h)
  /\ game' = [Put(g, status) EXCEPT ![g].ended = EndsGame(result)]
  /\ log' = [log EXCEPT ![g] = @ \o Appended(h, result)]
  /\ acked' = [acked EXCEPT ![g][handler[h].key] = [rev |-> handler[h].rev + 1, status |-> status]]
  /\ Finish(h)
  /\ UNCHANGED <<starts, used, latest>>

LoseRace(h) ==
  /\ Step(h) = "commit"
  /\ ~Commits(h)
  /\ Goto(h, "raced")
  /\ ReadOnly

(* idempotentMoveRow once more: the other writer may have been a copy of   *)
(* this very request.                                                      *)
LookUpRaced(h) ==
  /\ Step(h) = "raced"
  /\ IF SameRequest(h) THEN Goto(h, "echo") ELSE Finish(h)
  /\ ReadOnly

(* duplicateMoveResult replays up to the revision of the move it found.    *)
EchoRevision(h) == Found(h).rev

Echo(h) ==
  [rev |-> EchoRevision(h),
   status |-> IF Over(Target(h), EventsUpTo(Target(h), EchoRevision(h)))
              THEN "completed" ELSE "playing"]

AnswerEcho(h) ==
  /\ Step(h) = "echo"
  /\ Finish(h)
  /\ ReadOnly

-----------------------------------------------------------------------------
Init ==
  /\ game = [g \in GameIds |-> None]
  /\ log = [g \in GameIds |-> <<>>]
  /\ starts = [g \in GameIds |-> None]
  /\ used = 0
  /\ latest = None
  /\ acked = [g \in GameIds |-> [k \in MoveKeys |-> None]]
  /\ handler = [h \in Handlers |-> Idle]

Write(g, rev) ==
  \/ FinishDivision(g, rev) \/ FailDivision(g, rev) \/ StartGame(g, rev)
  \/ BeginAnswer(g, rev) \/ FailAnswer(g, rev) \/ AbandonGame(g, rev)
  \/ \E a \in Answers : StoreAnswer(g, rev, a)

Advance(h) ==
  \/ View(h) \/ LookUp(h) \/ Replay(h) \/ LoseRace(h) \/ LookUpRaced(h)
  \/ AnswerEcho(h)
  \/ \E result \in Results : Commit(h, result)

Next ==
  \/ \E g \in GameIds : CreateDivision(g)
  \/ \E g \in GameIds, rev \in 0..MaxRevision :
       \/ Write(g, rev)
       \/ \E k \in GameIds : ReplayGame(k, g, rev)
  \/ \E h \in Handlers :
       \/ \E g \in GameIds : OpenView(h, g)
       \/ \E g \in GameIds, k \in MoveKeys : OpenMove(h, g, k) \/ OpenRepeat(h, g, k)
       \/ Advance(h)

Spec == Init /\ [][Next]_vars

-----------------------------------------------------------------------------
(* Properties.                                                             *)

TypeOK ==
  /\ game \in [GameIds -> Row \cup {None}]
  /\ \A g \in GameIds : log[g] \in Seq(Event)
  /\ starts \in [GameIds -> Start \cup {None}]
  /\ used \in 0..DailyGames
  /\ latest \in GameIds \cup {None}
  /\ acked \in [GameIds -> [MoveKeys -> Ack \cup {None}]]
  /\ \A h \in Handlers : handler[h] = Idle \/ handler[h] \in Task

(* At most one game is current, and it is the one started last: no retry   *)
(* of an older replay comes back over it (docs/ARCHITECTURE.md, section    *)
(* game_start_requests), and the unique index is never hit.                *)
CurrentIsNewest == \A g \in GameIds : Exists(g) /\ game[g].current => g = latest

(* A row and its whole log agree at every revision, so no read of a        *)
(* consistent pair raises an integrity error.                              *)
RowsMatchReplay ==
  \A g \in GameIds :
    /\ ~Exists(g) => log[g] = <<>>
    /\ Exists(g) => Sound(g, game[g], DOMAIN log[g])

(* A handler whose row is out of date still reads the events that fit it,  *)
(* and a repeated move is answered as it was the first time.               *)
ReadsAreConsistent ==
  \A h \in Handlers :
    /\ Step(h) \in {"view", "replay"} => Sound(Target(h), handler[h].row, EventsFor(h))
    /\ Step(h) = "echo" => Echo(h) = acked[Target(h)][handler[h].key]

(* Rows, logs and the copies handlers work on never disagree: one game is  *)
(* current, every row is what its log replays to, and whatever was read    *)
(* from the two is consistent.                                             *)
GamesAreConsistent == TypeOK /\ CurrentIsNewest /\ RowsMatchReplay /\ ReadsAreConsistent

(* One key moves once, each revision takes one move, and what was          *)
(* acknowledged is in the log.                                             *)
MovesCountOnce ==
  \A g \in GameIds :
    LET moves == {i \in DOMAIN log[g] : log[g][i].key # None} IN
    /\ \A i, j \in moves : log[g][i].key = log[g][j].key \/ log[g][i].rev = log[g][j].rev => i = j
    /\ \A k \in MoveKeys : acked[g][k] # None =>
         \E i \in moves : log[g][i].key = k /\ log[g][i].rev = acked[g][k].rev

(* A replay is charged once however often its request is repeated, and its *)
(* key names its child.                                                    *)
ReplaysCountOnce ==
  LET started == {k \in GameIds : starts[k] # None} IN
  /\ used = Cardinality(started)
  /\ \A k \in started : Exists(k) /\ game[k].source = starts[k].source

(* However often a request is repeated, its move or its replay counts once.*)
CountedOnce == MovesCountOnce /\ ReplaysCountOnce

(* A game that another replaced is never played, answered or current       *)
(* again; it can only be abandoned.                                        *)
RetiredGamesFrozen ==
  [][\A g \in GameIds :
       Exists(g) /\ ~game[g].current /\ game'[g] # game[g] =>
         game'[g].status = "abandoned" /\ ~game'[g].current]_vars
=============================================================================
