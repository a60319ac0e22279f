--------------------------- MODULE GameStoreProofs ---------------------------
(***************************************************************************)
(* The owner's games for any number of games, keys, handlers and           *)
(* revisions: rows, logs and the copies handlers hold are consistent, a    *)
(* repeated request counts once, and a retired game stays as it is.  The   *)
(* argument rests on one fact: what is appended to a log belongs to a      *)
(* revision above every copy that was read.                                *)
(***************************************************************************)
EXTENDS GameStore, SequenceTheorems, FiniteSetTheorems, TLAPS

-----------------------------------------------------------------------------
(* The inductive invariant.                                                *)

Typed ==
  /\ game \in [GameIds -> Row \cup {None}]
  /\ log \in [GameIds -> Seq(Event)]
  /\ starts \in [GameIds -> Start \cup {None}]
  /\ used \in 0..DailyGames
  /\ latest \in GameIds \cup {None}
  /\ acked \in [GameIds -> [MoveKeys -> Ack \cup {None}]]
  /\ handler \in [Handlers -> {Idle} \cup Task]

(* No event is ahead of its game's row.                                    *)
LogsBehind ==
  \A g \in GameIds : Exists(g) => \A i \in DOMAIN log[g] : log[g][i].rev <= game[g].rev

(* A key that moved was acknowledged with what its move left.              *)
AckSound(g, k) ==
  \A i \in Uses(g, k) :
    /\ acked[g][k] # None
    /\ acked[g][k].rev = log[g][i].rev
    /\ acked[g][k].status =
         IF Over(g, EventsUpTo(g, log[g][i].rev)) THEN "completed" ELSE "playing"

AcksSound == \A g \in GameIds, k \in MoveKeys : AckSound(g, k)

Started == {k \in GameIds : starts[k] # None}

(* A handler's copies are of the past, and fit the log as it was then; a   *)
(* move it may still commit was not made yet.                              *)
HandlerSound(h) ==
  Step(h) # "idle" =>
    /\ Exists(Target(h))
    /\ handler[h].rev <= game[Target(h)].rev
    /\ Step(h) \in {"view", "lookup", "replay"} =>
         /\ handler[h].row \in Row
         /\ handler[h].row.rev <= game[Target(h)].rev
         /\ Sound(Target(h), handler[h].row, EventsFor(h))
    /\ Step(h) # "view" => handler[h].key \in MoveKeys
    /\ Step(h) \in {"replay", "commit"} /\ game[Target(h)].rev = handler[h].rev =>
         Uses(Target(h), handler[h].key) = {}
    /\ Step(h) = "echo" => Uses(Target(h), handler[h].key) # {}

HandlersSound == \A h \in Handlers : HandlerSound(h)

GamesInv ==
  /\ Typed /\ CurrentIsNewest /\ RowsMatchReplay /\ LogsBehind
  /\ MovesCountOnce /\ AcksSound
  /\ ReplaysCountOnce /\ IsFiniteSet(Started)
  /\ HandlersSound

-----------------------------------------------------------------------------
(* Logs.                                                                   *)

(* A handler in flight has a task.                                         *)
LEMMA InFlight ==
  ASSUME Typed, NEW h \in Handlers, Step(h) # "idle"
  PROVE  /\ handler[h] \in Task /\ Target(h) \in GameIds
         /\ handler[h].key \in MoveKeys \cup {None} /\ handler[h].rev \in 0..MaxRevision
         /\ handler[h].row \in Row \cup {None}
BY DEF Typed, Step, Idle, Task, Target

(* What a game is read to be.                                              *)
LEMMA RowTyped ==
  ASSUME Typed, NEW g \in GameIds
  PROVE  /\ Exists(g) => game[g] \in Row
         /\ log[g] \in Seq(Event) /\ DOMAIN log[g] = 1..Len(log[g]) /\ Len(log[g]) \in Nat
         /\ \A i \in DOMAIN log[g] : log[g][i] \in Event /\ log[g][i].rev \in Nat
<1>1. /\ Exists(g) => game[g] \in Row
      /\ log[g] \in Seq(Event) /\ DOMAIN log[g] = 1..Len(log[g]) /\ Len(log[g]) \in Nat
  BY DEF Typed, Exists
<1>2. \A i \in DOMAIN log[g] : log[g][i] \in Event
  BY <1>1
<1>3. \A e \in Event : e.rev \in Nat
  BY ConstantsAssumption DEF Event
<1>. QED
  BY <1>1, <1>2, <1>3

(* The whole log belongs to the row as it is.                              *)
LEMMA WholeLog ==
  ASSUME Typed, LogsBehind, NEW g \in GameIds, Exists(g)
  PROVE  EventsUpTo(g, game[g].rev) = DOMAIN log[g]
BY DEF LogsBehind, EventsUpTo

(* A log only grows, by events of later revisions.                         *)
LogGrows(g) ==
  /\ DOMAIN log[g] \subseteq DOMAIN log'[g]
  /\ \A i \in DOMAIN log[g] : log'[g][i] = log[g][i]
  /\ \A i \in DOMAIN log'[g] \ DOMAIN log[g] :
       Exists(g) /\ log'[g][i].rev \in Nat /\ log'[g][i].rev > game[g].rev

(* A row only moves to later revisions, and takes one for every new event. *)
RowFollows(g) ==
  Exists(g) =>
    /\ Exists(g)' /\ game'[g].rev \in Nat /\ game'[g].rev >= game[g].rev
    /\ game'[g].rev = game[g].rev => log'[g] = log[g]

(* What was read up to a revision is still read so.                        *)
LEMMA ReadsKept ==
  ASSUME Typed, NEW g \in GameIds, Exists(g), LogGrows(g), NEW rev \in Nat, rev <= game[g].rev
  PROVE  /\ EventsUpTo(g, rev)' = EventsUpTo(g, rev)
         /\ Over(g, EventsUpTo(g, rev))' = Over(g, EventsUpTo(g, rev))
<1>1. /\ game[g] \in Row /\ game[g].rev \in Nat
      /\ \A i \in DOMAIN log[g] : log[g][i].rev \in Nat
  BY RowTyped, ConstantsAssumption DEF Row
<1>2. EventsUpTo(g, rev)' = EventsUpTo(g, rev)
  BY <1>1 DEF EventsUpTo, LogGrows
<1>3. EventsUpTo(g, rev) \subseteq DOMAIN log[g]
  BY DEF EventsUpTo
<1>4. Over(g, EventsUpTo(g, rev))' <=> Over(g, EventsUpTo(g, rev))
  BY <1>2, <1>3 DEF Over, LogGrows
<1>. QED
  BY <1>2, <1>4 DEF Over

(* A handler that does nothing in a step is as sound as before.            *)
LEMMA HandlerKept ==
  ASSUME Typed, NEW h \in Handlers, HandlerSound(h), handler'[h] = handler[h],
         \A g \in GameIds : LogGrows(g) /\ RowFollows(g)
  PROVE  HandlerSound(h)'
<1>. SUFFICES ASSUME Step(h) # "idle"
              PROVE  HandlerSound(h)'
  BY DEF HandlerSound, Step
<1>a. PICK t \in Task : t = handler[h]
  BY InFlight
<1>b. PICK g \in GameIds : g = Target(h)
  BY InFlight
<1>c. /\ t.game = g /\ t.rev \in Nat /\ Step(h) = t.step
      /\ Step(h)' = t.step /\ Target(h)' = g /\ handler'[h] = t
  BY <1>a, <1>b, ConstantsAssumption DEF Step, Target, Task
<1>1. /\ Exists(g) /\ game[g] \in Row /\ game[g].rev \in Nat /\ t.rev <= game[g].rev
  BY <1>a, <1>b, RowTyped, ConstantsAssumption DEF HandlerSound, Row
<1>2. /\ LogGrows(g) /\ Exists(g)' /\ game'[g].rev \in Nat /\ game'[g].rev >= game[g].rev
      /\ game'[g].rev = game[g].rev => log'[g] = log[g]
  BY <1>1 DEF RowFollows
<1>3. ASSUME t.step \in {"view", "lookup", "replay"}
      PROVE  /\ t.row \in Row
             /\ t.row.rev <= game'[g].rev
             /\ Sound(Target(h), handler[h].row, EventsFor(h))'
  <2>1. PICK row \in Row : row = t.row
    BY <1>a, <1>c, <1>3 DEF HandlerSound
  <2>2. /\ row.rev \in Nat /\ row.rev <= game[g].rev
        /\ Sound(g, row, EventsUpTo(g, row.rev))
    BY <1>a, <1>b, <1>c, <1>3, <2>1, ConstantsAssumption DEF HandlerSound, Row, EventsFor
  <2>3. PICK rev \in Nat : rev = row.rev
    BY <2>2
  <2>4. /\ EventsUpTo(g, rev)' = EventsUpTo(g, rev)
        /\ Over(g, EventsUpTo(g, rev))' = Over(g, EventsUpTo(g, rev))
    BY <1>1, <1>2, <2>2, <2>3, ReadsKept
  <2>5. Sound(g, row, EventsUpTo(g, rev))'
    BY <2>2, <2>3, <2>4 DEF Sound
  <2>6. EventsFor(h)' = EventsUpTo(g, rev)'
    BY <1>c, <2>1, <2>3 DEF EventsFor
  <2>7. Sound(Target(h), handler[h].row, EventsFor(h))'
    BY <1>c, <2>1, <2>5, <2>6 DEF Sound
  <2>. QED
    BY <1>1, <1>2, <2>1, <2>2, <2>7
<1>4. /\ t.step # "view" => t.key \in MoveKeys
      /\ t.step \in {"replay", "commit"} /\ game[g].rev = t.rev => Uses(g, t.key) = {}
      /\ t.step = "echo" => Uses(g, t.key) # {}
  BY <1>a, <1>b, <1>c DEF HandlerSound
<1>5. t.step \in {"replay", "commit"} /\ game'[g].rev = t.rev => Uses(g, t.key)' = {}
  <2>. SUFFICES ASSUME t.step \in {"replay", "commit"}, game'[g].rev = t.rev
                PROVE  Uses(g, t.key)' = {}
    OBVIOUS
  <2>1. game'[g].rev = game[g].rev
    BY <1>1, <1>2, <1>c
  <2>. QED
    BY <1>2, <1>4, <2>1 DEF Uses
<1>6. t.step = "echo" => Uses(g, t.key)' # {}
  BY <1>2, <1>4 DEF Uses, LogGrows
<1>7. t.rev <= game'[g].rev
  BY <1>1, <1>2, <1>c
<1>. QED
  BY <1>c, <1>2, <1>3, <1>4, <1>5, <1>6, <1>7 DEF HandlerSound, Uses

-----------------------------------------------------------------------------
(* Frames.                                                                 *)

(* While the logs stay, what was acknowledged stays true of them.          *)
LEMMA LogsStay ==
  ASSUME Typed, log' = log, acked' = acked, MovesCountOnce, AcksSound
  PROVE  MovesCountOnce' /\ AcksSound'
<1>1. MovesCountOnce'
  BY DEF MovesCountOnce
<1>2. ASSUME NEW g \in GameIds, NEW k \in MoveKeys, NEW i \in Uses(g, k)
      PROVE  /\ acked[g][k] # None
             /\ acked[g][k].rev = log[g][i].rev
             /\ acked[g][k].status =
                  IF Over(g, EventsUpTo(g, log[g][i].rev))' THEN "completed" ELSE "playing"
  <2>1. EventsUpTo(g, log[g][i].rev)' = EventsUpTo(g, log[g][i].rev)
    BY DEF EventsUpTo
  <2>2. Over(g, EventsUpTo(g, log[g][i].rev))' <=> Over(g, EventsUpTo(g, log[g][i].rev))
    BY <2>1 DEF Over
  <2>. QED
    BY <1>2, <2>2 DEF AcksSound, AckSound
<1>3. AcksSound'
  BY <1>2 DEF AcksSound, AckSound, Uses
<1>. QED
  BY <1>1, <1>3

(* A step of one handler that writes nothing.                              *)
LEMMA ReadStep ==
  ASSUME GamesInv, NEW h \in Handlers, ReadOnly,
         handler' \in [Handlers -> {Idle} \cup Task],
         \A g \in Handlers \ {h} : handler'[g] = handler[g],
         HandlerSound(h)'
  PROVE  GamesInv'
<1>1. /\ game' = game /\ log' = log /\ starts' = starts /\ used' = used /\ latest' = latest
      /\ acked' = acked
  BY DEF ReadOnly, Kept
<1>2. Typed'
  BY <1>1 DEF GamesInv, Typed
<1>3. CurrentIsNewest' /\ LogsBehind' /\ ReplaysCountOnce' /\ IsFiniteSet(Started)'
  BY <1>1 DEF GamesInv, CurrentIsNewest, LogsBehind, ReplaysCountOnce, Started, Exists
<1>4. RowsMatchReplay'
  BY <1>1 DEF GamesInv, RowsMatchReplay, Sound, Over, Exists
<1>5. MovesCountOnce' /\ AcksSound'
  BY <1>1, LogsStay DEF GamesInv
<1>6. \A g \in GameIds : LogGrows(g) /\ RowFollows(g)
  <2>. SUFFICES ASSUME NEW g \in GameIds
                PROVE  LogGrows(g) /\ RowFollows(g)
    OBVIOUS
  <2>1. Exists(g) => game[g].rev \in Nat
    BY RowTyped, ConstantsAssumption DEF GamesInv, Row
  <2>. QED
    BY <1>1, <2>1 DEF LogGrows, RowFollows, Exists
<1>7. HandlersSound'
  BY <1>6, HandlerKept DEF GamesInv, HandlersSound
<1>. QED
  BY <1>2, <1>3, <1>4, <1>5, <1>7 DEF GamesInv

(* A handler ends.                                                         *)
LEMMA EndStep ==
  ASSUME GamesInv, NEW h \in Handlers, ReadOnly, Finish(h)
  PROVE  GamesInv'
<1>1. /\ handler' \in [Handlers -> {Idle} \cup Task] /\ handler'[h].step = "idle"
      /\ \A g \in Handlers \ {h} : handler'[g] = handler[g]
  BY DEF Finish, GamesInv, Typed, Idle
<1>. QED
  BY <1>1, ReadStep DEF HandlerSound, Step

(* Rows are rewritten, and still are what their logs replay to.            *)
LEMMA RowsStep ==
  ASSUME GamesInv, game' \in [GameIds -> Row \cup {None}],
         \A g \in GameIds : Exists(g) => Exists(g)' /\ game'[g].rev >= game[g].rev,
         \A g \in GameIds : Exists(g)' => Sound(g, game'[g], DOMAIN log[g]),
         UNCHANGED <<log, acked, handler>>
  PROVE  RowsMatchReplay' /\ LogsBehind' /\ MovesCountOnce' /\ AcksSound' /\ HandlersSound'
<1>1. log' = log /\ acked' = acked /\ handler' = handler
  OBVIOUS
<1>2. \A g \in GameIds :
        /\ Exists(g) => game[g].rev \in Nat
        /\ Exists(g)' => game'[g].rev \in Nat
        /\ \A i \in DOMAIN log[g] : log[g][i].rev \in Nat
  <2>. SUFFICES ASSUME NEW g \in GameIds
                PROVE  /\ Exists(g) => game[g].rev \in Nat
                       /\ Exists(g)' => game'[g].rev \in Nat
                       /\ \A i \in DOMAIN log[g] : log[g][i].rev \in Nat
    OBVIOUS
  <2>1. (Exists(g) => game[g] \in Row) /\ (Exists(g)' => game'[g] \in Row)
    BY DEF Exists, GamesInv, Typed
  <2>2. \A row \in Row : row.rev \in Nat
    BY ConstantsAssumption DEF Row
  <2>. QED
    BY <2>1, <2>2, RowTyped DEF GamesInv
<1>3. RowsMatchReplay'
  <2>1. ASSUME NEW g \in GameIds, ~Exists(g)'
        PROVE  log'[g] = <<>>
    BY <1>1, <2>1 DEF GamesInv, RowsMatchReplay
  <2>2. ASSUME NEW g \in GameIds, Exists(g)'
        PROVE  Sound(g, game[g], DOMAIN log[g])'
    BY <1>1, <2>2 DEF Sound, Over
  <2>. QED
    BY <2>1, <2>2 DEF RowsMatchReplay
<1>4. LogsBehind'
  <2>. SUFFICES ASSUME NEW g \in GameIds, Exists(g)', NEW i \in DOMAIN log[g]
                PROVE  log[g][i].rev <= game'[g].rev
    BY <1>1 DEF LogsBehind
  <2>1. CASE Exists(g)
    BY <1>2, <2>1 DEF GamesInv, LogsBehind
  <2>2. CASE ~Exists(g)
    BY <2>2 DEF GamesInv, RowsMatchReplay
  <2>. QED
    BY <2>1, <2>2
<1>5. MovesCountOnce' /\ AcksSound'
  BY <1>1, LogsStay DEF GamesInv
<1>6. \A g \in GameIds : LogGrows(g) /\ RowFollows(g)
  BY <1>1, <1>2 DEF LogGrows, RowFollows
<1>7. HandlersSound'
  BY <1>1, <1>6, HandlerKept DEF GamesInv, HandlersSound
<1>. QED
  BY <1>3, <1>4, <1>5, <1>7

-----------------------------------------------------------------------------
(* Writes of one statement.                                                *)

LEMMA GamesInit == Init => GamesInv
<1>. SUFFICES ASSUME Init
              PROVE  GamesInv
  OBVIOUS
<1>1. Typed
  BY ConstantsAssumption DEF Init, Typed
<1>2. \A g \in GameIds : ~Exists(g) /\ log[g] = <<>>
  BY DEF Init, Exists
<1>3. CurrentIsNewest /\ RowsMatchReplay /\ LogsBehind
  BY <1>2 DEF CurrentIsNewest, RowsMatchReplay, LogsBehind
<1>4. MovesCountOnce /\ AcksSound
  BY <1>2 DEF MovesCountOnce, AcksSound, AckSound, Uses, Init
<1>5. Started = {} /\ {k \in GameIds : starts[k] # None} = {} /\ used = 0
  BY DEF Init, Started
<1>6. ReplaysCountOnce /\ IsFiniteSet(Started)
  BY <1>5, FS_EmptySet DEF ReplaysCountOnce
<1>7. HandlersSound
  BY DEF Init, HandlersSound, HandlerSound, Step, Idle
<1>. QED
  BY <1>1, <1>3, <1>4, <1>6, <1>7 DEF GamesInv

(* One row goes to its next revision.                                      *)
LEMMA WriteStep ==
  ASSUME GamesInv, NEW g \in GameIds, Exists(g), NEW row \in Row,
         game' = [game EXCEPT ![g] = row],
         row.rev = game[g].rev + 1, row.source = game[g].source,
         row.current => game[g].current, Sound(g, row, DOMAIN log[g]),
         UNCHANGED <<Kept, handler>>
  PROVE  GamesInv'
<1>1. /\ log' = log /\ starts' = starts /\ used' = used /\ latest' = latest
      /\ acked' = acked /\ handler' = handler
  BY DEF Kept
<1>2. /\ game' \in [GameIds -> Row \cup {None}] /\ game'[g] = row
      /\ \A x \in GameIds \ {g} : game'[x] = game[x]
  BY DEF GamesInv, Typed
<1>3. row # None /\ Exists(g)'
  BY <1>2, ConstantsAssumption DEF Exists
<1>4. \A x \in GameIds : Exists(x)' <=> Exists(x)
  BY <1>2, <1>3 DEF Exists
<1>5. \A x \in GameIds : Exists(x) => game[x].rev \in Nat
  BY RowTyped, ConstantsAssumption DEF GamesInv, Row
<1>6. \A x \in GameIds : Exists(x) => Exists(x)' /\ game'[x].rev >= game[x].rev
  BY <1>2, <1>4, <1>5
<1>7. \A x \in GameIds : Exists(x)' => Sound(x, game'[x], DOMAIN log[x])
  BY <1>2, <1>4 DEF GamesInv, RowsMatchReplay
<1>8. RowsMatchReplay' /\ LogsBehind' /\ MovesCountOnce' /\ AcksSound' /\ HandlersSound'
  BY <1>1, <1>2, <1>6, <1>7, RowsStep
<1>9. Typed'
  BY <1>1, <1>2 DEF GamesInv, Typed
<1>10. CurrentIsNewest'
  BY <1>1, <1>2, <1>4 DEF GamesInv, CurrentIsNewest
<1>11. ReplaysCountOnce' /\ IsFiniteSet(Started)'
  <2>1. \A x \in GameIds : starts[x] # None =>
          Exists(x) /\ game[x].source = starts[x].source
    BY DEF GamesInv, ReplaysCountOnce
  <2>2. \A x \in GameIds : starts[x] # None =>
          Exists(x)' /\ game'[x].source = starts[x].source
    BY <1>2, <1>4, <2>1
  <2>3. used = Cardinality({k \in GameIds : starts[k] # None})
    BY DEF GamesInv, ReplaysCountOnce
  <2>. QED
    BY <1>1, <2>2, <2>3 DEF GamesInv, ReplaysCountOnce, Started
<1>. QED
  BY <1>8, <1>9, <1>10, <1>11 DEF GamesInv

(* Put, with what else the statement sets.                                 *)
LEMMA PutRow ==
  ASSUME GamesInv, NEW g \in GameIds, Exists(g), game[g].rev < MaxRevision,
         NEW status \in Statuses
  PROVE  /\ game[g] \in Row
         /\ [game[g] EXCEPT !.status = status, !.rev = @ + 1] \in Row
         /\ Put(g, status) =
              [game EXCEPT ![g] = [game[g] EXCEPT !.status = status, !.rev = @ + 1]]
<1>1. game[g] \in Row
  BY RowTyped DEF GamesInv
<1>2. [game[g] EXCEPT !.status = status, !.rev = @ + 1] \in Row
  <2>1. game[g].rev + 1 \in 0..MaxRevision
    BY <1>1, ConstantsAssumption DEF Row
  <2>. QED
    BY <1>1, <2>1 DEF Row
<1>. QED
  BY <1>1, <1>2 DEF Put

LEMMA Writes ==
  ASSUME GamesInv, NEW g \in GameIds, NEW rev \in 0..MaxRevision, Write(g, rev)
  PROVE  GamesInv'
<1>1. Exists(g) /\ game[g].rev < MaxRevision
  BY DEF Write, FinishDivision, FailDivision, StartGame, BeginAnswer, FailAnswer, AbandonGame,
         StoreAnswer, Matches
<1>2. game[g] \in Row /\ Sound(g, game[g], DOMAIN log[g])
  BY <1>1, RowTyped DEF GamesInv, RowsMatchReplay
<1>3. ASSUME NEW status \in Statuses, game' = Put(g, status), UNCHANGED <<Kept, handler>>,
             \/ Status(g) = "dividing" /\ status \in {"mapped", "division_failed"}
             \/ Status(g) = "mapped" /\ status = "playing"
             \/ Status(g) \in Terminal /\ status \in Terminal
      PROVE  GamesInv'
  <2>. DEFINE row == [game[g] EXCEPT !.status = status, !.rev = @ + 1]
  <2>1. /\ row \in Row /\ row.status = status /\ row.rev = game[g].rev + 1
        /\ row.source = game[g].source /\ row.current = game[g].current
        /\ row.ended = game[g].ended /\ game' = [game EXCEPT ![g] = row]
    BY <1>1, <1>2, <1>3, PutRow DEF Row
  <2>. HIDE DEF row
  <2>2. DOMAIN log[g] = {} => ~Over(g, DOMAIN log[g])
    BY DEF Over
  <2>3. Sound(g, row, DOMAIN log[g])
    BY <1>2, <1>3, <2>1, <2>2 DEF Sound, Status, Terminal
  <2>. QED
    BY <1>1, <1>3, <2>1, <2>3, WriteStep
<1>4. CASE FinishDivision(g, rev) \/ FailDivision(g, rev) \/ StartGame(g, rev)
             \/ BeginAnswer(g, rev) \/ FailAnswer(g, rev)
  <2>1. {"mapped", "division_failed", "playing", "answering", "answer_failed"} \subseteq Statuses
    BY DEF Statuses
  <2>. QED
    BY <1>3, <1>4, <2>1
       DEF FinishDivision, FailDivision, StartGame, BeginAnswer, FailAnswer, Matches, Terminal
<1>5. ASSUME NEW a \in Answers, StoreAnswer(g, rev, a)
      PROVE  GamesInv'
  <2>. DEFINE put == [game[g] EXCEPT !.status = "answered", !.rev = @ + 1]
              row == [put EXCEPT !.answer = a]
  <2>1. put \in Row /\ game' = [[game EXCEPT ![g] = put] EXCEPT ![g].answer = a]
    BY <1>1, <1>5, PutRow DEF StoreAnswer, Statuses
  <2>2. /\ put.status = "answered" /\ put.rev = game[g].rev + 1
        /\ put.source = game[g].source /\ put.current = game[g].current
        /\ put.ended = game[g].ended
    BY <1>2 DEF Row
  <2>3. game' = [game EXCEPT ![g] = row]
    BY <2>1 DEF GamesInv, Typed
  <2>. HIDE DEF put
  <2>4. /\ row \in Row /\ row.status = "answered" /\ row.rev = game[g].rev + 1
        /\ row.source = game[g].source /\ row.current = game[g].current
        /\ row.ended = game[g].ended
    BY <2>1, <2>2 DEF Row
  <2>. HIDE DEF row
  <2>5. Sound(g, row, DOMAIN log[g])
    BY <1>2, <1>5, <2>4 DEF Sound, Status, Terminal, StoreAnswer, Matches
  <2>. QED
    BY <1>1, <1>5, <2>3, <2>4, <2>5, WriteStep DEF StoreAnswer
<1>6. CASE AbandonGame(g, rev)
  <2>. DEFINE put == [game[g] EXCEPT !.status = "abandoned", !.rev = @ + 1]
              row == [put EXCEPT !.current = FALSE]
  <2>1. put \in Row /\ game' = [[game EXCEPT ![g] = put] EXCEPT ![g].current = FALSE]
    BY <1>1, <1>6, PutRow DEF AbandonGame, Statuses
  <2>2. /\ put.status = "abandoned" /\ put.rev = game[g].rev + 1
        /\ put.source = game[g].source /\ put.ended = game[g].ended
    BY <1>2 DEF Row
  <2>3. game' = [game EXCEPT ![g] = row]
    BY <2>1 DEF GamesInv, Typed
  <2>. HIDE DEF put
  <2>4. /\ row \in Row /\ row.status = "abandoned" /\ row.rev = game[g].rev + 1
        /\ row.source = game[g].source /\ row.current = FALSE
        /\ row.ended = game[g].ended
    BY <2>1, <2>2 DEF Row
  <2>. HIDE DEF row
  <2>5. Sound(g, row, DOMAIN log[g])
    BY <1>2, <2>4 DEF Sound, Terminal
  <2>. QED
    BY <1>1, <1>6, <2>3, <2>4, <2>5, WriteStep DEF AbandonGame
<1>. QED
  BY <1>4, <1>5, <1>6 DEF Write

(* A new game is the current one, and every other game of the owner stops  *)
(* being that.                                                             *)
LEMMA StartStep ==
  ASSUME GamesInv, NEW g \in GameIds, ~Exists(g), NEW row \in Row,
         game' = [Retired(game) EXCEPT ![g] = row], latest' = g,
         row.status \in {"dividing", "mapped"}, row.ended = FALSE,
         \/ starts' = starts /\ used' = used
         \/ \E source \in GameIds, rev \in 0..MaxRevision :
              /\ starts[g] = None /\ starts' = [starts EXCEPT ![g] = [source |-> source, rev |-> rev]]
              /\ used' = used + 1 /\ used < DailyGames /\ row.source = source,
         UNCHANGED <<log, acked, handler>>
  PROVE  GamesInv'
<1>1. \A x \in GameIds : Exists(x) => game[x] \in Row
  BY RowTyped DEF GamesInv
<1>2. Retired(game) \in [GameIds -> Row \cup {None}]
  BY <1>1 DEF Retired, Row, Exists
<1>3. /\ game' \in [GameIds -> Row \cup {None}] /\ game'[g] = row
      /\ \A x \in GameIds \ {g} :
           game'[x] = IF Exists(x) THEN [game[x] EXCEPT !.current = FALSE] ELSE None
  BY <1>2 DEF Retired, Exists
<1>4. \A x \in GameIds \ {g} : Exists(x) =>
        /\ game'[x] \in Row /\ game'[x].rev = game[x].rev /\ game'[x].status = game[x].status
        /\ game'[x].source = game[x].source /\ game'[x].ended = game[x].ended
        /\ game'[x].current = FALSE /\ game'[x] # None
  <2>. SUFFICES ASSUME NEW x \in GameIds \ {g}, Exists(x)
                PROVE  /\ game'[x] \in Row /\ game'[x].rev = game[x].rev
                       /\ game'[x].status = game[x].status
                       /\ game'[x].source = game[x].source /\ game'[x].ended = game[x].ended
                       /\ game'[x].current = FALSE /\ game'[x] # None
    OBVIOUS
  <2>1. PICK old \in Row : old = game[x]
    BY <1>1
  <2>. DEFINE new == [old EXCEPT !.current = FALSE]
  <2>2. game'[x] = new
    BY <1>3, <2>1
  <2>3. /\ new \in Row /\ new.rev = old.rev /\ new.status = old.status
        /\ new.source = old.source /\ new.ended = old.ended /\ new.current = FALSE
    BY DEF Row
  <2>. HIDE DEF new
  <2>4. new # None
    BY <2>3, ConstantsAssumption
  <2>. QED
    BY <2>1, <2>2, <2>3, <2>4
<1>5. \A x \in GameIds : Exists(x)' <=> (Exists(x) \/ x = g)
  BY <1>3, <1>4, ConstantsAssumption DEF Exists
<1>6. \A x \in GameIds : Exists(x) => Exists(x)' /\ game'[x].rev >= game[x].rev
  <2>1. \A x \in GameIds : Exists(x) => game[x].rev \in Nat
    BY <1>1, ConstantsAssumption DEF Row
  <2>. QED
    BY <1>4, <1>5, <2>1
<1>7. \A x \in GameIds : Exists(x)' => Sound(x, game'[x], DOMAIN log[x])
  <2>1. DOMAIN log[g] = {} /\ ~Over(g, {})
    BY DEF GamesInv, RowsMatchReplay, Over
  <2>2. Sound(g, row, DOMAIN log[g])
    <3>1. Over(g, DOMAIN log[g]) = FALSE /\ DOMAIN log[g] = {}
      BY <2>1 DEF Over
    <3>2. row.status \notin Terminal /\ row.status # "playing"
      BY DEF Terminal
    <3>. QED
      BY <3>1, <3>2 DEF Sound
  <2>3. ASSUME NEW x \in GameIds \ {g}, Exists(x)
        PROVE  Sound(x, game'[x], DOMAIN log[x])
    BY <1>4, <2>3 DEF GamesInv, RowsMatchReplay, Sound
  <2>. QED
    BY <1>3, <1>5, <2>2, <2>3
<1>8. RowsMatchReplay' /\ LogsBehind' /\ MovesCountOnce' /\ AcksSound' /\ HandlersSound'
  BY <1>3, <1>6, <1>7, RowsStep
<1>9. CurrentIsNewest'
  BY <1>3, <1>4, <1>5 DEF CurrentIsNewest
<1>10. starts' = starts /\ used' = used =>
         Typed' /\ ReplaysCountOnce' /\ IsFiniteSet(Started)'
  <2>. SUFFICES ASSUME starts' = starts, used' = used
                PROVE  Typed' /\ ReplaysCountOnce' /\ IsFiniteSet(Started)'
    OBVIOUS
  <2>1. Typed'
    BY <1>3 DEF GamesInv, Typed
  <2>2. \A x \in GameIds : starts[x] # None =>
          x # g /\ Exists(x) /\ game[x].source = starts[x].source
    BY DEF GamesInv, ReplaysCountOnce
  <2>3. \A x \in GameIds : starts[x] # None =>
          Exists(x)' /\ game'[x].source = starts[x].source
    BY <1>4, <1>5, <2>2
  <2>4. used = Cardinality({k \in GameIds : starts[k] # None})
    BY DEF GamesInv, ReplaysCountOnce
  <2>. QED
    BY <2>1, <2>3, <2>4 DEF GamesInv, ReplaysCountOnce, Started
<1>11. ASSUME NEW source \in GameIds, NEW rev \in 0..MaxRevision, starts[g] = None,
              starts' = [starts EXCEPT ![g] = [source |-> source, rev |-> rev]],
              used' = used + 1, used < DailyGames, row.source = source
       PROVE  Typed' /\ ReplaysCountOnce' /\ IsFiniteSet(Started)'
  <2>. DEFINE start == [source |-> source, rev |-> rev]
  <2>1. start \in Start /\ start # None /\ start.source = source
    BY ConstantsAssumption DEF Start
  <2>. HIDE DEF start
  <2>2. /\ starts' \in [GameIds -> Start \cup {None}] /\ starts'[g] = start
        /\ \A x \in GameIds \ {g} : starts'[x] = starts[x]
    BY <1>11, <2>1 DEF GamesInv, Typed, start
  <2>3. used' \in 0..DailyGames
    BY <1>11, ConstantsAssumption DEF GamesInv, Typed
  <2>4. Typed'
    BY <1>3, <2>2, <2>3 DEF GamesInv, Typed
  <2>5. Started' = Started \cup {g} /\ g \notin Started
    BY <1>11, <2>1, <2>2 DEF Started
  <2>6. IsFiniteSet(Started) /\ used = Cardinality(Started)
    BY DEF GamesInv, ReplaysCountOnce, Started
  <2>7. IsFiniteSet(Started') /\ Cardinality(Started') = used + 1
    BY <2>5, <2>6, FS_AddElement
  <2>8. \A x \in GameIds \ {g} : starts[x] # None =>
          Exists(x) /\ game[x].source = starts[x].source
    BY DEF GamesInv, ReplaysCountOnce
  <2>9. \A x \in GameIds : starts'[x] # None =>
          Exists(x)' /\ game'[x].source = starts'[x].source
    BY <1>3, <1>4, <1>5, <1>11, <2>1, <2>2, <2>8
  <2>10. ReplaysCountOnce'
    BY <1>11, <2>7, <2>9 DEF ReplaysCountOnce, Started
  <2>. QED
    BY <2>4, <2>7, <2>10
<1>. QED
  BY <1>8, <1>9, <1>10, <1>11 DEF GamesInv

LEMMA CreateStep ==
  ASSUME GamesInv, NEW g \in GameIds, CreateDivision(g)
  PROVE  GamesInv'
<1>. DEFINE row == Shell(None)
<1>1. /\ row \in Row /\ row.status = "dividing" /\ row.ended = FALSE
  BY ConstantsAssumption DEF Shell, Row, Statuses
<1>2. game' = [Retired(game) EXCEPT ![g] = row]
  BY DEF CreateDivision
<1>. HIDE DEF row
<1>. QED
  BY <1>1, <1>2, StartStep DEF CreateDivision

(* A repeated replay finds its child, and changes nothing.                 *)
LEMMA ReplayRepeated ==
  ASSUME GamesInv, NEW k \in GameIds, NEW g \in GameIds, NEW rev \in 0..MaxRevision,
         ReplayGame(k, g, rev), Exists(k)
  PROVE  UNCHANGED vars
<1>1. /\ starts[k] \in Start /\ starts[k] # None /\ starts[k].source = g /\ starts[k].rev = rev
  BY DEF ReplayGame, SameStart, GamesInv, Typed
<1>2. starts[k] = [source |-> g, rev |-> rev]
  BY <1>1 DEF Start
<1>3. starts' = starts
  BY <1>2 DEF ReplayGame, GamesInv, Typed
<1>4. used' = used
  BY <1>1 DEF ReplayGame, Charge, GamesInv, Typed
<1>. QED
  BY <1>1, <1>3, <1>4 DEF ReplayGame, Pending, vars

LEMMA ReplayStep ==
  ASSUME GamesInv, NEW k \in GameIds, NEW g \in GameIds, NEW rev \in 0..MaxRevision,
         ReplayGame(k, g, rev), ~Exists(k)
  PROVE  GamesInv'
<1>. DEFINE row == [[Shell(g) EXCEPT !.status = "mapped"] EXCEPT !.current = TRUE]
<1>1. /\ row \in Row /\ row.status = "mapped" /\ row.ended = FALSE /\ row.source = g
  <2>1. PICK shell \in Row :
          shell = Shell(g) /\ shell.ended = FALSE /\ shell.source = g
    <3>. DEFINE shell == Shell(g)
    <3>1. shell \in Row /\ shell.ended = FALSE /\ shell.source = g
      BY ConstantsAssumption DEF Shell, Row, Statuses
    <3>. QED
      BY <3>1
  <2>2. PICK child \in Row : /\ child = [Shell(g) EXCEPT !.status = "mapped"]
                             /\ child.status = "mapped" /\ child.ended = FALSE /\ child.source = g
    <3>. DEFINE child == [shell EXCEPT !.status = "mapped"]
    <3>1. /\ child \in Row /\ child.status = "mapped" /\ child.ended = FALSE /\ child.source = g
      BY <2>1 DEF Row, Statuses
    <3>. QED
      BY <2>1, <3>1
  <2>3. row = [child EXCEPT !.current = TRUE]
    BY <2>2
  <2>. HIDE DEF row
  <2>. QED
    BY <2>2, <2>3 DEF Row
<1>2. starts[k] = None /\ used < DailyGames
  BY DEF ReplayGame, Replayable
<1>3. game' = [Retired(game) EXCEPT ![k] = row] /\ latest' = k
  BY <1>2 DEF ReplayGame, Pending, Child
<1>4. starts' = [starts EXCEPT ![k] = [source |-> g, rev |-> rev]] /\ used' = used + 1
  BY <1>2 DEF ReplayGame, Charge
<1>5. UNCHANGED <<log, acked, handler>>
  BY DEF ReplayGame
<1>. HIDE DEF row
<1>. QED
  BY <1>1, <1>2, <1>3, <1>4, <1>5, StartStep

-----------------------------------------------------------------------------
(* Handlers that read.                                                     *)

(* A handler that opens, with a copy that fits the log.                    *)
LEMMA OpenStep ==
  ASSUME GamesInv, NEW h \in Handlers, ReadOnly, NEW g \in GameIds, Exists(g), NEW t \in Task,
         handler' = [handler EXCEPT ![h] = t], t.game = g, t.rev <= game[g].rev,
         \/ t.step = "view" /\ t.row = game[g]
         \/ t.step = "lookup" /\ t.row = game[g] /\ t.key \in MoveKeys
         \/ t.step = "echo" /\ t.key \in MoveKeys /\ Uses(g, t.key) # {}
  PROVE  GamesInv'
<1>1. /\ handler' \in [Handlers -> {Idle} \cup Task] /\ handler'[h] = t
      /\ \A x \in Handlers \ {h} : handler'[x] = handler[x]
  BY DEF GamesInv, Typed
<1>2. game' = game /\ log' = log
  BY DEF ReadOnly, Kept
<1>3. game[g] \in Row /\ game[g].rev \in Nat
  BY RowTyped, ConstantsAssumption DEF GamesInv, Row
<1>4. EventsUpTo(g, game[g].rev) = DOMAIN log[g] /\ Sound(g, game[g], DOMAIN log[g])
  BY WholeLog DEF GamesInv, RowsMatchReplay
<1>5. t.row = game[g] => Sound(Target(h), handler[h].row, EventsFor(h))'
  <2>. SUFFICES ASSUME t.row = game[g]
                PROVE  Sound(Target(h), handler[h].row, EventsFor(h))'
    OBVIOUS
  <2>1. EventsFor(h)' = DOMAIN log[g] /\ Target(h)' = g /\ handler'[h].row = game[g]
    BY <1>1, <1>2, <1>4 DEF EventsFor, EventsUpTo, Target
  <2>. QED
    BY <1>2, <1>4, <2>1 DEF Sound, Over
<1>6. HandlerSound(h)'
  BY <1>1, <1>2, <1>3, <1>5 DEF HandlerSound, Step, Target, Uses, Exists
<1>. QED
  BY <1>1, <1>6, ReadStep

LEMMA Opens ==
  ASSUME GamesInv, NEW h \in Handlers, NEW g \in GameIds,
         \/ OpenView(h, g)
         \/ \E k \in MoveKeys : OpenMove(h, g, k) \/ OpenRepeat(h, g, k)
  PROVE  GamesInv'
<1>1. ASSUME Exists(g)
      PROVE  game[g] \in Row /\ game[g].rev \in 0..MaxRevision /\ 0 \in 0..MaxRevision
             /\ 0 <= game[g].rev /\ game[g].rev <= game[g].rev
  BY <1>1, RowTyped, ConstantsAssumption DEF GamesInv, Row
<1>2. CASE OpenView(h, g)
  <2>. DEFINE t == [step |-> "view", game |-> g, key |-> None, rev |-> 0, row |-> game[g]]
  <2>1. Exists(g) /\ ReadOnly /\ handler' = [handler EXCEPT ![h] = t]
    BY <1>2 DEF OpenView
  <2>2. /\ t \in Task /\ t.step = "view" /\ t.game = g /\ t.rev = 0 /\ t.row = game[g]
    BY <1>1, <2>1 DEF Task
  <2>. HIDE DEF t
  <2>. QED
    BY <1>1, <2>1, <2>2, OpenStep
<1>3. ASSUME NEW k \in MoveKeys, OpenMove(h, g, k)
      PROVE  GamesInv'
  <2>. DEFINE t == [step |-> "lookup", game |-> g, key |-> k, rev |-> game[g].rev, row |-> game[g]]
  <2>1. Exists(g) /\ ReadOnly /\ handler' = [handler EXCEPT ![h] = t]
    BY <1>3 DEF OpenMove
  <2>2. /\ t \in Task /\ t.step = "lookup" /\ t.game = g /\ t.rev = game[g].rev
        /\ t.row = game[g] /\ t.key = k
    BY <1>1, <2>1 DEF Task
  <2>. HIDE DEF t
  <2>. QED
    BY <1>1, <2>1, <2>2, OpenStep
<1>4. ASSUME NEW k \in MoveKeys, OpenRepeat(h, g, k)
      PROVE  GamesInv'
  <2>. DEFINE t == [step |-> "echo", game |-> g, key |-> k, rev |-> Use(g, k).rev - 1, row |-> None]
  <2>1. Uses(g, k) # {} /\ ReadOnly /\ handler' = [handler EXCEPT ![h] = t]
    BY <1>4 DEF OpenRepeat
  <2>2. PICK i \in DOMAIN log[g] : Use(g, k) = log[g][i]
    BY <2>1 DEF Use, Uses
  <2>3. Exists(g)
    BY <2>2 DEF GamesInv, RowsMatchReplay
  <2>4. Use(g, k).rev \in 1..MaxRevision /\ Use(g, k).rev <= game[g].rev
    <3>1. log[g][i] \in Event /\ log[g][i].rev <= game[g].rev
      BY <2>3, RowTyped DEF GamesInv, LogsBehind
    <3>. QED
      BY <2>2, <3>1 DEF Event
  <2>5. Use(g, k).rev - 1 \in 0..MaxRevision /\ Use(g, k).rev - 1 <= game[g].rev
    BY <1>1, <2>3, <2>4, ConstantsAssumption
  <2>6. /\ t \in Task /\ t.step = "echo" /\ t.game = g /\ t.rev = Use(g, k).rev - 1 /\ t.key = k
    BY <2>5 DEF Task
  <2>. HIDE DEF t
  <2>. QED
    BY <2>1, <2>3, <2>5, <2>6, OpenStep
<1>. QED
  BY <1>2, <1>3, <1>4

(* A handler that goes on keeps what it still needs.                       *)
LEMMA GoOnStep ==
  ASSUME GamesInv, NEW h \in Handlers, ReadOnly, Step(h) # "idle", Step(h) # "view",
         NEW t \in Task, handler' = [handler EXCEPT ![h] = t],
         t.game = Target(h), t.key = handler[h].key, t.rev = handler[h].rev,
         \/ /\ t.step = "replay" /\ Step(h) = "lookup" /\ t.row = handler[h].row
            /\ Uses(Target(h), handler[h].key) = {}
         \/ t.step = "commit" /\ Step(h) = "replay"
         \/ t.step = "raced"
         \/ t.step = "echo" /\ Uses(Target(h), handler[h].key) # {}
  PROVE  GamesInv'
<1>1. /\ handler' \in [Handlers -> {Idle} \cup Task] /\ handler'[h] = t
      /\ \A x \in Handlers \ {h} : handler'[x] = handler[x]
  BY DEF GamesInv, Typed
<1>2. game' = game /\ log' = log
  BY DEF ReadOnly, Kept
<1>3. HandlerSound(h)
  BY DEF GamesInv, HandlersSound
<1>4. Target(h)' = Target(h) /\ handler'[h].key = handler[h].key /\ Step(h)' = t.step
      /\ handler'[h].rev = handler[h].rev
  BY <1>1 DEF Target, Step
<1>5. Uses(Target(h), handler[h].key)' = Uses(Target(h), handler[h].key)
  BY <1>2, <1>4 DEF Uses
<1>6. t.step = "replay" =>
        /\ handler'[h].row = handler[h].row
        /\ Sound(Target(h), handler[h].row, EventsFor(h))'
  <2>. SUFFICES ASSUME t.step = "replay"
                PROVE  /\ handler'[h].row = handler[h].row
                       /\ Sound(Target(h), handler[h].row, EventsFor(h))'
    OBVIOUS
  <2>1. handler'[h].row = handler[h].row /\ Sound(Target(h), handler[h].row, EventsFor(h))
    BY <1>1, <1>3 DEF HandlerSound
  <2>2. EventsFor(h)' = EventsFor(h)
    BY <1>2, <1>4, <2>1 DEF EventsFor, EventsUpTo
  <2>. QED
    BY <1>2, <1>4, <2>1, <2>2 DEF Sound, Over
<1>7. HandlerSound(h)'
  BY <1>1, <1>2, <1>3, <1>4, <1>5, <1>6 DEF HandlerSound, Exists
<1>. QED
  BY <1>1, <1>7, ReadStep

LEMMA Reads ==
  ASSUME GamesInv, NEW h \in Handlers,
         View(h) \/ LookUp(h) \/ Replay(h) \/ LoseRace(h) \/ LookUpRaced(h) \/ AnswerEcho(h)
  PROVE  GamesInv'
<1>1. ReadOnly
  BY DEF View, LookUp, Replay, LoseRace, LookUpRaced, AnswerEcho
<1>2. CASE Finish(h)
  BY <1>1, <1>2, EndStep
<1>3. ASSUME NEW step \in {"commit", "raced", "echo"}, Goto(h, step),
             Step(h) \in {"lookup", "replay", "commit", "raced"},
             step = "commit" => Step(h) = "replay",
             step = "echo" => Uses(Target(h), handler[h].key) # {}
      PROVE  GamesInv'
  <2>. DEFINE t == [handler[h] EXCEPT !.step = step, !.row = None]
  <2>1. Step(h) # "idle" /\ Step(h) # "view" /\ handler[h] \in Task
    BY <1>3, InFlight DEF GamesInv
  <2>2. handler' = [handler EXCEPT ![h] = t]
    BY <1>3 DEF Goto
  <2>3. /\ t \in Task /\ t.step = step /\ t.game = Target(h) /\ t.key = handler[h].key
        /\ t.rev = handler[h].rev
    BY <2>1 DEF Task, Target
  <2>. HIDE DEF t
  <2>. QED
    BY <1>1, <1>3, <2>1, <2>2, <2>3, GoOnStep
<1>4. CASE LookUp(h)
  <2>1. Step(h) = "lookup"
    BY <1>4 DEF LookUp
  <2>2. CASE Uses(Target(h), handler[h].key) = {}
    <3>. DEFINE t == [handler[h] EXCEPT !.step = "replay"]
    <3>1. Step(h) # "idle" /\ Step(h) # "view" /\ handler[h] \in Task
      BY <2>1, InFlight DEF GamesInv
    <3>2. handler' = [handler EXCEPT ![h] = t]
      <4>. HIDE DEF t
      <4>1. handler' = [handler EXCEPT ![h].step = "replay"]
        BY <1>4, <2>2 DEF LookUp, SameRequest
      <4>. QED
        BY <4>1 DEF t
    <3>3. /\ t \in Task /\ t.step = "replay" /\ t.game = Target(h) /\ t.key = handler[h].key
          /\ t.rev = handler[h].rev /\ t.row = handler[h].row
      BY <3>1 DEF Task, Target
    <3>. HIDE DEF t
    <3>. QED
      BY <1>1, <2>1, <2>2, <3>1, <3>2, <3>3, GoOnStep
  <2>3. CASE Uses(Target(h), handler[h].key) # {}
    <3>1. Goto(h, "echo") \/ Finish(h)
      BY <1>4, <2>3 DEF LookUp
    <3>. QED
      BY <1>2, <1>3, <2>1, <2>3, <3>1
  <2>. QED
    BY <2>2, <2>3
<1>5. CASE Replay(h)
  BY <1>2, <1>3, <1>5 DEF Replay
<1>6. CASE LoseRace(h)
  BY <1>3, <1>6 DEF LoseRace
<1>7. CASE LookUpRaced(h)
  BY <1>2, <1>3, <1>7 DEF LookUpRaced, SameRequest
<1>. QED
  BY <1>2, <1>4, <1>5, <1>6, <1>7 DEF View, AnswerEcho

-----------------------------------------------------------------------------
(* A move.                                                                 *)

(* What a move appends.                                                    *)
LEMMA WhatIsAppended ==
  ASSUME NEW h \in Handlers, NEW result \in Results,
         handler[h].key \in MoveKeys, handler[h].rev \in Nat, handler[h].rev < MaxRevision
  PROVE  LET L == Len(result) IN
         /\ Appended(h, result) \in Seq(Event) /\ Len(Appended(h, result)) = L
         /\ L \in {1, 2} /\ EndsGame(result) \in BOOLEAN /\ result[L] = EndsGame(result)
         /\ \A i \in 1..L :
              /\ Appended(h, result)[i].key = IF i = 1 THEN handler[h].key ELSE None
              /\ Appended(h, result)[i].rev = handler[h].rev + 1
              /\ Appended(h, result)[i].over = result[i]
<1>1. result \in {<<FALSE>>, <<TRUE>>, <<FALSE, FALSE>>, <<FALSE, TRUE>>}
  BY ConstantsAssumption
<1>2. Len(result) \in {1, 2} /\ result[Len(result)] \in BOOLEAN
      /\ \A i \in 1..Len(result) : result[i] \in BOOLEAN
  <2>1. \A a \in BOOLEAN : <<a>> \in Seq(BOOLEAN) /\ Len(<<a>>) = 1
    OBVIOUS
  <2>2. \A a, b \in BOOLEAN : <<a, b>> \in Seq(BOOLEAN) /\ Len(<<a, b>>) = 2
    OBVIOUS
  <2>3. result \in Seq(BOOLEAN) /\ Len(result) \in {1, 2}
    BY <1>1, <2>1, <2>2
  <2>4. \A i \in 1..Len(result) : result[i] \in BOOLEAN
    BY <2>3, ElementOfSeq
  <2>5. Len(result) \in 1..Len(result)
    <3>1. \A n \in {1, 2} : n \in 1..n
      OBVIOUS
    <3>. QED
      BY <2>3, <3>1
  <2>. QED
    BY <2>3, <2>4, <2>5
<1>3. handler[h].rev + 1 \in 1..MaxRevision
  BY ConstantsAssumption
<1>4. ASSUME NEW i \in 1..Len(result)
      PROVE  /\ [key |-> IF i = 1 THEN handler[h].key ELSE None,
                 rev |-> handler[h].rev + 1, over |-> result[i]] \in Event
             /\ Appended(h, result)[i] = [key |-> IF i = 1 THEN handler[h].key ELSE None,
                                          rev |-> handler[h].rev + 1, over |-> result[i]]
  BY <1>2, <1>3 DEF Event, Appended
<1>5. Appended(h, result) \in [1..Len(result) -> Event]
  BY <1>4 DEF Appended
<1>6. Appended(h, result) \in Seq(Event) /\ Len(Appended(h, result)) = Len(result)
  BY <1>2, <1>5
<1>7. EndsGame(result) \in BOOLEAN /\ result[Len(result)] = EndsGame(result)
  BY <1>2 DEF EndsGame
<1>8. ASSUME NEW i \in 1..Len(result)
      PROVE  /\ Appended(h, result)[i].key = IF i = 1 THEN handler[h].key ELSE None
             /\ Appended(h, result)[i].rev = handler[h].rev + 1
             /\ Appended(h, result)[i].over = result[i]
  <2>. DEFINE key == IF i = 1 THEN handler[h].key ELSE None
              over == result[i]
  <2>1. Appended(h, result)[i] = [key |-> key, rev |-> handler[h].rev + 1, over |-> over]
    BY <1>4
  <2>. HIDE DEF key, over
  <2>2. /\ Appended(h, result)[i].key = key
        /\ Appended(h, result)[i].rev = handler[h].rev + 1
        /\ Appended(h, result)[i].over = over
    BY <2>1
  <2>. QED
    BY <2>2, Zenon DEF key, over
<1>. QED
  BY <1>2, <1>6, <1>7, <1>8

(* The log of a game after a move of result was committed at revision rev  *)
(* with key k.                                                             *)
LogAfter(g, k, rev, result) ==
  LET N == Len(log[g])
      L == Len(result) IN
  /\ L \in {1, 2} /\ DOMAIN log'[g] = 1..(N + L)
  /\ \A i \in 1..N : log'[g][i] = log[g][i]
  /\ \A i \in (N + 1)..(N + L) :
       /\ log'[g][i].key = IF i = N + 1 THEN k ELSE None
       /\ log'[g][i].rev = rev
  /\ log'[g][N + L].over = EndsGame(result)
  /\ \A x \in GameIds \ {g} : log'[x] = log[x]

(* What a commit does, in terms of the game, the key and the revision.     *)
LEMMA CommitEffect ==
  ASSUME GamesInv, NEW h \in Handlers, NEW result \in Results, Commit(h, result)
  PROVE  \E g \in GameIds, k \in MoveKeys, row \in Row, ack \in Ack :
           /\ Exists(g) /\ game[g].current /\ game[g].rev \in Nat /\ row.rev = game[g].rev + 1
           /\ row.status = (IF EndsGame(result) THEN "completed" ELSE "playing")
           /\ row.ended = EndsGame(result) /\ row.source = game[g].source
           /\ row.current = game[g].current
           /\ game' = [game EXCEPT ![g] = row]
           /\ Uses(g, k) = {}
           /\ log' \in [GameIds -> Seq(Event)] /\ LogAfter(g, k, row.rev, result)
           /\ acked' = [acked EXCEPT ![g][k] = ack]
           /\ ack.rev = row.rev /\ ack.status = row.status
<1>1. /\ Step(h) = "commit" /\ Commits(h)
      /\ UNCHANGED <<starts, used, latest>>
  BY DEF Commit
<1>2. PICK t \in Task : t = handler[h]
  BY <1>1, InFlight DEF GamesInv
<1>3. PICK g \in GameIds : g = Target(h)
  BY <1>1, InFlight DEF GamesInv
<1>4. /\ Exists(g) /\ game[g].rev = t.rev /\ game[g].status = "playing" /\ game[g].current
      /\ game[g].rev < MaxRevision
  BY <1>1, <1>2, <1>3 DEF Commits, Matches, Status
<1>5. t.step = "commit" /\ t.key \in MoveKeys /\ Uses(g, t.key) = {}
  BY <1>1, <1>2, <1>3, <1>4 DEF GamesInv, HandlersSound, HandlerSound, Step
<1>6. game[g] \in Row /\ t.rev \in Nat
  BY <1>2, <1>4, RowTyped, ConstantsAssumption DEF GamesInv, Row
<1>. DEFINE k == t.key
            status == IF EndsGame(result) THEN "completed" ELSE "playing"
            put == [game[g] EXCEPT !.status = status, !.rev = @ + 1]
            row == [put EXCEPT !.ended = EndsGame(result)]
            ack == [rev |-> t.rev + 1, status |-> status]
<1>7. LET L == Len(result) IN
      /\ Appended(h, result) \in Seq(Event) /\ Len(Appended(h, result)) = L
      /\ L \in {1, 2} /\ EndsGame(result) \in BOOLEAN /\ result[L] = EndsGame(result)
      /\ \A i \in 1..L :
           /\ Appended(h, result)[i].key = IF i = 1 THEN k ELSE None
           /\ Appended(h, result)[i].rev = t.rev + 1
           /\ Appended(h, result)[i].over = result[i]
  BY <1>2, <1>4, <1>5, <1>6, WhatIsAppended
<1>8. status \in Statuses /\ status \in {"playing", "completed"}
  BY DEF Statuses
<1>9. /\ put \in Row /\ Put(g, status) = [game EXCEPT ![g] = put]
  BY <1>4, <1>8, PutRow
<1>10. /\ put.rev = game[g].rev + 1 /\ put.status = status /\ put.source = game[g].source
       /\ put.current = game[g].current
  BY <1>6 DEF Row
<1>11. ack \in Ack /\ ack.rev = t.rev + 1 /\ ack.status = status
  BY <1>4, <1>6, <1>8, ConstantsAssumption DEF Ack
<1>12. game' = [Put(g, status) EXCEPT ![g].ended = EndsGame(result)]
  BY <1>3 DEF Commit
<1>13. /\ log' = [log EXCEPT ![g] = @ \o Appended(h, result)]
       /\ acked' = [acked EXCEPT ![g][k] = ack]
  BY <1>2, <1>3 DEF Commit
<1>. HIDE DEF status, put, ack, k
<1>14. game' = [game EXCEPT ![g] = row]
  BY <1>9, <1>12 DEF GamesInv, Typed
<1>15. /\ row \in Row /\ row.rev = game[g].rev + 1 /\ row.status = status
       /\ row.source = game[g].source /\ row.current = game[g].current
       /\ row.ended = EndsGame(result)
  BY <1>7, <1>9, <1>10 DEF Row
<1>. HIDE DEF row
<1>16. /\ log[g] \in Seq(Event) /\ log \in [GameIds -> Seq(Event)]
       /\ log'[g] = log[g] \o Appended(h, result)
  BY <1>13 DEF GamesInv, Typed
<1>17. log[g] \o Appended(h, result) \in Seq(Event)
  BY <1>7, <1>16, ConcatProperties
<1>18. log' \in [GameIds -> Seq(Event)] /\ \A x \in GameIds \ {g} : log'[x] = log[x]
  BY <1>13, <1>16, <1>17
<1>19. LogAfter(g, k, row.rev, result)
  <2>. DEFINE N == Len(log[g])
              L == Len(result)
  <2>a. PICK es \in Seq(Event) : es = Appended(h, result)
    BY <1>7
  <2>1. /\ N \in Nat /\ L \in {1, 2} /\ Len(log'[g]) = N + L
        /\ DOMAIN log'[g] = 1..(N + L)
    <3>1. N \in Nat /\ L \in {1, 2} /\ Len(es) = L
      BY <1>7, <1>16, <2>a
    <3>2. log'[g] = log[g] \o es /\ log'[g] \in Seq(Event)
      BY <1>16, <1>17, <2>a
    <3>3. Len(log[g] \o es) = Len(log[g]) + Len(es)
      BY <1>16, ConcatProperties, Zenon
    <3>4. Len(log'[g]) = N + L
      BY <3>1, <3>2, <3>3
    <3>. QED
      BY <3>1, <3>2, <3>4
  <2>2. \A i \in 1..N : log'[g][i] = log[g][i]
    BY <1>7, <1>16, ConcatProperties
  <2>3. ASSUME NEW i \in (N + 1)..(N + L)
        PROVE  log'[g][i] = Appended(h, result)[i - N] /\ i - N \in 1..L
    BY <1>7, <1>16, <2>1, ConcatProperties
  <2>. HIDE DEF N, L
  <2>4. ASSUME NEW i \in (N + 1)..(N + L)
        PROVE  /\ log'[g][i].key = IF i = N + 1 THEN k ELSE None
               /\ log'[g][i].rev = row.rev
               /\ log'[g][i].over = result[i - N]
    <3>1. PICK j \in 1..L : j = i - N /\ log'[g][i] = Appended(h, result)[j]
      BY <2>3
    <3>2. /\ Appended(h, result)[j].key = (IF j = 1 THEN k ELSE None)
          /\ Appended(h, result)[j].rev = t.rev + 1
          /\ Appended(h, result)[j].over = result[j]
      BY <1>7 DEF L
    <3>3. j = 1 <=> i = N + 1
      BY <2>1, <3>1
    <3>. QED
      BY <1>4, <1>15, <3>1, <3>2, <3>3
  <2>5. log'[g][N + L].over = EndsGame(result)
    <3>1. N + L \in (N + 1)..(N + L) /\ (N + L) - N = L
      BY <2>1
    <3>. QED
      BY <1>7, <2>4, <3>1 DEF L
  <2>. QED
    BY <1>18, <2>1, <2>2, <2>4, <2>5 DEF LogAfter, N, L
<1>. QED
  <2>1. k \in MoveKeys /\ Uses(g, k) = {}
    BY <1>5 DEF k
  <2>2. ack.rev = row.rev /\ ack.status = row.status /\ game[g].rev \in Nat
    BY <1>4, <1>6, <1>11, <1>15
  <2>3. row.status = IF EndsGame(result) THEN "completed" ELSE "playing"
    BY <1>15 DEF status
  <2>. USE <1>11, <1>15, <2>1
  <2>. WITNESS g \in GameIds, k \in MoveKeys, row \in Row, ack \in Ack
  <2>. QED
    BY <1>4, <1>13, <1>14, <1>15, <1>18, <1>19, <2>1, <2>2, <2>3

(* A commit appends to one log what belongs to its row's new revision.     *)
LEMMA CommitStep ==
  ASSUME GamesInv, NEW h \in Handlers, NEW result \in Results, Commit(h, result)
  PROVE  GamesInv'
<1>1. PICK g \in GameIds, k \in MoveKeys, row \in Row, ack \in Ack :
        /\ Exists(g) /\ game[g].current /\ game[g].rev \in Nat /\ row.rev = game[g].rev + 1
        /\ row.status = (IF EndsGame(result) THEN "completed" ELSE "playing")
        /\ row.ended = EndsGame(result) /\ row.source = game[g].source
        /\ row.current = game[g].current
        /\ game' = [game EXCEPT ![g] = row]
        /\ Uses(g, k) = {}
        /\ log' \in [GameIds -> Seq(Event)] /\ LogAfter(g, k, row.rev, result)
        /\ acked' = [acked EXCEPT ![g][k] = ack]
        /\ ack.rev = row.rev /\ ack.status = row.status
  BY CommitEffect
<1>2. PICK rev \in Nat : rev = row.rev
  BY <1>1
<1>3. PICK N \in Nat : N = Len(log[g]) /\ DOMAIN log[g] = 1..N
  BY RowTyped DEF GamesInv
<1>4. PICK L \in {1, 2} : L = Len(result)
  BY <1>1 DEF LogAfter
<1>5. /\ DOMAIN log'[g] = 1..(N + L)
      /\ \A i \in 1..N : log'[g][i] = log[g][i]
      /\ \A i \in (N + 1)..(N + L) :
           log'[g][i].key = (IF i = N + 1 THEN k ELSE None) /\ log'[g][i].rev = rev
      /\ log'[g][N + L].over = EndsGame(result)
      /\ \A x \in GameIds \ {g} : log'[x] = log[x]
  BY <1>1, <1>2, <1>3, <1>4 DEF LogAfter
<1>6. /\ game' \in [GameIds -> Row \cup {None}] /\ game'[g] = row
      /\ \A x \in GameIds \ {g} : game'[x] = game[x]
  BY <1>1 DEF GamesInv, Typed
<1>7. /\ acked' \in [GameIds -> [MoveKeys -> Ack \cup {None}]] /\ acked'[g][k] = ack
      /\ \A x \in GameIds, j \in MoveKeys : x # g \/ j # k => acked'[x][j] = acked[x][j]
      /\ ack # None
  BY <1>1, ConstantsAssumption DEF GamesInv, Typed
<1>8. /\ handler' \in [Handlers -> {Idle} \cup Task] /\ handler'[h].step = "idle"
      /\ \A x \in Handlers \ {h} : handler'[x] = handler[x]
      /\ starts' = starts /\ used' = used /\ latest' = latest
  BY DEF Commit, Finish, GamesInv, Typed, Idle
<1>9. Typed'
  BY <1>1, <1>6, <1>7, <1>8 DEF GamesInv, Typed
<1>10. row # None /\ Exists(g)' /\ \A x \in GameIds : Exists(x)' <=> Exists(x)
  BY <1>1, <1>6, ConstantsAssumption DEF Exists
<1>11. CurrentIsNewest'
  BY <1>1, <1>6, <1>8, <1>10 DEF GamesInv, CurrentIsNewest
<1>12. \A x \in GameIds : Exists(x) => game[x].rev \in Nat
  BY RowTyped, ConstantsAssumption DEF GamesInv, Row
<1>13. \A i \in 1..N : log[g][i].rev \in Nat /\ log[g][i].rev <= game[g].rev /\ log[g][i].rev < rev
  BY <1>1, <1>2, <1>3, RowTyped DEF GamesInv, LogsBehind
<1>14. \A x \in GameIds : LogGrows(x) /\ RowFollows(x)
  <2>1. ASSUME NEW x \in GameIds \ {g}
        PROVE  LogGrows(x) /\ RowFollows(x)
    BY <1>5, <1>6, <1>12 DEF LogGrows, RowFollows, Exists
  <2>2. LogGrows(g)
    BY <1>1, <1>2, <1>3, <1>5 DEF LogGrows
  <2>3. RowFollows(g)
    BY <1>1, <1>2, <1>6, <1>10 DEF RowFollows
  <2>. QED
    BY <2>1, <2>2, <2>3
<1>15. LogsBehind'
  <2>1. ASSUME NEW x \in GameIds \ {g}, Exists(x), NEW i \in DOMAIN log[x]
        PROVE  log'[x][i].rev <= game'[x].rev
    BY <1>5, <1>6, <2>1 DEF GamesInv, LogsBehind
  <2>2. ASSUME NEW i \in 1..(N + L)
        PROVE  log'[g][i].rev <= game'[g].rev
    <3>1. CASE i \in 1..N
      BY <1>2, <1>5, <1>6, <1>13, <3>1
    <3>2. CASE i \in (N + 1)..(N + L)
      BY <1>2, <1>5, <1>6, <3>2
    <3>. QED
      BY <3>1, <3>2
  <2>. QED
    BY <1>5, <1>10, <2>1, <2>2 DEF LogsBehind
<1>16. Over(g, DOMAIN log[g])' <=> EndsGame(result)
  <2>1. N + L \in 1..(N + L) /\ \A i \in 1..(N + L) : i <= N + L
    OBVIOUS
  <2>2. \A last \in 1..(N + L) : (\A i \in 1..(N + L) : i <= last) => last = N + L
    BY <2>1
  <2>. QED
    BY <1>5, <2>1, <2>2 DEF Over
<1>17. RowsMatchReplay'
  <2>1. ASSUME NEW x \in GameIds \ {g}
        PROVE  /\ ~Exists(x)' => log'[x] = <<>>
               /\ Exists(x)' => Sound(x, game[x], DOMAIN log[x])'
    BY <1>5, <1>6, <1>10 DEF GamesInv, RowsMatchReplay, Sound, Over
  <2>2. Sound(g, game[g], DOMAIN log[g])'
    <3>1. /\ row.status \notin {"dividing", "division_failed"} /\ row.status # "mapped"
          /\ row.status = "playing" => ~EndsGame(result)
          /\ row.status \in Terminal => EndsGame(result)
      BY <1>1 DEF Terminal
    <3>2. Over(g, DOMAIN log[g])' \in BOOLEAN /\ row.ended \in BOOLEAN
      BY DEF Over, Row
    <3>. QED
      BY <1>1, <1>6, <1>16, <3>1, <3>2 DEF Sound
  <2>. QED
    BY <1>10, <2>1, <2>2 DEF RowsMatchReplay
<1>18. \A i \in 1..(N + L) : log'[g][i].key # None =>
         \/ i \in 1..N /\ log'[g][i] = log[g][i] /\ log[g][i].key # k
         \/ i = N + 1 /\ log'[g][i].key = k /\ log'[g][i].rev = rev
  <2>. SUFFICES ASSUME NEW i \in 1..(N + L), log'[g][i].key # None
                PROVE  \/ i \in 1..N /\ log'[g][i] = log[g][i] /\ log[g][i].key # k
                       \/ i = N + 1 /\ log'[g][i].key = k /\ log'[g][i].rev = rev
    OBVIOUS
  <2>1. CASE i \in 1..N
    BY <1>1, <1>3, <1>5, <2>1 DEF Uses
  <2>2. CASE i \in (N + 1)..(N + L)
    BY <1>5, <2>2
  <2>. QED
    BY <2>1, <2>2
<1>19. MovesCountOnce'
  <2>1. ASSUME NEW x \in GameIds \ {g}
        PROVE  LET moves == {i \in DOMAIN log'[x] : log'[x][i].key # None} IN
               /\ \A i, j \in moves :
                    log'[x][i].key = log'[x][j].key \/ log'[x][i].rev = log'[x][j].rev => i = j
               /\ \A j \in MoveKeys : acked'[x][j] # None =>
                    \E i \in moves : log'[x][i].key = j /\ log'[x][i].rev = acked'[x][j].rev
    BY <1>5, <1>7 DEF GamesInv, MovesCountOnce
  <2>2. ASSUME NEW i \in 1..(N + L), NEW j \in 1..(N + L),
               log'[g][i].key # None, log'[g][j].key # None,
               log'[g][i].key = log'[g][j].key \/ log'[g][i].rev = log'[g][j].rev
        PROVE  i = j
    <3>1. CASE i \in 1..N /\ j \in 1..N
      <4>1. log'[g][i] = log[g][i] /\ log'[g][j] = log[g][j]
        BY <1>5, <3>1
      <4>. QED
        BY <1>3, <2>2, <3>1, <4>1 DEF GamesInv, MovesCountOnce
    <3>2. CASE i \in 1..N /\ j \notin 1..N
      <4>1. log'[g][i].key # k /\ log'[g][i].rev \in Nat /\ log'[g][i].rev < rev
        BY <1>13, <1>18, <2>2, <3>2
      <4>2. log'[g][j].key = k /\ log'[g][j].rev = rev
        BY <1>18, <2>2, <3>2
      <4>. QED
        BY <1>2, <2>2, <4>1, <4>2
    <3>3. CASE i \notin 1..N /\ j \in 1..N
      <4>1. log'[g][j].key # k /\ log'[g][j].rev \in Nat /\ log'[g][j].rev < rev
        BY <1>13, <1>18, <2>2, <3>3
      <4>2. log'[g][i].key = k /\ log'[g][i].rev = rev
        BY <1>18, <2>2, <3>3
      <4>. QED
        BY <1>2, <2>2, <4>1, <4>2
    <3>4. CASE i \notin 1..N /\ j \notin 1..N
      BY <1>18, <2>2, <3>4
    <3>. QED
      BY <3>1, <3>2, <3>3, <3>4
  <2>3. ASSUME NEW j \in MoveKeys, acked'[g][j] # None
        PROVE  \E i \in 1..(N + L) :
                 /\ log'[g][i].key # None /\ log'[g][i].key = j
                 /\ log'[g][i].rev = acked'[g][j].rev
    <3>0. k # None /\ j # None
      BY ConstantsAssumption
    <3>1. CASE j = k
      <4>1. N + 1 \in 1..(N + L) /\ N + 1 \in (N + 1)..(N + L)
        OBVIOUS
      <4>2. log'[g][N + 1].key = k /\ log'[g][N + 1].rev = rev
        BY <1>5, <4>1
      <4>3. acked'[g][j].rev = rev
        BY <1>1, <1>2, <1>7, <3>1
      <4>. QED
        BY <3>0, <3>1, <4>1, <4>2, <4>3
    <3>2. CASE j # k
      <4>1. acked'[g][j] = acked[g][j]
        BY <1>7, <3>2
      <4>2. PICK i \in 1..N : log[g][i].key = j /\ log[g][i].rev = acked[g][j].rev
        BY <1>3, <2>3, <4>1 DEF GamesInv, MovesCountOnce
      <4>3. i \in 1..(N + L) /\ log'[g][i] = log[g][i]
        BY <1>5
      <4>. QED
        BY <3>0, <4>1, <4>2, <4>3
    <3>. QED
      BY <3>1, <3>2
  <2>4. LET moves == {i \in DOMAIN log'[g] : log'[g][i].key # None} IN
        /\ \A i, j \in moves :
             log'[g][i].key = log'[g][j].key \/ log'[g][i].rev = log'[g][j].rev => i = j
        /\ \A j \in MoveKeys : acked'[g][j] # None =>
             \E i \in moves : log'[g][i].key = j /\ log'[g][i].rev = acked'[g][j].rev
    BY <1>5, <2>2, <2>3
  <2>. QED
    BY <2>1, <2>4 DEF MovesCountOnce
<1>20. AcksSound'
  <2>1. ASSUME NEW x \in GameIds, NEW j \in MoveKeys, x # g \/ j # k
        PROVE  AckSound(x, j)'
    <3>1. \A i \in Uses(x, j)' : i \in Uses(x, j) /\ log'[x][i] = log[x][i]
      <4>1. CASE x # g
        BY <1>5, <4>1 DEF Uses
      <4>2. CASE x = g
        <5>1. j # None /\ j # k
          BY <2>1, <4>2, ConstantsAssumption
        <5>. QED
          BY <1>3, <1>5, <1>18, <4>2, <5>1 DEF Uses
      <4>. QED
        BY <4>1, <4>2
    <3>2. ASSUME NEW i \in Uses(x, j)
          PROVE  /\ acked'[x][j] # None
                 /\ acked'[x][j].rev = log[x][i].rev
                 /\ acked'[x][j].status =
                      IF Over(x, EventsUpTo(x, log[x][i].rev))' THEN "completed" ELSE "playing"
      <4>1. i \in DOMAIN log[x] /\ Exists(x)
        BY DEF Uses, GamesInv, RowsMatchReplay
      <4>2. log[x][i].rev \in Nat /\ log[x][i].rev <= game[x].rev
        BY <4>1, RowTyped DEF GamesInv, LogsBehind
      <4>3. Over(x, EventsUpTo(x, log[x][i].rev))' = Over(x, EventsUpTo(x, log[x][i].rev))
        <5>1. PICK r \in Nat : r = log[x][i].rev
          BY <4>2
        <5>2. Over(x, EventsUpTo(x, r))' = Over(x, EventsUpTo(x, r))
          BY <1>14, <4>1, <4>2, <5>1, ReadsKept DEF GamesInv
        <5>3. log'[x][i].rev = r
          BY <1>14, <4>1, <5>1 DEF LogGrows
        <5>. QED
          BY <5>1, <5>2, <5>3
      <4>. QED
        BY <1>7, <2>1, <4>3 DEF GamesInv, AcksSound, AckSound
    <3>. QED
      BY <3>1, <3>2 DEF AckSound
  <2>2. AckSound(g, k)'
    <3>1. EventsUpTo(g, rev)' = DOMAIN log'[g]
      <4>1. \A i \in DOMAIN log'[g] : log'[g][i].rev <= rev
        BY <1>2, <1>6, <1>10, <1>15 DEF LogsBehind
      <4>. QED
        BY <4>1 DEF EventsUpTo
    <3>2. Over(g, EventsUpTo(g, rev))' <=> EndsGame(result)
      BY <1>16, <3>1 DEF Over
    <3>3. \A i \in Uses(g, k)' : log'[g][i].rev = rev
      <4>1. k # None
        BY ConstantsAssumption
      <4>. QED
        BY <1>5, <1>18, <4>1 DEF Uses
    <3>4. ack.rev = rev /\ ack.status = IF EndsGame(result) THEN "completed" ELSE "playing"
      BY <1>1, <1>2
    <3>. QED
      BY <1>7, <3>2, <3>3, <3>4 DEF AckSound
  <2>. QED
    BY <2>1, <2>2 DEF AcksSound
<1>21. ReplaysCountOnce' /\ IsFiniteSet(Started)'
  <2>1. \A x \in GameIds : starts[x] # None =>
          Exists(x)' /\ game'[x].source = starts[x].source
    BY <1>1, <1>6, <1>10 DEF GamesInv, ReplaysCountOnce
  <2>2. used = Cardinality({x \in GameIds : starts[x] # None})
    BY DEF GamesInv, ReplaysCountOnce
  <2>. QED
    BY <1>8, <2>1, <2>2 DEF GamesInv, ReplaysCountOnce, Started
<1>22. HandlersSound'
  <2>1. HandlerSound(h)'
    BY <1>8 DEF HandlerSound, Step
  <2>2. ASSUME NEW x \in Handlers \ {h}
        PROVE  HandlerSound(x)'
    BY <1>8, <1>14, HandlerKept DEF GamesInv, HandlersSound
  <2>. QED
    BY <2>1, <2>2 DEF HandlersSound
<1>. QED
  BY <1>9, <1>11, <1>15, <1>17, <1>19, <1>20, <1>21, <1>22 DEF GamesInv

-----------------------------------------------------------------------------
(* Every step.                                                             *)

LEMMA GamesStep == GamesInv /\ [Next]_vars => GamesInv'
<1>. SUFFICES ASSUME GamesInv, [Next]_vars
              PROVE  GamesInv'
  OBVIOUS
<1>1. CASE UNCHANGED vars
  <2>1. /\ game' = game /\ log' = log /\ starts' = starts /\ used' = used /\ latest' = latest
        /\ acked' = acked /\ handler' = handler
    BY <1>1 DEF vars
  <2>2. Typed'
    BY <2>1 DEF GamesInv, Typed
  <2>3. CurrentIsNewest' /\ ReplaysCountOnce' /\ IsFiniteSet(Started)'
    BY <2>1 DEF GamesInv, CurrentIsNewest, ReplaysCountOnce, Started, Exists
  <2>4. RowsMatchReplay' /\ LogsBehind' /\ MovesCountOnce' /\ AcksSound' /\ HandlersSound'
    <3>1. \A g \in GameIds : Exists(g) => game[g].rev \in Nat
      BY RowTyped, ConstantsAssumption DEF GamesInv, Row
    <3>2. \A g \in GameIds : Exists(g) => Exists(g)' /\ game'[g].rev >= game[g].rev
      BY <2>1, <3>1 DEF Exists
    <3>3. \A g \in GameIds : Exists(g)' => Sound(g, game'[g], DOMAIN log[g])
      BY <2>1 DEF GamesInv, RowsMatchReplay, Exists
    <3>. QED
      BY <2>1, <2>2, <3>2, <3>3, RowsStep DEF Typed
  <2>. QED
    BY <2>2, <2>3, <2>4 DEF GamesInv
<1>2. ASSUME NEW g \in GameIds, CreateDivision(g)
      PROVE  GamesInv'
  BY <1>2, CreateStep
<1>3. ASSUME NEW g \in GameIds, NEW rev \in 0..MaxRevision, Write(g, rev)
      PROVE  GamesInv'
  BY <1>3, Writes
<1>4. ASSUME NEW g \in GameIds, NEW rev \in 0..MaxRevision, NEW k \in GameIds,
             ReplayGame(k, g, rev)
      PROVE  GamesInv'
  <2>1. CASE Exists(k)
    BY <1>1, <1>4, <2>1, ReplayRepeated
  <2>2. CASE ~Exists(k)
    BY <1>4, <2>2, ReplayStep
  <2>. QED
    BY <2>1, <2>2
<1>5. ASSUME NEW h \in Handlers, NEW g \in GameIds,
             \/ OpenView(h, g)
             \/ \E k \in MoveKeys : OpenMove(h, g, k) \/ OpenRepeat(h, g, k)
      PROVE  GamesInv'
  BY <1>5, Opens
<1>6. ASSUME NEW h \in Handlers, Advance(h)
      PROVE  GamesInv'
  <2>1. CASE \E result \in Results : Commit(h, result)
    BY <2>1, CommitStep
  <2>2. CASE View(h) \/ LookUp(h) \/ Replay(h) \/ LoseRace(h) \/ LookUpRaced(h) \/ AnswerEcho(h)
    BY <2>2, Reads
  <2>. QED
    BY <1>6, <2>1, <2>2 DEF Advance
<1>. QED
  BY <1>1, <1>2, <1>3, <1>4, <1>5, <1>6 DEF Next

(* The inductive invariant holds of every behaviour.                       *)
THEOREM GamesInvariant == Spec => []GamesInv
<1>1. Init => GamesInv
  BY GamesInit
<1>2. GamesInv /\ [Next]_vars => GamesInv'
  BY GamesStep
<1>. QED
  BY <1>1, <1>2, PTL DEF Spec

-----------------------------------------------------------------------------
(* What the runs check.                                                    *)

(* What a repeated move is answered is what was acknowledged.              *)
LEMMA EchoesAcknowledged ==
  ASSUME GamesInv, NEW h \in Handlers, Step(h) = "echo"
  PROVE  Echo(h) = acked[Target(h)][handler[h].key]
<1>1. PICK g \in GameIds : g = Target(h)
  BY InFlight DEF GamesInv
<1>2. PICK k \in MoveKeys : k = handler[h].key
  BY DEF GamesInv, HandlersSound, HandlerSound
<1>3. Uses(g, k) # {}
  BY <1>1, <1>2 DEF GamesInv, HandlersSound, HandlerSound
<1>4. PICK i \in Uses(g, k) : Found(h) = log[g][i]
  BY <1>1, <1>2, <1>3 DEF Found, Use
<1>5. /\ acked[g][k] # None /\ acked[g][k].rev = log[g][i].rev
      /\ acked[g][k].status =
           IF Over(g, EventsUpTo(g, log[g][i].rev)) THEN "completed" ELSE "playing"
  BY DEF GamesInv, AcksSound, AckSound
<1>6. acked[g][k] \in Ack
  BY <1>5 DEF GamesInv, Typed
<1>7. acked[g][k] = [rev |-> acked[g][k].rev, status |-> acked[g][k].status]
  BY <1>6 DEF Ack
<1>8. Echo(h) = [rev |-> acked[g][k].rev, status |-> acked[g][k].status]
  BY <1>1, <1>4, <1>5 DEF Echo, EchoRevision
<1>. QED
  BY <1>1, <1>2, <1>7, <1>8

(* Rows, logs and the copies handlers work on never disagree: one game is  *)
(* current, every row is what its log replays to, a view and a move read   *)
(* events that fit their row whatever was written since, and a move sent   *)
(* again is answered as it was the first time.                             *)
THEOREM GamesAlwaysConsistent == Spec => []GamesAreConsistent
<1>1. GamesInv => GamesAreConsistent
  <2>. SUFFICES ASSUME GamesInv
                PROVE  GamesAreConsistent
    OBVIOUS
  <2>1. TypeOK
    <3>1. \A h \in Handlers : handler[h] = Idle \/ handler[h] \in Task
      BY DEF GamesInv, Typed
    <3>. QED
      BY <3>1 DEF GamesInv, Typed, TypeOK
  <2>2. ReadsAreConsistent
    BY EchoesAcknowledged DEF ReadsAreConsistent, GamesInv, HandlersSound, HandlerSound
  <2>. QED
    BY <2>1, <2>2 DEF GamesInv, GamesAreConsistent
<1>. QED
  BY <1>1, GamesInvariant, PTL

(* However often its request is sent, a move is made once, under one key   *)
(* and one revision, and a replay is charged and started once.             *)
THEOREM AlwaysCountedOnce == Spec => []CountedOnce
<1>1. GamesInv => CountedOnce
  BY DEF GamesInv, CountedOnce
<1>. QED
  BY <1>1, GamesInvariant, PTL

(* Retiring a retired game changes nothing.                                *)
LEMMA RetiredStays ==
  ASSUME Typed, NEW x \in GameIds, Exists(x), ~game[x].current,
         NEW g \in GameIds \ {x}, NEW row, game' = [Retired(game) EXCEPT ![g] = row]
  PROVE  game'[x] = game[x]
<1>1. PICK old \in Row : old = game[x]
  BY RowTyped
<1>2. old = [old EXCEPT !.current = FALSE]
  BY <1>1 DEF Row
<1>3. game'[x] = [game[x] EXCEPT !.current = FALSE]
  BY DEF Retired, Exists
<1>. QED
  BY <1>1, <1>2, <1>3

(* A game that another replaced is never played, answered or current       *)
(* again: the guards of every write but abandonGame's ask for the current  *)
(* game, and no write makes an older game current.                         *)
THEOREM RetiredGamesStayFrozen == Spec => RetiredGamesFrozen
<1>1. ASSUME GamesInv, [Next]_vars, NEW x \in GameIds, Exists(x), ~game[x].current,
             game'[x] # game[x]
      PROVE  game'[x].status = "abandoned" /\ ~game'[x].current
  <2>1. ASSUME UNCHANGED game
        PROVE  FALSE
    BY <1>1, <2>1
  <2>2. ASSUME NEW g \in GameIds, CreateDivision(g)
        PROVE  FALSE
    BY <1>1, <2>2, RetiredStays DEF CreateDivision, GamesInv
  <2>3. ASSUME NEW g \in GameIds, NEW rev \in 0..MaxRevision, Write(g, rev)
        PROVE  game'[x].status = "abandoned" /\ ~game'[x].current
    <3>1. /\ Exists(g) /\ game[g].rev < MaxRevision
          /\ \A status \in Statuses :
               Put(g, status) =
                 [game EXCEPT ![g] = [game[g] EXCEPT !.status = status, !.rev = @ + 1]]
      <4>1. Exists(g) /\ game[g].rev < MaxRevision
        BY <2>3 DEF Write, FinishDivision, FailDivision, StartGame, BeginAnswer,
                    StoreAnswer, FailAnswer, AbandonGame, Matches
      <4>. QED
        BY <1>1, <4>1, PutRow
    <3>2. CASE AbandonGame(g, rev)
      <4>. DEFINE put == [game[g] EXCEPT !.status = "abandoned", !.rev = @ + 1]
      <4>1. put \in Row /\ put.status = "abandoned"
        <5>1. game[g] \in Row /\ "abandoned" \in Statuses
          BY <1>1, <3>1, RowTyped DEF GamesInv, Statuses
        <5>2. put \in Row
          BY <1>1, <3>1, <5>1, PutRow
        <5>. QED
          BY <5>1, <5>2 DEF Row
      <4>2. Put(g, "abandoned") = [game EXCEPT ![g] = put]
        BY <3>1 DEF Statuses
      <4>. HIDE DEF put
      <4>3. game' = [game EXCEPT ![g] = [put EXCEPT !.current = FALSE]]
        BY <1>1, <3>2, <4>2 DEF AbandonGame, GamesInv, Typed
      <4>4. game'[g].status = "abandoned" /\ ~game'[g].current
        BY <1>1, <4>1, <4>3 DEF GamesInv, Typed, Row
      <4>5. x # g => game'[x] = game[x]
        BY <1>1, <4>3 DEF GamesInv, Typed
      <4>. QED
        BY <1>1, <4>4, <4>5
    <3>3. CASE ~AbandonGame(g, rev)
      <4>1. game[g].current
        BY <2>3, <3>3 DEF Write, FinishDivision, FailDivision, StartGame, BeginAnswer,
                          StoreAnswer, FailAnswer, Matches
      <4>2. \A status \in Statuses, y \in GameIds \ {g} : Put(g, status)[y] = game[y]
        BY <1>1, <3>1 DEF GamesInv, Typed
      <4>3. \A a, status : [Put(g, status) EXCEPT ![g].answer = a][x] = Put(g, status)[x]
                            \/ x = g \/ x \notin DOMAIN Put(g, status)
        OBVIOUS
      <4>4. DOMAIN Put(g, "answered") = GameIds
        BY <1>1, <3>1 DEF GamesInv, Typed, Statuses
      <4>5. x # g => game'[x] = game[x]
        BY <2>3, <3>3, <4>2, <4>3, <4>4 DEF Write, FinishDivision, FailDivision, StartGame,
                          BeginAnswer, StoreAnswer, FailAnswer, Statuses
      <4>. QED
        BY <1>1, <4>1, <4>5
    <3>. QED
      BY <3>2, <3>3
  <2>4. ASSUME NEW g \in GameIds, NEW rev \in 0..MaxRevision, NEW k \in GameIds,
               ReplayGame(k, g, rev)
        PROVE  FALSE
    <3>1. CASE Exists(k)
      BY <1>1, <2>4, <3>1, ReplayRepeated DEF vars
    <3>2. CASE ~Exists(k)
      <4>1. starts[k] = None
        BY <2>4, <3>2 DEF ReplayGame
      <4>2. game' = [Retired(game) EXCEPT ![k] = [Child(k, g) EXCEPT !.current = TRUE]]
        BY <2>4, <4>1 DEF ReplayGame, Pending
      <4>. QED
        BY <1>1, <3>2, <4>2, RetiredStays DEF GamesInv
    <3>. QED
      BY <3>1, <3>2
  <2>5. ASSUME NEW h \in Handlers, NEW result \in Results, Commit(h, result)
        PROVE  FALSE
    <3>1. PICK g \in GameIds : \E row \in Row : game[g].current /\ game' = [game EXCEPT ![g] = row]
      BY <1>1, <2>5, CommitEffect
    <3>. QED
      BY <1>1, <3>1 DEF GamesInv, Typed
  <2>6. ASSUME NEW h \in Handlers,
               \/ \E g \in GameIds : OpenView(h, g)
               \/ \E g \in GameIds, k \in MoveKeys : OpenMove(h, g, k) \/ OpenRepeat(h, g, k)
               \/ Advance(h)
        PROVE  FALSE
    <3>1. CASE \E result \in Results : Commit(h, result)
      BY <2>5, <3>1
    <3>2. CASE ~\E result \in Results : Commit(h, result)
      <4>1. game' = game
        BY <2>6, <3>2 DEF OpenView, OpenMove, OpenRepeat, Advance, View, LookUp, Replay,
                          LoseRace, LookUpRaced, AnswerEcho, ReadOnly
      <4>. QED
        BY <2>1, <4>1
    <3>. QED
      BY <3>1, <3>2
  <2>. QED
    BY <1>1, <2>1, <2>2, <2>3, <2>4, <2>6 DEF Next, vars
<1>2. GamesInv /\ [Next]_vars =>
        \A g \in GameIds :
          Exists(g) /\ ~game[g].current /\ game'[g] # game[g] =>
            game'[g].status = "abandoned" /\ ~game'[g].current
  BY <1>1
<1>. QED
  BY <1>2, GamesInvariant, PTL DEF Spec, RetiredGamesFrozen
=============================================================================
