---------------------------- MODULE CircularChess ----------------------------
(***************************************************************************)
(* The board game: move generation and the engine's mutable position       *)
(* (src/lib/engine/movegen.ts, position.ts), the rules that accept a move, *)
(* pass for a side that cannot move and end the game (src/lib/game.ts),    *)
(* and the replay that reconstructs a game from its stored events          *)
(* (src/lib/game-replay.ts).                                               *)
(*                                                                         *)
(* Rings end, sectors wrap; the code has eight of each.  A hash is the set *)
(* of the keys that were xored into it.  Coordinates are always canonical; *)
(* piece names, captures' narration and the problem parts are left out.    *)
(***************************************************************************)
EXTENDS Integers, Sequences, FiniteSets, SequencesExt

CONSTANTS
    Rings, Sectors,
    Setups,         \* piece id -> [side, kind, at, moved], each a first board
    None,
    MaxQuiet,       \* MAX_QUIET_PLIES
    MaxPlies,       \* MAX_GAME_PLIES
    MaxLine         \* bound: the ply of the game up to which lines are looked at

VARIABLES
    first,          \* the setup of this game
    game,           \* ReplayState
    position,       \* the engine's board while it searches, else None
    undo            \* its stack

chessVars == <<first, game, position, undo>>

Squares == (0 .. Rings - 1) \X (0 .. Sectors - 1)
Other(side) == IF side = "white" THEN "black" ELSE "white"

When(condition, seq) == IF condition THEN seq ELSE <<>>

-----------------------------------------------------------------------------
(***************************************************************************)
(* Geometry: tables built once per square.                                 *)
(***************************************************************************)

Wrap(sector) == sector % Sectors

Straight == <<<<1, 0>>, <<-1, 0>>, <<0, 1>>, <<0, -1>>>>
Diagonal == <<<<1, 1>>, <<1, -1>>, <<-1, 1>>, <<-1, -1>>>>

OnBoard(ring) == ring \in 0 .. Rings - 1

\* A ray ends at the edge or one step short of going round.
Ray(q, d) ==
    LET far == CHOOSE n \in 0 .. Sectors - 1 :
                 /\ OnBoard(q[1] + n * d[1])
                 /\ n = Sectors - 1 \/ ~OnBoard(q[1] + (n + 1) * d[1])
    IN  [n \in 1 .. far |-> <<q[1] + n * d[1], Wrap(q[2] + n * d[2])>>]

Rays == [q \in Squares |->
    [d \in Range(Straight) \cup Range(Diagonal) |-> Ray(q, d)]]

StepTargets(q, offsets) ==
    LET inside == SelectSeq(offsets, LAMBDA o : OnBoard(q[1] + o[1]))
    IN  [i \in 1 .. Len(inside) |->
           <<q[1] + inside[i][1], Wrap(q[2] + inside[i][2])>>]

KnightTargets == [q \in Squares |-> StepTargets(q,
    <<<<-2, -1>>, <<-2, 1>>, <<-1, -2>>, <<-1, 2>>,
      <<1, -2>>, <<1, 2>>, <<2, -1>>, <<2, 1>>>>)]

KingTargets == [q \in Squares |-> StepTargets(q,
    <<<<-1, -1>>, <<-1, 0>>, <<-1, 1>>, <<0, -1>>,
      <<0, 1>>, <<1, -1>>, <<1, 0>>, <<1, 1>>>>)]

Forward(side) == IF side = "black" THEN 1 ELSE -1
StartRing(side) == IF side = "black" THEN 1 ELSE Rings - 2
LastRing(side) == IF side = "black" THEN Rings - 1 ELSE 0

-----------------------------------------------------------------------------
(***************************************************************************)
(* Move generation.  A board maps squares to [side, kind], EMPTY included. *)
(***************************************************************************)

NoPiece == [side |-> "none", kind |-> "none"]

Empty(board, q) == board[q] = NoPiece
Enemy(board, q, side) == ~Empty(board, q) /\ board[q].side # side

Move(board, from, to, promotes) ==
    [from |-> from, to |-> to, captured |-> board[to], promotes |-> promotes]

\* Quiet steps, one or two, then captures to either side of the next ring.
PawnMoves(board, moved, from, side, mode) ==
    LET ring == from[1] + Forward(side)
        one  == <<ring, from[2]>>
        two  == <<ring + Forward(side), from[2]>>
        Wanted(q) == mode = "all" \/ q[1] = LastRing(side)
        Push(q) == When(Wanted(q),
                        <<Move(board, from, q, q[1] = LastRing(side))>>)
        Take(step) ==
          LET q == <<ring, Wrap(from[2] + step)>>
          IN  When(Enemy(board, q, side),
                   <<Move(board, from, q, ring = LastRing(side))>>)
    IN  IF ~OnBoard(ring) THEN <<>>
        ELSE When(mode # "captures" /\ Empty(board, one),
                  Push(one) \o
                  When(/\ from \notin moved
                       /\ from[1] = StartRing(side)
                       /\ OnBoard(two[1]) /\ Empty(board, two), Push(two)))
             \o Take(-1) \o Take(1)

\* The squares of a ray up to the first piece on it.
Prefix(board, ray) ==
    LET hits == {n \in DOMAIN ray : ~Empty(board, ray[n])}
    IN  IF hits = {} THEN ray
        ELSE SubSeq(ray, 1, CHOOSE n \in hits : \A m \in hits : n <= m)

Allowed(board, side, mode, targets) ==
    SelectSeq(targets, LAMBDA q :
      Enemy(board, q, side) \/ (mode = "all" /\ Empty(board, q)))

\* Mutant: a square two rays reach is emitted twice.
Once_Twice(targets) == targets

\* The stamp: two rays may meet, a square is emitted once.
Once(targets) ==
    FoldLeft(LAMBDA out, q : IF Contains(out, q) THEN out ELSE Append(out, q),
             <<>>, targets)

Directions(kind) ==
    CASE kind = "rook" -> Straight
      [] kind = "bishop" -> Diagonal
      [] OTHER -> Straight \o Diagonal

Targets(board, from, side, kind, mode) ==
    CASE kind = "knight" -> Allowed(board, side, mode, KnightTargets[from])
      [] kind = "king" -> Allowed(board, side, mode, KingTargets[from])
      [] OTHER ->
           LET ds == Directions(kind)
           IN  Once(Allowed(board, side, mode,
                 FlattenSeq([i \in DOMAIN ds |->
                   Prefix(board, Rays[from][ds[i]])])))

MovesFrom(board, moved, from, mode) ==
    LET side == board[from].side
        kind == board[from].kind
        targets == Targets(board, from, side, kind, mode)
    IN  IF kind = "pawn" THEN PawnMoves(board, moved, from, side, mode)
        ELSE [i \in DOMAIN targets |-> Move(board, from, targets[i], FALSE)]

Of(board, side) == {q \in Squares : ~Empty(board, q) /\ board[q].side = side}

\* generateMoves: square by square.
Generated(board, moved, side, mode) ==
    UNION {Range(MovesFrom(board, moved, q, mode)) : q \in Of(board, side)}

CanMove(board, moved, side) ==
    \E q \in Of(board, side) : MovesFrom(board, moved, q, "all") # <<>>

PawnOrigin(q, side) == q[1] - Forward(side)

PawnSources(q, side) ==
    IF OnBoard(PawnOrigin(q, side))
    THEN {<<PawnOrigin(q, side), Wrap(q[2] + step)>> : step \in {-1, 1}}
    ELSE {}

Is(board, q, side, kinds) ==
    ~Empty(board, q) /\ board[q].side = side /\ board[q].kind \in kinds

\* The last square of each ray's prefix, scanning outward from q.
Hits(board, q, directions) ==
    {Last(Prefix(board, Rays[q][d])) :
       d \in {x \in Range(directions) : Rays[q][x] # <<>>}}

\* Who attacks q, by the scan isAttacked and leastValuableAttacker share.
Attackers(board, q, side) ==
    {p \in PawnSources(q, side) : Is(board, p, side, {"pawn"})}
    \cup {p \in Range(KnightTargets[q]) : Is(board, p, side, {"knight"})}
    \cup {p \in Range(KingTargets[q]) : Is(board, p, side, {"king"})}
    \cup {p \in Hits(board, q, Straight) :
            Is(board, p, side, {"rook", "queen"})}
    \cup {p \in Hits(board, q, Diagonal) :
            Is(board, p, side, {"bishop", "queen"})}

-----------------------------------------------------------------------------
(***************************************************************************)
(* The engine's position: made and unmade in place, hashed as it goes.     *)
(***************************************************************************)

Xor(a, b) == (a \ b) \cup (b \ a)
PieceKey(q, code) ==
    IF code = NoPiece THEN {} ELSE {<<q, code.side, code.kind>>}
MovedKey(q, set) == IF set THEN {<<q, "moved", "">>} ELSE {}
SideKey == {<<<<0, 0>>, "turn", "">>}

BoardOf(pieces) == [q \in Squares |->
    LET here == {id \in DOMAIN pieces : pieces[id].at = q}
    IN  IF here = {} THEN NoPiece
        ELSE LET id == CHOOSE id \in here : TRUE
             IN  [side |-> pieces[id].side, kind |-> pieces[id].kind]]

MovedOf(pieces) ==
    {pieces[id].at : id \in {x \in DOMAIN pieces : pieces[x].moved}}

\* recomputeHash.
Rehash(board, moved, side) ==
    UNION {PieceKey(q, board[q]) : q \in Squares}
    \cup UNION {MovedKey(q, TRUE) : q \in moved}
    \cup (IF side = "black" THEN SideKey ELSE {})

\* positionFromPieces.
FromPieces(pieces, side) ==
    LET board == BoardOf(pieces)
        moved == MovedOf(pieces)
    IN  [board |-> board, moved |-> moved, side |-> side,
         hash |-> Rehash(board, moved, side)]

Placed(p, m) ==
    IF m.promotes THEN [p.board[m.from] EXCEPT !.kind = "queen"]
                  ELSE p.board[m.from]

\* Mutant: the captured piece's moved flag stays in the hash.
MakeKeys_Stale(p, m) ==
    <<PieceKey(m.from, p.board[m.from]), MovedKey(m.from, m.from \in p.moved),
      PieceKey(m.to, p.board[m.to]),
      PieceKey(m.to, Placed(p, m)), MovedKey(m.to, TRUE), SideKey>>

\* What make xors, in its order; unmake xors the same keys again.
MakeKeys(p, m) ==
    <<PieceKey(m.from, p.board[m.from]), MovedKey(m.from, m.from \in p.moved),
      PieceKey(m.to, p.board[m.to]), MovedKey(m.to, m.to \in p.moved),
      PieceKey(m.to, Placed(p, m)), MovedKey(m.to, TRUE), SideKey>>

Xored(hash, keys) == FoldLeft(Xor, hash, keys)

Made(p, m) ==
    [board |-> [p.board EXCEPT ![m.from] = NoPiece, ![m.to] = Placed(p, m)],
     moved |-> (p.moved \ {m.from}) \cup {m.to},
     side  |-> Other(p.side),
     hash  |-> Xored(p.hash, MakeKeys(p, m))]

\* The record make pushes: the move, both squares' pieces and moved flags.
UndoRecord(p, m) ==
    [from |-> m.from, to |-> m.to,
     moving |-> p.board[m.from], captured |-> p.board[m.to],
     fromMoved |-> m.from \in p.moved, toMoved |-> m.to \in p.moved]

Passed(p) == [p EXCEPT !.side = Other(@), !.hash = Xor(@, SideKey)]

PassRecord == [from |-> None]

Restored(p, r) ==
    (p.moved \ {r.from, r.to})
      \cup (IF r.fromMoved THEN {r.from} ELSE {})
      \cup (IF r.toMoved THEN {r.to} ELSE {})

Unmade(p, r) ==
    IF r.from = None THEN Passed(p)
    ELSE [board |-> [p.board EXCEPT ![r.from] = r.moving,
                                    ![r.to] = r.captured],
          moved |-> Restored(p, r),
          side  |-> Other(p.side),
          hash  |-> Xored(p.hash,
                      <<PieceKey(r.to, p.board[r.to]),
                        MovedKey(r.to, r.to \in p.moved),
                        PieceKey(r.from, r.moving),
                        MovedKey(r.from, r.fromMoved),
                        PieceKey(r.to, r.captured),
                        MovedKey(r.to, r.toMoved), SideKey>>)]

\* A search starts from the game's pieces.
OpenSearch ==
    /\ position = None
    /\ game.outcome = "none" /\ game.plies < MaxLine
    /\ position' = FromPieces(game.pieces, game.turn)
    /\ undo' = <<>>
    /\ UNCHANGED <<first, game>>

\* Kings are never made: their capture is scored where it is found.
Make ==
    /\ position # None
    /\ game.plies + Len(undo) < MaxLine
    /\ \E m \in Generated(position.board, position.moved, position.side,
                          "all") :
         /\ m.captured.kind # "king"
         /\ position' = Made(position, m)
         /\ undo' = Append(undo, UndoRecord(position, m))
    /\ UNCHANGED <<first, game>>

MakePass ==
    /\ position # None
    /\ game.plies + Len(undo) < MaxLine
    /\ ~CanMove(position.board, position.moved, position.side)
    /\ CanMove(position.board, position.moved, Other(position.side))
    /\ position' = Passed(position)
    /\ undo' = Append(undo, PassRecord)
    /\ UNCHANGED <<first, game>>

Unmake ==
    /\ position # None
    /\ undo # <<>>
    /\ position' = Unmade(position, Last(undo))
    /\ undo' = Front(undo)
    /\ UNCHANGED <<first, game>>

CloseSearch ==
    /\ position # None
    /\ undo = <<>>
    /\ position' = None
    /\ UNCHANGED <<first, game, undo>>

-----------------------------------------------------------------------------
(***************************************************************************)
(* The rules.                                                              *)
(***************************************************************************)

HasKing(pieces, side) ==
    \E id \in DOMAIN pieces :
      pieces[id].side = side /\ pieces[id].kind = "king"

HasLegalMove(pieces, side) ==
    CanMove(BoardOf(pieces), MovedOf(pieces), side)

\* getGameOutcome, in its order.
Outcome(pieces, quiet, plies) ==
    CASE ~HasKing(pieces, "white") \/ ~HasKing(pieces, "black") ->
           "king-captured"
      [] ~HasLegalMove(pieces, "white") /\ ~HasLegalMove(pieces, "black") ->
           "no-moves"
      [] quiet >= MaxQuiet -> "no-progress"
      [] plies >= MaxPlies -> "move-limit"
      [] OTHER -> "none"

NewGame(setup) ==
    [pieces |-> setup, turn |-> "white", plies |-> 0, quiet |-> 0,
     events |-> <<>>, outcome |-> Outcome(setup, 0, 0)]

LegalMoves(pieces, id) ==
    Range(MovesFrom(BoardOf(pieces), MovedOf(pieces), pieces[id].at, "all"))

Promotes(piece, to) ==
    piece.kind = "pawn" /\ to[1] = LastRing(piece.side)

\* applyMove on the list of pieces, which knows nothing of the engine's moves
\* but their destinations.
Applied(pieces, id, to) ==
    LET taken == {x \in DOMAIN pieces : pieces[x].at = to}
        piece == [pieces[id] EXCEPT
                    !.at = to, !.moved = TRUE,
                    !.kind = IF Promotes(pieces[id], to) THEN "queen" ELSE @]
    IN  [x \in DOMAIN pieces \ taken |->
           IF x = id THEN piece ELSE pieces[x]]

MoveEvent(g, id, to) ==
    [type |-> "move", ply |-> g.plies + 1, side |-> g.turn, piece |-> id,
     from |-> g.pieces[id].at, to |-> to,
     captured |-> {x \in DOMAIN g.pieces : g.pieces[x].at = to},
     promoted |-> Promotes(g.pieces[id], to)]

PassEvent(g) == [type |-> "forced-pass", ply |-> g.plies + 1, side |-> g.turn]

\* An action ends the turn, unless it ended the game.
After(g, pieces, quiet, event) ==
    LET outcome == Outcome(pieces, quiet, g.plies + 1)
    IN  [pieces |-> pieces, quiet |-> quiet, plies |-> g.plies + 1,
         turn |-> IF outcome = "none" THEN Other(g.turn) ELSE g.turn,
         events |-> Append(g.events, event), outcome |-> outcome]

AfterMove(g, id, to) ==
    LET event == MoveEvent(g, id, to)
    IN  After(g, Applied(g.pieces, id, to),
              IF event.captured = {} THEN g.quiet + 1 ELSE 0, event)

AfterPass(g) == After(g, g.pieces, g.quiet + 1, PassEvent(g))

Accepts(g, id, to) ==
    /\ g.outcome = "none"
    /\ id \in DOMAIN g.pieces /\ g.pieces[id].side = g.turn
    /\ to \in {m.to : m \in LegalMoves(g.pieces, id)}

\* settleForcedPasses.
RECURSIVE Settled(_)
Settled(g) ==
    IF g.outcome # "none" \/ HasLegalMove(g.pieces, g.turn) THEN g
    ELSE Settled(AfterPass(g))

\* acceptMoveCommand.
Accept ==
    /\ position = None
    /\ LET g == Settled(game)
       IN  \E id \in DOMAIN g.pieces :
             \E m \in LegalMoves(g.pieces, id) :
               /\ Accepts(g, id, m.to)
               /\ game' = Settled(AfterMove(g, id, m.to))
    /\ UNCHANGED <<first, position, undo>>

-----------------------------------------------------------------------------
(***************************************************************************)
(* Replay: events are validated against the same rules, passes included.   *)
(***************************************************************************)

Invalid(g) == [g EXCEPT !.outcome = "invalid"]

\* Mutant: what a move event says it captured is not compared.
SameEvent_Loose(event, canonical) ==
    [event EXCEPT !.captured = {}] = [canonical EXCEPT !.captured = {}]

SameEvent(event, canonical) == event = canonical

\* applyReplayMove: a pass that is due comes first.
ReplayMove(g, e) ==
    IF /\ HasLegalMove(g.pieces, g.turn)
       /\ e.ply = g.plies + 1
       /\ Accepts(g, e.piece, e.to)
       /\ SameEvent(e, MoveEvent(g, e.piece, e.to))
    THEN AfterMove(g, e.piece, e.to) ELSE Invalid(g)

\* applyReplayPass.
ReplayPass(g, e) ==
    IF /\ g.outcome = "none"
       /\ e = PassEvent(g)
       /\ ~HasLegalMove(g.pieces, g.turn)
    THEN AfterPass(g) ELSE Invalid(g)

ReplayEvent(g, e) ==
    IF g.outcome = "invalid" THEN g
    ELSE IF e.type = "move" THEN ReplayMove(g, e) ELSE ReplayPass(g, e)

\* replayGameEvents.
Replayed(setup, events) ==
    LET g == FoldLeft(ReplayEvent, NewGame(setup), events)
    IN  IF g.outcome = "none" /\ ~HasLegalMove(g.pieces, g.turn)
        THEN Invalid(g) ELSE g

-----------------------------------------------------------------------------
Init ==
    /\ first \in Setups
    /\ game = NewGame(first)
    /\ position = None
    /\ undo = <<>>

Next == OpenSearch \/ Make \/ MakePass \/ Unmake \/ CloseSearch \/ Accept

Spec == Init /\ [][Next]_chessVars

-----------------------------------------------------------------------------
(***************************************************************************)
(* Properties.                                                             *)
(***************************************************************************)

Quiet(m) == m.captured = NoPiece

\* On every board the engine meets: no move is generated twice; captures are
\* what all moves capture, tactical moves those and the quiet promotions; and
\* the scan outward from a square finds exactly the pieces whose generated
\* moves would take what stands there, though it never generates a move.
MovesAreSound ==
    LET board == IF position = None THEN BoardOf(game.pieces)
                                    ELSE position.board
        moved == IF position = None THEN MovedOf(game.pieces)
                                    ELSE position.moved
    IN  \A side \in {"white", "black"} :
          LET all == Generated(board, moved, side, "all")
          IN  /\ \A q \in Of(board, side) :
                   IsInjective(MovesFrom(board, moved, q, "all"))
              /\ Generated(board, moved, side, "captures") =
                   {m \in all : ~Quiet(m)}
              /\ Generated(board, moved, side, "tactical") =
                   {m \in all : ~Quiet(m) \/ m.promotes}
              /\ \A q \in Of(board, Other(side)) :
                   Attackers(board, q, side) =
                     {m.from : m \in {x \in all : x.to = q}}

RECURSIVE Unwound(_, _)
Unwound(p, stack) ==
    IF stack = <<>> THEN p ELSE Unwound(Unmade(p, Last(stack)), Front(stack))

\* However deep a search is, its hash is the one a fresh count of the board
\* gives, and taking its moves back, promotions, captures and passes among
\* them, gives the game's own position again.
PositionIsExact ==
    position # None =>
      /\ position.hash =
           Rehash(position.board, position.moved, position.side)
      /\ Unwound(position, undo) = FromPieces(game.pieces, game.turn)

\* Some other account of the same game: one event lost, or a capture denied.
Altered(events) ==
    {RemoveAt(events, i) : i \in 1 .. Len(events) - 1}
    \cup {ReplaceAt(events, i, [events[i] EXCEPT !.captured = {}]) :
            i \in {j \in DOMAIN events : /\ events[j].type = "move"
                                         /\ events[j].captured # {}}}

\* The stored stream replays to the very state it was accepted in; no stream
\* with an earlier event missing, or with a capture it does not own up to, is
\* valid; a game that is not over has a side to move that can; and no two
\* events in a row are of the same side.
GameReplays ==
    /\ Replayed(first, game.events) = game
    /\ \A events \in Altered(game.events) :
         Replayed(first, events).outcome = "invalid"
    /\ game.outcome = "none" => HasLegalMove(game.pieces, game.turn)
    /\ \A i \in 1 .. Len(game.events) - 1 :
         game.events[i].side # game.events[i + 1].side

=============================================================================
