------------------------------ MODULE MCGames -------------------------------
(***************************************************************************)
(* A game as it is stored and as it is played, one component in each       *)
(* behaviour: its rows and events (GameStore), the board they are replayed *)
(* on (CircularChess) and the engine that plays the other side             *)
(* (EngineSearch).                                                         *)
(***************************************************************************)
EXTENDS MCGameStore, Integers, Sequences

CONSTANT Pass

-----------------------------------------------------------------------------
(* Three boards of five rings and six sectors: an open one, one where a    *)
(* rook, a bishop and two pawns meet on their way round, and one where     *)
(* Black is locked in and must pass.                                       *)
Man(side, kind, r, c) == [side |-> side, kind |-> kind, at |-> <<r, c>>, moved |-> FALSE]
White(kind, r, c) == Man("white", kind, r, c)
Black(kind, r, c) == Man("black", kind, r, c)

Open ==
  [wk |-> White("king", 4, 0), wp |-> White("pawn", 3, 4),
   bk |-> Black("king", 0, 1), bn |-> Black("knight", 0, 3), bp |-> Black("pawn", 1, 4)]
Slide ==
  [wk |-> White("king", 4, 4), wr |-> White("rook", 3, 0),
   wp |-> [White("pawn", 1, 1) EXCEPT !.moved = TRUE],
   bk |-> Black("king", 0, 4), bb |-> Black("bishop", 0, 2), bp |-> Black("pawn", 1, 0)]
Locked ==
  [wk |-> White("king", 4, 0), w0 |-> White("pawn", 2, 0), w2 |-> White("pawn", 2, 2),
   w4 |-> White("pawn", 2, 4), w1 |-> White("pawn", 3, 1), w3 |-> White("pawn", 3, 3),
   w5 |-> White("pawn", 3, 5), bk |-> Black("king", 0, 0), r1 |-> Black("rook", 0, 1),
   r2 |-> Black("rook", 0, 2), r3 |-> Black("rook", 0, 3), r4 |-> Black("rook", 0, 4),
   r5 |-> Black("rook", 0, 5), p0 |-> Black("pawn", 1, 0), p2 |-> Black("pawn", 1, 2),
   p4 |-> Black("pawn", 1, 4), s1 |-> Black("rook", 1, 1), s3 |-> Black("rook", 1, 3),
   s5 |-> Black("rook", 1, 5), p1 |-> Black("pawn", 2, 1), p3 |-> Black("pawn", 2, 3),
   p5 |-> Black("pawn", 2, 5)]

-----------------------------------------------------------------------------
(* Six boards the search moves among: transpositions, a cycle, captures    *)
(* that answer captures, a king to be taken and a side that must pass.     *)
GraphBoards == 1..6
Quiet(id, to, bias) == [id |-> id, to |-> to, captured |-> "none", promotes |-> FALSE, bias |-> bias]
Takes(id, to, piece, bias) == [Quiet(id, to, bias) EXCEPT !.captured = piece]

GraphMoves == [n \in GraphBoards \X {"white", "black"} |->
  CASE n = <<1, "white">> -> <<Quiet("a", 2, 1), Quiet("b", 3, 4), Takes("c", 4, "piece", 2)>>
    [] n = <<1, "black">> -> <<Quiet("q", 5, 2), Quiet("r", 2, 1)>>
    [] n = <<2, "white">> -> <<Quiet("s", 6, 0)>>
    [] n = <<2, "black">> -> <<Quiet("d", 5, 0), Quiet("e", 4, 0)>>
    [] n = <<3, "white">> -> <<Quiet("t", 4, 0)>>
    [] n = <<3, "black">> -> <<Quiet("e", 4, 0), Takes("f", 6, "piece", 0),
                               [Quiet("g", 5, 0) EXCEPT !.promotes = TRUE]>>
    [] n = <<4, "white">> -> <<Quiet("h", 2, 3), Quiet("i", 6, 3)>>
    [] n = <<4, "black">> -> <<>>
    [] n = <<5, "white">> -> <<Quiet("j", 1, 0), Takes("k", 6, "king", 0)>>
    [] n = <<5, "black">> -> <<Quiet("l", 3, 0)>>
    [] n = <<6, "white">> -> <<Takes("m", 3, "piece", 0), Quiet("n", 1, 0)>>
    [] n = <<6, "black">> -> <<Takes("o", 2, "piece", 0), Quiet("p", 1, 1)>>]

Evaluated(value) ==
  [n \in GraphBoards \X {"white", "black"} |-> value[n[1]] + (IF n[2] = "white" THEN 1 ELSE 0)]
GraphEvaluations ==
  {Evaluated(v) : v \in {v \in [GraphBoards -> {-3, 0, 2}] : v[1] = 0 /\ v[5] # 0}}

(* With time and nodes to spare, or with either running out on the way.    *)
LostAsk == [board |-> 1, side |-> "white", plies |-> 6, quiet |-> 0, target |-> 3,
            nodes |-> 500, expires |-> 0]
GraphAsks ==
  [board : {1, 6}, side : {"white"}, plies : {0, 3}, quiet : {0, 2}, target : {4},
   nodes : {500, 25}, expires : {0}]
    \cup {[LostAsk EXCEPT !.expires = t] : t \in {0, 1, 8}}
VARIABLES
  part,  \* the component under check; fixed by the initial state
  boardFirst, boardGame, boardPosition, boardUndo,
  engineAsk, engineEvaluation, engineSearch, engineOutcome, engineAttempt

boardVars == <<boardFirst, boardGame, boardPosition, boardUndo>>
engineVars == <<engineAsk, engineEvaluation, engineSearch, engineOutcome,
                 engineAttempt>>

Board == INSTANCE CircularChess WITH
  Rings <- 5, Sectors <- 6, Setups <- {Open, Slide, Locked}, MaxQuiet <- 3,
  MaxPlies <- 3, MaxLine <- 2, first <- boardFirst, game <- boardGame,
  position <- boardPosition, undo <- boardUndo

Engine == INSTANCE EngineSearch WITH
  Boards <- GraphBoards, MovesOf <- GraphMoves, Evaluations <- GraphEvaluations,
  Asks <- GraphAsks, Mate <- 100, MatePlies <- 20, MateMargin <- 30,
  Aspiration <- 1, MaxExtension <- 3, MaxQuiet <- 4, MaxPlies <- 7,
  TableSize <- 5, ask <- engineAsk, evaluation <- engineEvaluation,
  search <- engineSearch, outcome <- engineOutcome, attempt <- engineAttempt

(* No state, of a component that is not under check.                       *)
NoBoard ==
  /\ boardFirst = None /\ boardGame = None /\ boardPosition = None
  /\ boardUndo = None
NoEngine ==
  /\ engineAsk = None /\ engineEvaluation = None /\ engineSearch = None
  /\ engineOutcome = None /\ engineAttempt = None

(* The components that are not under check rest where they begin.          *)
MCInit ==
  /\ part \in {"games", "board", "engine"}
  /\ Init
  /\ IF part = "board" THEN Board!Init ELSE NoBoard
  /\ IF part = "engine" THEN Engine!Init ELSE NoEngine

GamesStep ==
  /\ part = "games" /\ Next
  /\ UNCHANGED <<part, boardVars, engineVars>>

BoardStep ==
  /\ part = "board" /\ Board!Next
  /\ UNCHANGED <<part, vars, engineVars>>

EngineStep ==
  /\ part = "engine" /\ Engine!Next
  /\ UNCHANGED <<part, vars, boardVars>>

MCNext ==
  \/ GamesStep \/ BoardStep \/ EngineStep

MCSpec ==
  /\ MCInit
  /\ [][MCNext]_<<part, vars, boardVars, engineVars>>

-----------------------------------------------------------------------------
(* One component each; see its module.                                     *)

(* The moves offered on a position are found once and agree with what the  *)
(* attack scan sees, and no undo or line of the search leaves a trace.     *)
MovesAreSound == part = "board" => Board!MovesAreSound
PositionIsExact == part = "board" => Board!PositionIsExact

(* A recorded game replays to the very state it was accepted in.           *)
GameReplays == part = "board" => Board!GameReplays

(* The published score is the minimax value of the deepest finished depth. *)
SearchIsExact == part = "engine" => Engine!SearchIsExact
=============================================================================
