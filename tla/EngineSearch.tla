----------------------------- MODULE EngineSearch -----------------------------
(***************************************************************************)
(* The move search (src/lib/engine/search.ts, transposition.ts, index.ts): *)
(* iterative deepening with an aspiration window over a principal-         *)
(* variation negamax with a direct-mapped transposition table, killers,    *)
(* history and a capture search at the leaves, under a budget of nodes and *)
(* of time.                                                                *)
(*                                                                         *)
(* The board is a constant graph: a node is <<board, side>>, its moves are *)
(* given, and so is what the static evaluation says of it.  Two keys are   *)
(* equal when what was hashed is (64-bit collisions are left out), slots   *)
(* of the table do collide.  Make and unmake are in CircularChess.         *)
(***************************************************************************)
EXTENDS Integers, Sequences, FiniteSets, SequencesExt

CONSTANTS
    Boards,         \* numbers
    MovesOf,        \* node -> sequence of [id, to, captured, promotes, bias]
    Evaluations,    \* functions node -> score, positive is good for white
    Asks,           \* [board, side, plies, quiet, target, nodes, expires]
    None, Pass,
    Mate,           \* MATE_SCORE
    MatePlies,      \* MAX_SEARCH_PLIES
    MateMargin,     \* the 1_000 a wide window keeps from Mate
    Aspiration,     \* ASPIRATION_WINDOW
    MaxExtension,   \* MAX_QUIESCENCE_PLIES
    MaxQuiet, MaxPlies,
    TableSize

VARIABLES
    ask,            \* the request, fixed
    evaluation,     \* one of Evaluations, fixed
    search,         \* Search: table, killers, history, nodes, stop
    outcome,        \* [move, score, depth, line, stop]
    attempt         \* a root search that missed its window, else None

searchVars == <<ask, evaluation, search, outcome, attempt>>

Other(side) == IF side = "white" THEN "black" ELSE "white"
Larger(a, b) == IF a > b THEN a ELSE b
Smaller(a, b) == IF a < b THEN a ELSE b
Nodes == Boards \X {"white", "black"}

Root == <<ask.board, ask.side>>
Step(n, m) == <<m.to, Other(n[2])>>
PassStep(n) == <<n[1], Other(n[2])>>

TakesKing(m) == m.captured = "king"
Calm(m) == m.captured = "none"
NextQuiet(quiet, m) == IF Calm(m) THEN quiet + 1 ELSE 0

Drawn(ply, quiet) == quiet >= MaxQuiet \/ ask.plies + ply >= MaxPlies
DrawnByPass(ply, quiet) == Drawn(ply + 1, quiet + 1)

Stands(n) == IF n[2] = "white" THEN evaluation[n] ELSE -evaluation[n]

\* A king is attacked by what could take it (CircularChess!MovesAreSound).
Threatened(n) == \E i \in DOMAIN MovesOf[PassStep(n)] :
                    TakesKing(MovesOf[PassStep(n)][i])

-----------------------------------------------------------------------------
(***************************************************************************)
(* The transposition table.                                                *)
(***************************************************************************)

Remaining(ply) == Larger(0, MaxPlies - (ask.plies + ply))

\* Mutant: the no-progress counter is not part of the key.
StateKey_NoQuiet(n, ply, quiet) == <<n, 0, Remaining(ply)>>

StateKey(n, ply, quiet) == <<n, quiet, Remaining(ply)>>

IndexOf(key) ==
    (3 * key[1][1] + (IF key[1][2] = "white" THEN 0 ELSE 1)
       + key[2] + 2 * key[3]) % TableSize

NoEntry == [key |-> <<>>, depth |-> 0, score |-> 0, flag |-> "", move |-> None]

Probe(table, n, ply, quiet) ==
    LET key == StateKey(n, ply, quiet)
        e   == table[IndexOf(key)]
    IN  IF e.key = key THEN e ELSE NoEntry

ToTable(score, ply) ==
    IF score >= Mate - MatePlies THEN score + ply
    ELSE IF score <= MatePlies - Mate THEN score - ply ELSE score

FromTable(score, ply) ==
    IF score >= Mate - MatePlies THEN score - ply
    ELSE IF score <= MatePlies - Mate THEN score + ply ELSE score

Flag(score, alpha, beta) ==
    IF score <= alpha THEN "upper"
    ELSE IF score >= beta THEN "lower" ELSE "exact"

Store(s, n, ply, quiet, depth, score, flag, move) ==
    LET key == StateKey(n, ply, quiet)
        at  == IndexOf(key)
        keeps == /\ s.table[at].key = key
                 /\ s.table[at].depth > depth /\ flag # "exact"
    IN  IF keeps THEN s
        ELSE [s EXCEPT !.table[at] =
                [key |-> key, depth |-> depth, score |-> ToTable(score, ply),
                 flag |-> flag, move |-> move]]

-----------------------------------------------------------------------------
(***************************************************************************)
(* Budget and move order.                                                  *)
(***************************************************************************)

Stopped(s) == s.stop # "complete"

\* The clock is read at the first node and at every interval after it;
\* ask.expires is the reading that finds the deadline passed (0: none).
VisitNode(s) ==
    IF s.nodes >= ask.nodes THEN [s EXCEPT !.stop = "nodes"]
    ELSE IF s.nodes + 1 = ask.expires
         THEN [s EXCEPT !.nodes = @ + 1, !.stop = "time"]
         ELSE [s EXCEPT !.nodes = @ + 1]

\* Ranks are far apart, as in the code: no bias or history bridges two.
Rank == 1000

OrderScore(s, m, ply, preferred) ==
    LET killers == s.killers[ply]
        base == CASE m = preferred         -> 9 * Rank
                  [] TakesKing(m)          -> 8 * Rank
                  [] ~Calm(m)              -> 7 * Rank
                  [] m.promotes            -> 6 * Rank
                  [] m = killers[1]        -> 5 * Rank
                  [] m = killers[2]        -> 4 * Rank
                  [] OTHER                 -> s.history[m.id]
    IN  base + (IF ply = 0 THEN m.bias ELSE 0)

Ordered(s, n, ply, preferred) ==
    [i \in DOMAIN MovesOf[n] |->
       [move |-> MovesOf[n][i],
        score |-> OrderScore(s, MovesOf[n][i], ply, preferred)]]

\* The best of what is left changes places with the next.
SelectNext(frame, i) ==
    LET best == CHOOSE j \in i .. Len(frame) :
                  \A k \in i .. Len(frame) :
                    /\ frame[k].score <= frame[j].score
                    /\ frame[k].score = frame[j].score => j <= k
    IN  [frame EXCEPT ![i] = frame[best], ![best] = frame[i]]

RecordQuietCutoff(s, m, depth, ply) ==
    [s EXCEPT
       !.killers[ply] = IF @[1] = m THEN @ ELSE <<m, @[1]>>,
       !.history[m.id] = @ + depth * depth]

-----------------------------------------------------------------------------
(***************************************************************************)
(* The search.  A result is [s, score]; a stopped one unwinds to the root. *)
(***************************************************************************)

Scored(s, score) == [s |-> s, score |-> score]
Negated(r) == Scored(r.s, -r.score)

RECURSIVE Quiesce(_, _, _, _, _, _, _)
RECURSIVE QuietLoop(_, _, _, _, _, _, _, _, _, _)
RECURSIVE Negamax(_, _, _, _, _, _, _)
RECURSIVE Loop(_, _, _, _, _, _, _, _, _, _, _)

KingCaptures(n) == {i \in DOMAIN MovesOf[n] : TakesKing(MovesOf[n][i])}
HasQuietMove(n) == \E i \in DOMAIN MovesOf[n] : Calm(MovesOf[n][i])

\* What the leaf is worth before any move is tried.
LeafValue(n, ply, quiet) ==
    IF quiet = MaxQuiet - 1
    THEN IF HasQuietMove(n) THEN 0 ELSE ply - Mate
    ELSE IF Threatened(n) THEN ply - Mate ELSE Stands(n)

\* Captures and promotions; before a draw captures only; for a threatened
\* king anything.
Tries(n, m, quiet) ==
    IF quiet = MaxQuiet - 1 THEN ~Calm(m)
    ELSE Threatened(n) \/ ~Calm(m) \/ m.promotes

QuiescePass(s, n, alpha, beta, ply, extension, quiet) ==
    IF MovesOf[PassStep(n)] = <<>> \/ DrawnByPass(ply, quiet) THEN Scored(s, 0)
    ELSE IF extension >= MaxExtension THEN Scored(s, Stands(n))
    ELSE Negated(Quiesce(s, PassStep(n), -beta, -alpha, ply + 1,
                         extension + 1, quiet + 1))

Quiesce(s, n, alpha, beta, ply, extension, quiet) ==
    LET v == VisitNode(s)
        best == LeafValue(n, ply, quiet)
        raised == IF quiet # MaxQuiet - 1 /\ Threatened(n) THEN alpha
                  ELSE Larger(alpha, best)
    IN  IF Stopped(v) \/ Drawn(ply, quiet) THEN Scored(v, 0)
        ELSE IF MovesOf[n] = <<>>
             THEN QuiescePass(v, n, alpha, beta, ply, extension, quiet)
        ELSE IF ask.plies + ply = MaxPlies - 1
             THEN Scored(v, IF KingCaptures(n) # {} THEN Mate - ply ELSE 0)
        ELSE IF raised >= beta \/ extension >= MaxExtension THEN Scored(v, best)
        ELSE QuietLoop(v, n, Ordered(v, n, ply, None), 1, raised, beta, ply,
                       extension, quiet, best)

\* What the loop makes of one answer r.
QuietTried(r, n, frame, i, alpha, beta, ply, extension, quiet, best) ==
    LET b == Larger(best, r.score)
        a == Larger(alpha, r.score)
    IN  IF Stopped(r.s) THEN r
        ELSE IF a >= beta THEN Scored(r.s, Larger(b, a))
        ELSE QuietLoop(r.s, n, frame, i + 1, a, beta, ply, extension, quiet, b)

QuietLoop(s, n, frame, i, alpha, beta, ply, extension, quiet, best) ==
    IF i > Len(frame) THEN Scored(s, Larger(best, alpha))
    ELSE LET f == SelectNext(frame, i)
             m == f[i].move
         IN  IF ~Tries(n, m, quiet)
             THEN QuietLoop(s, n, f, i + 1, alpha, beta, ply, extension, quiet,
                            best)
             ELSE IF TakesKing(m) THEN Scored(s, Mate - ply)
             ELSE QuietTried(Negated(Quiesce(s, Step(n, m), -beta, -alpha,
                               ply + 1, extension + 1, NextQuiet(quiet, m))),
                             n, f, i, alpha, beta, ply, extension, quiet, best)

Researches(score, alpha, beta) == score > alpha /\ score < beta

Reply(s, n, m, depth, ply, alpha, beta, quiet) ==
    Negated(Negamax(s, Step(n, m), depth - 1, ply + 1, -beta, -alpha,
                    NextQuiet(quiet, m)))

Confirmed(scout, n, m, depth, ply, alpha, beta, quiet) ==
    IF ~Stopped(scout.s) /\ Researches(scout.score, alpha, beta)
    THEN Reply(scout.s, n, m, depth, ply, alpha, beta, quiet) ELSE scout

\* The first move with the whole window, others with an empty one first.
Child(s, n, m, isFirst, depth, ply, alpha, beta, quiet) ==
    IF isFirst THEN Reply(s, n, m, depth, ply, alpha, beta, quiet)
    ELSE Confirmed(Reply(s, n, m, depth, ply, alpha, alpha + 1, quiet),
                   n, m, depth, ply, alpha, beta, quiet)

\* What the loop makes of one answer r.
Tried(r, n, frame, i, depth, ply, alpha, beta, quiet, best, move) ==
    LET m == frame[i].move
        a == Larger(alpha, r.score)
        b == Larger(best, r.score)
        bm == IF r.score > best THEN m ELSE move
    IN  IF Stopped(r.s) THEN [s |-> r.s, score |-> best, move |-> move]
        ELSE IF a >= beta
        THEN [s |-> IF ply > 0 /\ Calm(m) /\ ~m.promotes
                    THEN RecordQuietCutoff(r.s, m, depth, ply) ELSE r.s,
              score |-> b, move |-> bm]
        ELSE Loop(r.s, n, frame, i + 1, depth, ply, a, beta, quiet, b, bm)

\* One move after another, until beta is reached: [s, score, move].
Loop(s, n, frame, i, depth, ply, alpha, beta, quiet, best, move) ==
    IF i > Len(frame) THEN [s |-> s, score |-> best, move |-> move]
    ELSE LET f == SelectNext(frame, i)
             m == f[i].move
         IN  Tried(IF TakesKing(m) THEN Scored(s, Mate - ply)
                   ELSE Child(s, n, m, i = 1, depth, ply, alpha, beta, quiet),
                   n, f, i, depth, ply, alpha, beta, quiet, best, move)

\* A finished node goes to the table.
Stored(r, n, ply, quiet, depth, alpha, beta, move) ==
    IF Stopped(r.s) THEN Scored(r.s, 0)
    ELSE Scored(Store(r.s, n, ply, quiet, depth, r.score,
                      Flag(r.score, alpha, beta), move), r.score)

SearchPass(s, n, depth, ply, alpha, beta, quiet) ==
    LET lone == MovesOf[PassStep(n)] = <<>>
    IN  Stored(IF lone \/ DrawnByPass(ply, quiet) THEN Scored(s, 0)
               ELSE Negated(Negamax(s, PassStep(n), depth - 1, ply + 1, -beta,
                                    -alpha, quiet + 1)),
               n, ply, quiet, depth, alpha, beta, IF lone THEN None ELSE Pass)

StoredLoop(r, n, ply, quiet, depth, alpha, beta) ==
    Stored(r, n, ply, quiet, depth, alpha, beta, r.move)

\* What a visited node takes from the table before it is searched.
Entered(v, n, depth, ply, alpha, beta, quiet) ==
    LET e == Probe(v.table, n, ply, quiet)
        usable == e # NoEntry /\ e.depth >= depth
        known == FromTable(e.score, ply)
        lo == IF usable /\ e.flag = "lower" THEN Larger(alpha, known) ELSE alpha
        hi == IF usable /\ e.flag = "upper" THEN Smaller(beta, known) ELSE beta
    IN  IF usable /\ (e.flag = "exact" \/ lo >= hi) THEN Scored(v, known)
        ELSE IF MovesOf[n] = <<>>
             THEN SearchPass(v, n, depth, ply, lo, hi, quiet)
        ELSE StoredLoop(Loop(v, n, Ordered(v, n, ply, e.move), 1, depth, ply,
                             lo, hi, quiet, -Mate - 1, None),
                        n, ply, quiet, depth, lo, hi)

Negamax(s, n, depth, ply, alpha, beta, quiet) ==
    LET v == VisitNode(s)
    IN  IF Stopped(v) \/ Drawn(ply, quiet) THEN Scored(v, 0)
        ELSE IF depth <= 0 THEN Quiesce(v, n, alpha, beta, ply, 0, quiet)
        ELSE Entered(v, n, depth, ply, alpha, beta, quiet)

StoredRoot(r, depth, alpha, beta) ==
    IF Stopped(r.s) THEN r
    ELSE [r EXCEPT !.s = Store(r.s, Root, 0, ask.quiet, depth, r.score,
                               Flag(r.score, alpha, beta), r.move)]

SearchRoot(s, depth, alpha, beta, preferred) ==
    LET v == VisitNode(s)
    IN  IF Stopped(v) THEN [s |-> v, score |-> 0, move |-> None]
        ELSE StoredRoot(Loop(v, Root, Ordered(v, Root, 0, preferred), 1, depth,
                             0, alpha, beta, ask.quiet, -Mate - 1, None),
                        depth, alpha, beta)

\* principalVariation: the table's moves, as long as they are legal.
RECURSIVE Variation(_, _, _, _, _)
Variation(table, n, ply, quiet, depth) ==
    LET move == Probe(table, n, ply, quiet).move
    IN  IF ply >= depth \/ Drawn(ply, quiet) \/ move = None THEN <<>>
        ELSE IF move = Pass
             THEN IF MovesOf[n] = <<>> /\ MovesOf[PassStep(n)] # <<>>
                  THEN Variation(table, PassStep(n), ply + 1, quiet + 1, depth)
                  ELSE <<>>
        ELSE IF ~Contains(MovesOf[n], move) THEN <<>>
        ELSE <<move>> \o
             (IF TakesKing(move) THEN <<>>
              ELSE Variation(table, Step(n, move), ply + 1,
                             NextQuiet(quiet, move), depth))

-----------------------------------------------------------------------------
(***************************************************************************)
(* Iterative deepening.                                                    *)
(***************************************************************************)

FreshSearch ==
    [table   |-> [i \in 0 .. TableSize - 1 |-> NoEntry],
     killers |-> [ply \in 0 .. MatePlies |-> <<None, None>>],
     history |-> [id \in UNION {{MovesOf[n][i].id : i \in DOMAIN MovesOf[n]} :
                                  n \in Nodes} |-> 0],
     nodes   |-> 0, stop |-> "complete"]

EmptyOutcome(reason) ==
    [move |-> None, score |-> 0, depth |-> 0, line |-> <<>>, stop |-> reason]

\* The move the seed's hash prefers.
FallbackRootMove(moves) ==
    moves[CHOOSE i \in DOMAIN moves : \A j \in DOMAIN moves :
            /\ moves[j].bias <= moves[i].bias
            /\ moves[j].bias = moves[i].bias => i <= j]

\* searchBestMove, up to its loop.
Opening(a) ==
    LET moves == MovesOf[<<a.board, a.side>>]
    IN  IF a.plies >= MaxPlies \/ a.quiet >= MaxQuiet
        THEN EmptyOutcome("game-over")
        ELSE IF moves = <<>> THEN EmptyOutcome("no-move")
        ELSE [EmptyOutcome("none") EXCEPT
                !.move = FallbackRootMove(moves),
                !.line = <<FallbackRootMove(moves)>>]

Depth == outcome.depth + 1
Searching == outcome.stop = "none" /\ outcome.depth < ask.target

Near == Depth >= 3
        /\ outcome.score < Mate - MateMargin /\ outcome.score > MateMargin - Mate
Low == IF Near THEN Larger(-Mate, outcome.score - Aspiration) ELSE -Mate
High == IF Near THEN Smaller(Mate, outcome.score + Aspiration) ELSE Mate

Misses(r) == r.score <= Low \/ r.score >= High

Publish(r) ==
    outcome' = [move |-> r.move, score |-> r.score, depth |-> Depth,
                line |-> Variation(r.s.table, Root, 0, ask.quiet, Depth),
                stop |-> IF Depth = ask.target THEN "depth" ELSE "none"]

\* An aborted search keeps what was last published.
Abort(r) == outcome' = [outcome EXCEPT !.stop = r.s.stop]

Iterate ==
    /\ Searching /\ attempt = None
    /\ LET r == SearchRoot(search, Depth, Low, High, outcome.move)
       IN  /\ search' = r.s
           /\ IF Stopped(r.s) THEN Abort(r) /\ UNCHANGED attempt
              ELSE IF Misses(r)
                   THEN attempt' = r.move /\ UNCHANGED outcome
                   ELSE Publish(r) /\ UNCHANGED attempt
    /\ UNCHANGED <<ask, evaluation>>

\* Once more, with the whole window.
Widen ==
    /\ Searching /\ attempt # None
    /\ LET r == SearchRoot(search, Depth, -Mate, Mate, attempt)
       IN  /\ search' = r.s
           /\ attempt' = None
           /\ IF Stopped(r.s) THEN Abort(r) ELSE Publish(r)
    /\ UNCHANGED <<ask, evaluation>>

Init ==
    /\ ask \in Asks
    /\ evaluation \in Evaluations
    /\ search = FreshSearch
    /\ outcome = Opening(ask)
    /\ attempt = None

Next == Iterate \/ Widen

Spec == Init /\ [][Next]_searchVars

-----------------------------------------------------------------------------
(***************************************************************************)
(* Properties.                                                             *)
(***************************************************************************)

Greatest(S) == CHOOSE x \in S : \A y \in S : y <= x

\* The value of a leaf and of a line by plain minimax: no window, no table,
\* no order, no memory.
RECURSIVE LeafWorth(_, _, _, _)
LeafWorth(n, ply, extension, quiet) ==
    LET tried == {i \in DOMAIN MovesOf[n] : Tries(n, MovesOf[n][i], quiet)}
        Answer(m) == IF TakesKing(m) THEN Mate - ply
                     ELSE -LeafWorth(Step(n, m), ply + 1, extension + 1,
                                     NextQuiet(quiet, m))
    IN  IF Drawn(ply, quiet) THEN 0
        ELSE IF MovesOf[n] = <<>>
             THEN IF MovesOf[PassStep(n)] = <<>> \/ DrawnByPass(ply, quiet)
                  THEN 0
                  ELSE IF extension >= MaxExtension THEN Stands(n)
                  ELSE -LeafWorth(PassStep(n), ply + 1, extension + 1, quiet + 1)
        ELSE IF ask.plies + ply = MaxPlies - 1
             THEN IF KingCaptures(n) # {} THEN Mate - ply ELSE 0
        ELSE Greatest({LeafValue(n, ply, quiet)} \cup
               (IF extension >= MaxExtension THEN {}
                ELSE {Answer(MovesOf[n][i]) : i \in tried}))

RECURSIVE Worth(_, _, _, _)
MoveWorth(n, m, depth, ply, quiet) ==
    IF TakesKing(m) THEN Mate - ply
    ELSE -Worth(Step(n, m), depth - 1, ply + 1, NextQuiet(quiet, m))

Worth(n, depth, ply, quiet) ==
    IF Drawn(ply, quiet) THEN 0
    ELSE IF depth <= 0 THEN LeafWorth(n, ply, 0, quiet)
    ELSE IF MovesOf[n] = <<>>
         THEN IF MovesOf[PassStep(n)] = <<>> \/ DrawnByPass(ply, quiet) THEN 0
              ELSE -Worth(PassStep(n), depth - 1, ply + 1, quiet + 1)
    ELSE Greatest({MoveWorth(n, MovesOf[n][i], depth, ply, quiet) :
                     i \in DOMAIN MovesOf[n]})

\* The published line is a game: it opens with the published move and every
\* move in it is legal where it is played.
RECURSIVE Playable(_, _)
Playable(n, line) ==
    \/ line = <<>>
    \/ IF MovesOf[n] = <<>> THEN Playable(PassStep(n), line)
       ELSE /\ Contains(MovesOf[n], Head(line))
            /\ Playable(Step(n, Head(line)), Tail(line))

\* Window, table, order and abort change what is visited and nothing else:
\* the published score is the plain minimax value of the deepest depth that
\* was completed, within the draw rules; the published move attains it; the
\* line opens with it; and the budget is never exceeded.
SearchIsExact ==
    /\ search.nodes <= ask.nodes
    /\ outcome.depth > 0 =>
         /\ outcome.score = Worth(Root, outcome.depth, 0, ask.quiet)
         /\ outcome.score =
              MoveWorth(Root, outcome.move, outcome.depth, 0, ask.quiet)
    /\ outcome.move # None =>
         /\ Head(outcome.line) = outcome.move
         /\ Len(outcome.line) <= Larger(1, outcome.depth)
         /\ Playable(Root, outcome.line)

=============================================================================
