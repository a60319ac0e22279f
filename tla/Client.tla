------------------------------- MODULE Client -------------------------------
(***************************************************************************)
(* The browser client: src/App.tsx, the requests of src/lib/webchess-api   *)
(* and the search worker of src/lib/auto-play.                             *)
(*                                                                         *)
(* The network may lose a request, or its answer, or deliver a request     *)
(* after the client has given it up.  The client defends itself with       *)
(* intents: an idempotency key kept in a ref until the fate of the request *)
(* is known, reused by the retry, and a lock on "new question" while a     *)
(* division or a replay may still make a game nobody has seen.  Reads of   *)
(* the current game carry a generation, and so do engine searches.         *)
(*                                                                         *)
(* The hosted service is external: it executes a key at most once and      *)
(* refuses a request whose revision or status has moved.                   *)
(***************************************************************************)
EXTENDS Integers, FiniteSets

CONSTANTS
    MaxKeys,      \* idempotency keys the client may mint
    MaxFaults,    \* requests or answers the network loses, and 5xx answers
    MaxPlies,     \* plies of a game
    MaxReads      \* reads of the current game

Stages == {"portia", "answer", "charlotte"}
Makers == {"divide", "replay"}
Ops == Makers \cup Stages \cup {"start", "move", "reset", "retry", "wilbur"}
Keys == 1 .. MaxKeys

VARIABLES
    hosted,       \* what the service stores: its current game
    keyed,        \* what the service recorded for each key it executed
    sources,      \* finished games a replay has left behind, still replayable
    wire,         \* requests the network still holds
    shown,        \* the game on the screen
    intent,       \* the key each operation keeps for its retry, and its game, or none
    locked,       \* divisions and replays whose target is unresolved
    call,         \* the foreground mutation, or none
    read,         \* the read of the current game in flight, or none
    search,       \* the engine search in flight, or none
    auto,         \* auto-play is on
    minted,       \* keys minted
    closed,       \* keys whose fate the client has learnt, or that it has let go of
    faults, reads \* bounds

service == <<hosted, keyed, sources>>
screen == <<shown, intent, locked, auto>>
clientVars == <<hosted, keyed, sources, wire, shown, intent, locked, call, read, search,
                auto, minted, closed, faults, reads>>

Blank == [id |-> 0, status |-> "none", rev |-> 0]
NoIntent == [key |-> 0, game |-> Blank]
NoCall == [op |-> "none", key |-> 0, phase |-> "idle", reply |-> "none",
           game |-> Blank]
NoRead == [silent |-> FALSE, reply |-> Blank, phase |-> "idle"]
NoSearch == [phase |-> "idle", live |-> FALSE, mode |-> "manual", on |-> Blank]

----------------------------------------------------------------------------
(* The service, as far as the client can tell. *)

\* The status an operation needs, and the one it leads to.
Needs(op) ==
    CASE op = "start" -> {"mapped"}
      [] op = "move" -> {"playing"}
      [] op = "portia" -> {"completed"}
      [] op = "answer" -> {"gated"}
      [] op = "charlotte" -> {"answered"}
      [] op = "replay" -> {"completed", "gated", "denied", "answered", "qualified"}
      [] op = "retry" -> {"denied"}
      [] op = "wilbur" -> {"qualified"}
      [] op = "reset" -> {"mapped", "playing", "completed", "denied", "answered",
                          "qualified", "failed"}
      [] OTHER -> {}

Leads(op, g) ==
    CASE op = "start" -> {"playing"}
      [] op = "move" -> IF g.rev >= MaxPlies THEN {"completed"} ELSE {"playing", "completed"}
      [] op = "portia" -> {"gated", "denied"}
      [] op = "answer" -> {"answered"}
      [] op \in {"charlotte", "wilbur"} -> {"qualified"}
      [] op = "reset" -> {"none"}
      [] OTHER -> {}

\* The games one execution of the request may leave behind: a new one for a
\* division or a replay, named by its key; the next revision for the others.
Effects(r) ==
    IF r.op = "divide" THEN {[id |-> r.key, status |-> s, rev |-> 0] : s \in {"mapped", "failed"}}
    ELSE IF r.op = "replay" /\ r.game \in sources \cup {hosted}
         THEN {[id |-> r.key, status |-> "mapped", rev |-> 0]}
    ELSE IF hosted.id # r.game.id \/ hosted.rev # r.game.rev
            \/ hosted.status \notin Needs(r.op) THEN {}
    ELSE IF r.op = "retry" THEN {[id |-> r.key, status |-> "mapped", rev |-> 0]}
    ELSE {[hosted EXCEPT !.status = s, !.rev = @ + 1] : s \in Leads(r.op, hosted)}

Replies(r, verdict, g) ==
    call' = IF call.phase = "sent" /\ call.key = r.key /\ call.reply = "none"
            THEN [call EXCEPT !.reply = verdict, !.game = g] ELSE call

\* A request reaches the service and is executed, found executed, or refused.
Serves(r) ==
    /\ wire' = wire \ {r}
    /\ \/ /\ keyed[r.key] # Blank
          /\ Replies(r, "ok", keyed[r.key])
          /\ UNCHANGED service
       \/ /\ keyed[r.key] = Blank
          /\ \E g \in Effects(r) :
                /\ hosted' = IF g.status = "none" THEN Blank ELSE g
                /\ keyed' = [keyed EXCEPT ![r.key] = g]
                /\ sources' = IF r.op = "replay" THEN sources \cup {r.game} ELSE sources
                /\ Replies(r, "ok", g)
       \/ /\ keyed[r.key] = Blank
          /\ Effects(r) = {}
          /\ Replies(r, "conflict", Blank)
          /\ UNCHANGED service
    /\ UNCHANGED <<screen, read, search, minted, closed, faults, reads>>

\* A request is lost before the service sees it, for good.
Loses(r) ==
    /\ wire' = wire \ {r}
    /\ UNCHANGED <<service, screen, call, read, search, minted, closed, faults, reads>>

----------------------------------------------------------------------------
(* Sending a mutation. *)

Idle == call.op = "none"

\* An unresolved intent is retried only for the game it was made for; a start and
\* a reset only at the same revision.
Retries(op, g) ==
    /\ intent[op].key # 0
    /\ intent[op].game.id = g.id
    /\ op \in {"start", "reset"} => intent[op].game.rev = g.rev

\* The keys that some operations keep.
Kept(ops) == {intent[op].key : op \in ops} \ {0}

\* A retry reuses its intent's key; any other request mints one, and lets go of
\* the intent for another game.
KeyFor(op, g) == IF Retries(op, g) THEN intent[op].key ELSE minted + 1

Sends(op, g) ==
    LET key == KeyFor(op, g) IN
    /\ Idle
    /\ key <= MaxKeys
    /\ minted' = IF key > minted THEN key ELSE minted
    /\ closed' = IF Retries(op, g) THEN closed ELSE closed \cup Kept({op})
    /\ intent' = IF op = "move" \/ Retries(op, g) THEN intent
                 ELSE [intent EXCEPT ![op] = [key |-> key, game |-> g]]
    /\ call' = [op |-> op, key |-> key, phase |-> "sent", reply |-> "none", game |-> g]
    /\ wire' = wire \cup {[op |-> op, key |-> key, game |-> g]}

\* A foreground read hides every stage, so the reader can only wait for it.
Visible == read.phase = "idle" \/ read.silent

\* A question is submitted, or its failed division retried.
AnalyzeProblem ==
    /\ shown.status \in {"none", "failed"}
    /\ Visible
    /\ Sends("divide", Blank)
    /\ locked' = locked \cup {"divide"}
    /\ UNCHANGED <<service, shown, read, search, auto, faults, reads>>

BeginPlay ==
    /\ shown.status \in Needs("start") /\ Visible
    /\ Sends("start", shown)
    /\ UNCHANGED <<service, shown, locked, read, search, auto, faults, reads>>

\* The reader moves a piece by hand.
MovePiece ==
    /\ shown.status \in Needs("move") /\ Visible
    /\ ~auto /\ search.phase = "idle"
    /\ Sends("move", shown)
    /\ UNCHANGED <<service, shown, locked, read, search, auto, faults, reads>>

\* The lifecycle effect runs the stage the shown game waits for.
Advance(op) ==
    /\ shown.status \in Needs(op)
    /\ Sends(op, shown)
    /\ UNCHANGED <<service, shown, locked, read, search, auto, faults, reads>>

ReplayProblem ==
    /\ shown.status \in Needs("replay") /\ Visible
    /\ Sends("replay", shown)
    /\ UNCHANGED <<service, shown, locked, read, search, auto, faults, reads>>

\* A gate that denied the answer is retried on the same or a fresh field.
RetryLifecyclePath ==
    /\ shown.status \in Needs("retry") /\ Visible
    /\ Sends("retry", shown)
    /\ UNCHANGED <<service, shown, locked, read, search, auto, faults, reads>>

\* An action is tracked, its status changed, or an observation appended.
TrackWilbur ==
    /\ shown.status \in Needs("wilbur") /\ Visible
    /\ Sends("wilbur", shown)
    /\ UNCHANGED <<service, shown, locked, read, search, auto, faults, reads>>

\* "New question" is refused while a division or a replay is unresolved.
Resettable == locked = {}

Reset ==
    /\ shown.status \in Needs("reset")
    /\ Resettable
    /\ Sends("reset", shown)
    /\ read' = NoRead
    /\ search' = [search EXCEPT !.live = FALSE]
    /\ auto' = FALSE
    /\ UNCHANGED <<service, shown, locked, faults, reads>>

----------------------------------------------------------------------------
(* Its answer. *)

\* A saved game replaces the one on the screen and ends the search for it.
Applies(g, keepsPlaying) ==
    /\ shown' = g
    /\ search' = [search EXCEPT !.live = FALSE]
    /\ auto' = (auto /\ keepsPlaying)

Forget(ops) == intent' = [op \in Ops |-> IF op \in ops THEN NoIntent ELSE intent[op]]

Learns(keys) == closed' = closed \cup keys

\* resetGameState drops every intent and every lock.  What was asked of the game
\* goes with it; a division or a replay must not.
StartsOver ==
    /\ Forget(Ops)
    /\ locked' = {}
    /\ shown' = Blank
    /\ search' = [search EXCEPT !.live = FALSE]
    /\ auto' = FALSE

Restores ==
    /\ reads < MaxReads
    /\ reads' = reads + 1
    /\ read' = [silent |-> FALSE, reply |-> Blank, phase |-> "sent"]

Succeeds ==
    /\ call.reply = "ok"
    /\ IF call.op = "reset" \/ call.game.status = "none"
       THEN StartsOver /\ Learns({call.key} \cup Kept(Ops \ Makers))
       ELSE /\ Forget({call.op, "divide"})
            /\ Learns({call.key})
            /\ locked' = locked \ {call.op, "divide"}
            /\ Applies(call.game, call.op = "move")
    /\ call' = NoCall
    /\ UNCHANGED <<service, wire, read, minted, faults, reads>>

\* A conflict is definitive: the intent goes, and the current game is read, or
\* only the lifecycle; a stage keeps its key and asks again.
Conflicts ==
    /\ call.reply = "conflict"
    /\ call.op # "divide"
    /\ Learns({call.key})
    /\ Forget(IF call.op \in Stages THEN {} ELSE {call.op})
    /\ locked' = locked \ {call.op}
    /\ auto' = FALSE
    /\ call' = NoCall
    /\ IF call.op \in {"move", "start", "reset", "replay"} THEN Restores ELSE UNCHANGED <<read, reads>>
    /\ UNCHANGED <<service, wire, shown, search, minted, faults>>

\* The operations that look for the effect of an ambiguous failure at once.
Recovering == Makers \cup {"wilbur"}

\* The request fails in transport, its fate unknown: it may still be held by
\* the network, may have been executed, or may be lost.
FailsInTransport ==
    /\ call.phase = "sent"
    /\ faults < MaxFaults
    /\ faults' = faults + 1
    /\ call' = IF call.op \in Recovering
               THEN [call EXCEPT !.phase = "recover", !.reply = "none"] ELSE NoCall
    /\ IF call.op = "move" THEN Restores /\ auto' = FALSE ELSE UNCHANGED <<read, reads, auto>>
    /\ UNCHANGED <<service, wire, shown, intent, locked, search, minted, closed>>

\* The service answers 5xx after executing the request, or instead of it.  A
\* replay, a retry, a start and a reset take it for a definitive refusal; a
\* division and Wilbur look for its effect; a stage keeps its key to ask again, or drops it.
FailsInService ==
    /\ call.phase = "sent"
    /\ call.reply = "ok"
    /\ faults < MaxFaults
    /\ faults' = faults + 1
    /\ IF call.op \in Recovering \ {"replay"}
       THEN /\ call' = [call EXCEPT !.phase = "recover", !.reply = "none"]
            /\ UNCHANGED <<intent, closed, locked>>
       ELSE /\ call' = NoCall
            /\ \/ Forget({call.op})
               \/ call.op \in Stages /\ UNCHANGED intent
            /\ locked' = locked \ {call.op}
            /\ Learns({call.key})
    /\ auto' = (auto /\ call.op # "move")
    /\ UNCHANGED <<service, wire, shown, read, search, minted, reads>>

\* After an ambiguous failure a division asks for its intent, and a replay for
\* the child its key names.  Found: the game is shown.
RecoversFound ==
    /\ call.phase = "recover"
    /\ keyed[call.key] # Blank
    /\ Learns({call.key})
    /\ Forget({call.op, "divide"})
    /\ locked' = locked \ {call.op, "divide"}
    /\ Applies(keyed[call.key], FALSE)
    /\ call' = NoCall
    /\ UNCHANGED <<service, wire, read, minted, faults, reads>>

\* Mutant: a child that is not found is taken for one that never will be.
KeepsDoubt_Dropped == locked' = locked \ {call.op} /\ Forget({call.op})

\* Not found, or unreadable: the key is kept, and "new question" locked while
\* it may still make a game.
KeepsDoubt == locked' = locked \cup (Makers \cap {call.op}) /\ UNCHANGED intent

RecoversNothing ==
    /\ call.phase = "recover"
    /\ \/ keyed[call.key] = Blank /\ UNCHANGED faults
       \/ faults < MaxFaults /\ faults' = faults + 1
    /\ KeepsDoubt
    /\ call' = NoCall
    /\ UNCHANGED <<service, wire, shown, read, search, auto, minted, closed, reads>>

----------------------------------------------------------------------------
(* Reading the current game. *)

\* The poll of a game that a stage is working on, and the reader's own read.
Poll ==
    /\ shown.status = "gated" /\ call.op = "answer"
    /\ read.phase = "idle"
    /\ reads < MaxReads
    /\ reads' = reads + 1
    /\ read' = [silent |-> TRUE, reply |-> Blank, phase |-> "sent"]
    /\ UNCHANGED <<service, wire, screen, call, search, minted, closed, faults>>

ServesRead ==
    /\ read.phase = "sent"
    /\ read' = [read EXCEPT !.phase = "answered", !.reply = hosted]
    /\ UNCHANGED <<service, wire, screen, call, search, minted, closed, faults, reads>>

\* The answer of a read is applied only if the read is still the latest one.
RestoresGame ==
    /\ read.phase = "answered"
    /\ IF read.reply = Blank
       THEN StartsOver /\ Learns(Kept(Ops))
       ELSE /\ Applies(read.reply, FALSE)
            /\ Forget({"divide"})
            /\ locked' = locked \ {"divide"}
            /\ Learns({read.reply.id})
    /\ read' = NoRead
    /\ UNCHANGED <<service, wire, call, minted, faults, reads>>

FailsToRead ==
    /\ read.phase # "idle"
    /\ faults < MaxFaults
    /\ faults' = faults + 1
    /\ read' = NoRead
    /\ UNCHANGED <<service, wire, screen, call, search, minted, closed, reads>>

----------------------------------------------------------------------------
(* The engine. *)

PlayOneTurn ==
    /\ shown.status = "playing" /\ Idle /\ search.phase = "idle"
    /\ search' = [phase |-> "searching", live |-> TRUE,
                  mode |-> IF auto THEN "auto" ELSE "manual", on |-> shown]
    /\ UNCHANGED <<service, wire, screen, call, read, minted, closed, faults, reads>>

\* Auto-play is switched on unless a search asked for by hand is running;
\* switched off, it retires the search and its worker.
ToggleAutoPlay ==
    /\ shown.status = "playing"
    /\ auto \/ ~(search.live /\ search.mode = "manual")
    /\ auto' = ~auto
    /\ search' = IF auto THEN [search EXCEPT !.live = FALSE] ELSE search
    /\ UNCHANGED <<service, wire, shown, intent, locked, call, read, minted, closed,
                   faults, reads>>

\* A settled search is used only if no later event has retired it.
Current == search.live

SearchSettles ==
    /\ search.phase = "searching"
    /\ search' = NoSearch
    /\ \/ ~Current /\ UNCHANGED <<call, wire, intent, minted, closed, auto>>
       \/ Current /\ Idle /\ Sends("move", search.on) /\ UNCHANGED auto
       \/ Current /\ auto' = FALSE /\ UNCHANGED <<call, wire, intent, minted, closed>>
    /\ UNCHANGED <<service, shown, locked, read, faults, reads>>

----------------------------------------------------------------------------
\* The page is opened on whatever the service has, and reads it first.
Saved == {"mapped", "playing", "completed", "gated", "answered", "qualified"}

Init ==
    /\ hosted \in {Blank} \cup {[id |-> MaxKeys + 1, status |-> s, rev |-> 1] : s \in Saved}
    /\ keyed = [k \in Keys |-> Blank]
    /\ sources = {}
    /\ wire = {}
    /\ shown = Blank
    /\ intent = [op \in Ops |-> NoIntent]
    /\ locked = {}
    /\ call = NoCall
    /\ read = [NoRead EXCEPT !.phase = "sent"]
    /\ search = NoSearch
    /\ auto = FALSE
    /\ minted = 0
    /\ closed = {}
    /\ faults = 0
    /\ reads = 0

Next ==
    \/ \E r \in wire : Serves(r) \/ Loses(r)
    \/ AnalyzeProblem
    \/ BeginPlay
    \/ MovePiece
    \/ \E op \in Stages : Advance(op)
    \/ ReplayProblem
    \/ RetryLifecyclePath
    \/ TrackWilbur
    \/ Reset
    \/ Succeeds
    \/ Conflicts
    \/ FailsInTransport
    \/ FailsInService
    \/ RecoversFound
    \/ RecoversNothing
    \/ Poll
    \/ ServesRead
    \/ RestoresGame
    \/ FailsToRead
    \/ PlayOneTurn
    \/ ToggleAutoPlay
    \/ SearchSettles

Spec == Init /\ [][Next]_clientVars

----------------------------------------------------------------------------
\* A request in doubt is never let go of: its key is the one the next attempt
\* sends, and a division or a replay locks "new question" until it is resolved.
DoubtsAreHeld ==
    \A r \in {q \in wire : q.op # "move" /\ q.key \notin closed} :
        /\ intent[r.op].key = r.key
        /\ r.op \in Makers => call.key = r.key \/ r.op \in locked

\* Every game the service made is one the client has heard of, or one its kept
\* keys still lead to.
GamesAreReached ==
    \A k \in Keys :
        keyed[k].id = k => k \in closed \/ \E op \in Makers \cup {"retry"} : intent[op].key = k

\* A move the engine sends was searched by a search nothing has retired since,
\* on the game the screen shows.
EngineMovesFit ==
    search.live => search.on = shown

ClientIsCareful ==
    /\ DoubtsAreHeld
    /\ GamesAreReached
    /\ EngineMovesFit
=============================================================================
