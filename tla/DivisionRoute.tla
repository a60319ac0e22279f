---------------------------- MODULE DivisionRoute ----------------------------
(***************************************************************************)
(* How a field is cut: the `divide` route of                               *)
(* src/server/http/service-adapter.ts, the polls that recover what it left *)
(* behind, and the memories it may carry over.  One account; a division's  *)
(* request and its game share one id.  An action is one statement against  *)
(* the database, or the provider's turn; a handler may stop between any    *)
(* two.  UsageLedger has the ledger's books, GameStore the game's row.     *)
(***************************************************************************)
EXTENDS Naturals, FiniteSets

CONSTANTS
    Divisions,      \* ids, one per idempotency key
    Remembering,    \* those asked for with memories of earlier games
    Divides,        \* concurrent calls of divide
    Polls,          \* concurrent reads of a game
    None,           \* SQL NULL
    MaxFaults       \* bound: handlers and replies lost, statements that fail

ASSUME DivisionAssumption ==
    /\ Remembering \subseteq Divisions /\ None \notin Divisions
    /\ Divides \cap Polls = {}
    /\ MaxFaults \in Nat

VARIABLES
    request,        \* id -> its model request
    game,           \* id -> status of its game
    current,        \* the account's current game
    links,          \* ids whose memory links are stored
    runs,           \* ids whose game has a lifecycle run
    handler,        \* what each call holds
    told,           \* history: the outcomes answered
    faults

divisionVars ==
    <<request, game, current, links, runs, handler, told, faults>>

Handlers == Divides \cup Polls
Live == {"reserved", "in_progress"}
Pending(d) == request[d].status \in Live
Paid(d) == request[d].status \in {"in_progress", "succeeded"}

Idle == [step |-> "idle", d |-> None, mine |-> FALSE, seen |-> "absent",
         saw |-> FALSE, cause |-> "none"]

At(h, step) == handler[h].step = step
To(h, step) == handler' = [handler EXCEPT ![h].step = step]
Done(h) == handler' = [handler EXCEPT ![h] = Idle]
Saw(h, status, step) ==
    handler' = [handler EXCEPT ![h] =
        IF step = "idle" THEN Idle
                         ELSE [@ EXCEPT !.seen = status, !.step = step]]
Tells(h, status) ==
    told' = IF status = "dividing" THEN told
            ELSE told \cup {<<handler[h].d, h \in Divides, status>>}

\* The catch of divide: before the provider is called, an error gives the
\* call's own reservation back and fails the shell it has seen dividing.
Caught(h) == handler' = [handler EXCEPT ![h] =
    IF handler[h].mine THEN [@ EXCEPT !.step = "release", !.cause = "error"]
    ELSE IF handler[h].seen = "dividing"
         THEN [@ EXCEPT !.step = "fail", !.cause = "error"]
         ELSE Idle]

-----------------------------------------------------------------------------
(***************************************************************************)
(* The request.                                                            *)
(***************************************************************************)

\* Mutant: only what never started is given up.
Swept_ReservedOnly == [d \in Divisions |->
    IF request[d].status = "reserved" /\ request[d].overdue
    THEN [request[d] EXCEPT !.status = "failed", !.overdue = FALSE]
    ELSE request[d]]

\* reconcileExpiredLeases.
Swept == [d \in Divisions |->
    IF Pending(d) /\ request[d].overdue
    THEN [request[d] EXCEPT
            !.status = IF @ = "reserved" THEN "failed" ELSE "indeterminate",
            !.overdue = FALSE]
    ELSE request[d]]

\* A new key needs the account's one lease; a known key finds its row.
Reserve(h, d) ==
    /\ At(h, "idle")
    /\ request[d].status = "absent"
    /\ \A x \in Divisions : Swept[x].status \notin Live
    /\ request' = [Swept EXCEPT ![d].status = "reserved"]
    /\ handler' = [handler EXCEPT
          ![h] = [Idle EXCEPT !.step = "shell", !.d = d, !.mine = TRUE]]
    /\ UNCHANGED <<game, current, links, runs, told, faults>>

Existing(h, d) ==
    /\ At(h, "idle")
    /\ request[d].status # "absent"
    /\ request' = Swept
    /\ handler' = [handler EXCEPT
          ![h] = [Idle EXCEPT !.step = "shell", !.d = d]]
    /\ UNCHANGED <<game, current, links, runs, told, faults>>

Expire(d) ==
    /\ Pending(d) /\ ~request[d].overdue
    /\ request' = [request EXCEPT ![d].overdue = TRUE]
    /\ UNCHANGED
        <<game, current, links, runs, handler, told, faults>>

-----------------------------------------------------------------------------
(***************************************************************************)
(* The game's shell, its memories, its link to the request.                *)
(***************************************************************************)

\* The request is locked with the row, if it still asks for one.
Eligible(d) == Pending(d) /\ ~request[d].attached

\* getOrCreateDivision retires the current game in the same statement.
MakeShell(h, d) ==
    /\ game[d] = "absent"
    /\ Eligible(d)
    /\ game' = [game EXCEPT ![d] = "dividing"]
    /\ current' = d
    /\ Saw(h, "dividing", IF d \in Remembering THEN "look" ELSE "attach")

FindShell(h, d) ==
    /\ game[d] # "absent"
    /\ Saw(h, game[d], IF d \in Remembering THEN "look" ELSE "attach")
    /\ UNCHANGED <<game, current>>

\* The id is free, yet its request is over: no shell, nothing to fail.
NoShell(h, d) ==
    /\ game[d] = "absent"
    /\ ~Eligible(d)
    /\ Caught(h)
    /\ UNCHANGED <<game, current>>

Shell(h) ==
    /\ At(h, "shell")
    /\ LET d == handler[h].d
       IN  MakeShell(h, d) \/ FindShell(h, d) \/ NoShell(h, d)
    /\ UNCHANGED <<request, links, runs, told, faults>>

\* attachWebMemoryEvidence looks for links in the snapshot its statement
\* began with ...
Look(h) ==
    /\ At(h, "look")
    /\ handler' = [handler EXCEPT ![h].saw = handler[h].d \in links,
                                  ![h].step = "link"]
    /\ UNCHANGED
        <<request, game, current, links, runs, told, faults>>

\* ... and inserts them once it holds the game's row: links stored since are
\* neither seen nor inserted again, and the statement counts none.
Link(h) ==
    /\ At(h, "link")
    /\ links' = links \cup {handler[h].d}
    /\ IF handler[h].d \in links /\ ~handler[h].saw
       THEN Caught(h)
       ELSE handler' = [handler EXCEPT ![h].step = "attach",
                                        ![h].saw = FALSE]
    /\ UNCHANGED <<request, game, current, runs, told, faults>>

Attached(d) == [request EXCEPT ![d].attached = TRUE]

\* attachModelRequestGame.
Attach(h) ==
    /\ At(h, "attach")
    /\ LET d == handler[h].d
       IN  IF request[d].attached \/ request[d].status = "reserved"
           THEN /\ request' = Attached(d)
                /\ To(h, IF handler[h].mine THEN "begin" ELSE "observe")
           ELSE /\ Caught(h)
                /\ UNCHANGED request
    /\ UNCHANGED <<game, current, links, runs, told, faults>>

-----------------------------------------------------------------------------
(***************************************************************************)
(* The provider's turn and its settlement.                                 *)
(***************************************************************************)

MayBegin(d) == request[d].status = "reserved" /\ ~request[d].overdue

Begin(h) ==
    /\ At(h, "begin")
    /\ LET d == handler[h].d
       IN  IF MayBegin(d)
           THEN /\ request' = [request EXCEPT ![d].status = "in_progress"]
                /\ To(h, "generate")
           ELSE /\ Caught(h)
                /\ UNCHANGED request
    /\ UNCHANGED <<game, current, links, runs, told, faults>>

Generate(h) ==
    /\ At(h, "generate")
    /\ \E step \in {"settle", "settle_failure"} : To(h, step)
    /\ UNCHANGED
        <<request, game, current, links, runs, told, faults>>

Settles(d) == request[d].status = "in_progress" /\ ~request[d].overdue

\* getSucceededModelResultForGame.
Committed(d) == request[d].attached /\ request[d].status = "succeeded"

\* A settlement that is not accepted looks for a result already stored.
Settle(h) ==
    /\ At(h, "settle")
    /\ LET d == handler[h].d
       IN  IF Settles(d)
           THEN /\ request' = [request EXCEPT ![d].status = "succeeded"]
                /\ To(h, "finish")
           ELSE /\ To(h, IF Committed(d) THEN "finish" ELSE "settle_failure")
                /\ UNCHANGED request
    /\ UNCHANGED <<game, current, links, runs, told, faults>>

\* It commits and the reply is lost: the handler sees an error.
SettleUnheard(h) ==
    /\ At(h, "settle")
    /\ faults < MaxFaults
    /\ Settles(handler[h].d)
    /\ request' = [request EXCEPT ![handler[h].d].status = "succeeded"]
    /\ To(h, "settle_failure")
    /\ faults' = faults + 1
    /\ UNCHANGED <<game, current, links, runs, told>>

\* settleDefinitiveFailure, ambiguous failures included; the game follows
\* only a settlement that was accepted.
SettleFailure(h) ==
    /\ At(h, "settle_failure")
    /\ LET d == handler[h].d
       IN  IF Settles(d)
           THEN /\ \E status \in {"failed", "indeterminate"} :
                     request' = [request EXCEPT ![d].status = status]
                /\ To(h, "fail")
           ELSE Done(h) /\ UNCHANGED request
    /\ UNCHANGED <<game, current, links, runs, told, faults>>

-----------------------------------------------------------------------------
(***************************************************************************)
(* Finishing and failing the game.                                         *)
(***************************************************************************)

Held(d) == game[d] = "dividing" /\ current = d

\* What follows once the handler has its game: a call of its own insists on a
\* mapped game; a duplicate takes what it finds; a poll shows it.
After(h, status) ==
    IF h \in Polls THEN "tell"
    ELSE IF status = "mapped" \/ (status = "playing" /\ ~handler[h].mine)
         THEN "ensure"
         ELSE IF handler[h].mine THEN "idle" ELSE "tell"

\* finishDivisionForOwner: a compare-and-set on status and current; whoever
\* comes second takes the row as it is.
Finish(h) ==
    /\ At(h, "finish")
    /\ LET d == handler[h].d
       IN  \/ /\ Held(d)
              /\ game' = [game EXCEPT ![d] = "mapped"]
              /\ Saw(h, "mapped", After(h, "mapped"))
           \/ /\ game[d] # "dividing"
              /\ Saw(h, game[d], After(h, game[d]))
              /\ UNCHANGED game
           \/ /\ game[d] = "dividing" /\ current # d
              /\ Done(h)
              /\ UNCHANGED game
    /\ UNCHANGED <<request, current, links, runs, told, faults>>

Release(h) ==
    /\ At(h, "release")
    /\ LET d == handler[h].d
       IN  request' =
             IF request[d].status = "reserved" /\ ~request[d].overdue
             THEN [request EXCEPT ![d].status = "failed"]
             ELSE request
    /\ Saw(h, handler[h].seen,
           IF handler[h].seen = "dividing" THEN "fail" ELSE "idle")
    /\ UNCHANGED <<game, current, links, runs, told, faults>>

\* failDivisionForOwner.
Fail(h) ==
    /\ At(h, "fail")
    /\ LET d == handler[h].d
           next == IF handler[h].mine \/ handler[h].cause = "error"
                   THEN "idle" ELSE "tell"
       IN  \/ /\ Held(d)
              /\ game' = [game EXCEPT ![d] = "division_failed"]
              /\ Saw(h, "division_failed", next)
           \/ /\ game[d] # "dividing"
              /\ Saw(h, game[d], next)
              /\ UNCHANGED game
           \/ /\ game[d] = "dividing" /\ current # d
              /\ Done(h)
              /\ UNCHANGED game
    /\ UNCHANGED <<request, current, links, runs, told, faults>>

\* Mutant: the answer goes out before the run is there.
Ensure_Told(h) ==
    /\ At(h, "ensure")
    /\ Tells(h, handler[h].seen)
    /\ Done(h)
    /\ UNCHANGED
        <<request, game, current, links, runs, faults>>

\* ensureLifecycleForNewGame, and the answer.
Ensure(h) ==
    /\ At(h, "ensure")
    /\ runs' = runs \cup {handler[h].d}
    /\ Tells(h, handler[h].seen)
    /\ Done(h)
    /\ UNCHANGED <<request, game, current, links, faults>>

Tell(h) ==
    /\ At(h, "tell")
    /\ Tells(h, handler[h].seen)
    /\ Done(h)
    /\ UNCHANGED
        <<request, game, current, links, runs, faults>>

-----------------------------------------------------------------------------
(***************************************************************************)
(* Recovery: reconcilePendingGame, in a poll and in a duplicate divide.    *)
(***************************************************************************)

Poll(h, d) ==
    /\ At(h, "idle")
    /\ game[d] # "absent"
    /\ handler' = [handler EXCEPT
          ![h] = [Idle EXCEPT !.step = "observe", !.d = d, !.seen = game[d]]]
    /\ UNCHANGED
        <<request, game, current, links, runs, told, faults>>

\* getLatestModelRequestForGame.
Linked(d) == request[d].attached
\* findDivisionRequest: one that is not linked yet, by its id.
Adoptable(d) == request[d].status = "reserved"

\* Only a game still dividing is reconciled, and only with the request that
\* is linked to it or still may be.
Observe(h) ==
    /\ At(h, "observe")
    /\ LET d == handler[h].d
       IN  To(h, IF handler[h].seen # "dividing" THEN After(h, handler[h].seen)
                 ELSE IF Linked(d) THEN "find"
                 ELSE IF Adoptable(d) THEN "adopt" ELSE "tell")
    /\ UNCHANGED
        <<request, game, current, links, runs, told, faults>>

\* findDivisionRequest with attachUnlinked; a link that came too late ends
\* the read.
Adopt(h) ==
    /\ At(h, "adopt")
    /\ LET d == handler[h].d
       IN  IF Linked(d) \/ Adoptable(d)
           THEN request' = Attached(d) /\ To(h, "find")
           ELSE Done(h) /\ UNCHANGED request
    /\ UNCHANGED <<game, current, links, runs, told, faults>>

\* Mutant: work still under way counts as lost.
Verdict_Impatient(status) ==
    IF status = "succeeded" THEN "finish" ELSE "fail"

Verdict(status) ==
    CASE status = "succeeded" -> "finish"
      [] status \in Live -> "tell"
      [] OTHER -> "fail"

\* Leases are swept, then the request is read; that a handler of another
\* process comes between the two shows as a later sweep.
Find(h) ==
    /\ At(h, "find")
    /\ request' = Swept
    /\ To(h, Verdict(Swept[handler[h].d].status))
    /\ UNCHANGED <<game, current, links, runs, told, faults>>

-----------------------------------------------------------------------------
(***************************************************************************)
(* The player, and what goes wrong.                                        *)
(***************************************************************************)

Start(d) ==
    /\ game[d] = "mapped" /\ current = d
    /\ game' = [game EXCEPT ![d] = "playing"]
    /\ UNCHANGED
        <<request, current, links, runs, handler, told, faults>>

Crash(h) ==
    /\ faults < MaxFaults
    /\ ~At(h, "idle")
    /\ Done(h)
    /\ faults' = faults + 1
    /\ UNCHANGED <<request, game, current, links, runs, told>>

\* A statement of a divide fails before the provider was called, or, in a
\* duplicate that is reconciling its game, when that is finished or failed.
Throw(h) ==
    /\ faults < MaxFaults
    /\ \/ handler[h].step \in {"shell", "look", "attach", "begin", "observe",
                               "find"}
       \/ handler[h].step \in {"finish", "fail"} /\ ~handler[h].mine
                                              /\ handler[h].cause = "none"
    /\ Caught(h)
    /\ faults' = faults + 1
    /\ UNCHANGED <<request, game, current, links, runs, told>>

Init ==
    /\ request = [d \in Divisions |->
          [status |-> "absent", attached |-> FALSE, overdue |-> FALSE]]
    /\ game = [d \in Divisions |-> "absent"]
    /\ current = None
    /\ links = {}
    /\ runs = {}
    /\ handler = [h \in Handlers |-> Idle]
    /\ told = {}
    /\ faults = 0

Route(h) ==
    \/ Shell(h) \/ Look(h) \/ Link(h) \/ Attach(h)
    \/ Begin(h) \/ Generate(h) \/ Settle(h) \/ SettleFailure(h)
    \/ Finish(h) \/ Release(h) \/ Fail(h) \/ Ensure(h) \/ Tell(h)
    \/ Observe(h) \/ Adopt(h) \/ Find(h)

PollCurrent == \E h \in Polls : current # None /\ Poll(h, current)

Next ==
    \/ \E h \in Divides : \E d \in Divisions : Reserve(h, d) \/ Existing(h, d)
    \/ \E h \in Polls : \E d \in Divisions : Poll(h, d)
    \/ \E h \in Handlers : Route(h)
    \/ \E h \in Divides : SettleUnheard(h) \/ Throw(h)
    \/ \E h \in Handlers : Crash(h)
    \/ \E d \in Divisions : Expire(d) \/ Start(d)

Spec == Init /\ [][Next]_divisionVars

\* A handler's next statement is run, leases run out, and the browser keeps
\* polling the current game, whatever else it reads between the polls; nobody
\* has to repeat a divide.
FairSpec ==
    /\ Spec
    /\ \A h \in Handlers : WF_divisionVars(Route(h))
    /\ \A d \in Divisions : WF_divisionVars(Expire(d))
    /\ SF_divisionVars(PollCurrent)

-----------------------------------------------------------------------------
(***************************************************************************)
(* Properties.                                                             *)
(***************************************************************************)

\* A field exists only where a linked request paid for it, a run only where a
\* field exists; the account never has two live requests; and of the answers
\* given for one division none says failed while another says mapped, and
\* divide never answers mapped without a run to review.
DivisionsAreAccounted ==
    /\ \A d \in Divisions :
         /\ game[d] \in {"mapped", "playing"} =>
              request[d].status = "succeeded" /\ request[d].attached
         /\ d \in runs => game[d] \in {"mapped", "playing"}
         /\ <<d, TRUE, "mapped">> \in told => d \in runs
         /\ \A x, y \in BOOLEAN : \A good \in {"mapped", "playing"} :
              ~ {<<d, x, "division_failed">>, <<d, y, good>>} \subseteq told
    /\ Cardinality({d \in Divisions : Pending(d)}) <= 1

\* A division the provider has been called for is failed by nothing but the
\* error path of a duplicate divide: not by its own handler, whatever it
\* failed to hear, and not by a poll, whenever it comes.
OnlyDuplicatesAbandon ==
    [][\A d \in Divisions :
         game[d] = "dividing" /\ game'[d] = "division_failed" /\ Paid(d) =>
           \E h \in Divides : /\ At(h, "fail")
                              /\ handler[h].d = d
                              /\ ~handler[h].mine
                              /\ handler[h].cause = "error"]_divisionVars

\* A linked division that stays current is decided, whichever handlers were
\* lost: the polls see to it.
DividingEnds ==
    \A d \in Divisions :
      (game[d] = "dividing" /\ request[d].attached /\ current = d) ~>
        (game[d] # "dividing" \/ current # d)

\* What docs/ARCHITECTURE.md promises of a retry: a committed result is
\* recovered, never overwritten by a failed game.
PaidDivisionSurvives ==
    \A d \in Divisions :
      request[d].status = "succeeded" => game[d] # "division_failed"

=============================================================================
