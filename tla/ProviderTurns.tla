--------------------------- MODULE ProviderTurns ---------------------------
(***************************************************************************)
(* src/server/openclaw: the local build's client side of the bridge.  One  *)
(* shared service state is created on first use; an attempt then spends    *)
(* provider turns (v2-generation.ts): one for a division or for Charlotte, *)
(* one or two for an answer, one or two per Portia candidate and one for   *)
(* its summary.  A turn is one loopback request (cli.ts) that settles once, *)
(* by whichever of response, transport error, deadline or abort comes      *)
(* first.  The ledger may take an attempt's lease away at any time.        *)
(***************************************************************************)
EXTENDS Naturals, FiniteSets, Sequences

CONSTANTS
    Attempts,       \* ledger attempts of one game
    AttemptKinds,   \* of {"single", "answer", "portia", "local"}
    Candidates      \* survivors Portia has to assess

VARIABLES
    serviceState,   \* none, creating, closing, ready
    creations,      \* createServices under way, or done: one pool and watchdog each
    healthy,        \* reconciliationHealth, set by the watchdog
    attempt,        \* what each generator holds
    lease,          \* per attempt: none, held, lost
    saved,          \* portiaProgress: candidates assessed and stored
    wire,           \* per attempt: the open request, or idle
    asked           \* per attempt: the keys of its turns, in order

turnsVars == <<serviceState, creations, healthy, attempt, lease, saved, wire, asked>>

\* A turn's key: the attempt's own, with the suffix of its part and of the
\* correction.  Part 0 is the whole of a division, an answer or Charlotte,
\* Candidates + 1 Portia's summary.
Key(part, corrected) == [part |-> part, corrected |-> corrected]
Summary == Candidates + 1

Fresh == [step |-> "new", kind |-> "single", drafts |-> 0, corrected |-> FALSE]
Becomes(a, step) == attempt' = [attempt EXCEPT ![a].step = step]
Holds(a) == lease[a] = "held"
Fenced(a) == Holds(a) \/ attempt[a].kind = "local"

-----------------------------------------------------------------------------
(***************************************************************************)
(* getHealthyServiceState: every caller awaits the same creation.          *)
(***************************************************************************)

AsksForServices(a, kind) ==
    /\ attempt[a].step = "new"
    /\ creations' = IF serviceState = "none" THEN creations + 1 ELSE creations
    /\ serviceState' = IF serviceState = "none" THEN "creating" ELSE serviceState
    /\ attempt' = [attempt EXCEPT ![a].step = "awaiting", ![a].kind = kind]
    /\ UNCHANGED <<healthy, lease, saved, wire, asked>>

\* createServices: version, schema, migrations and the first reconciliation.
ServicesReady ==
    /\ serviceState = "creating"
    /\ serviceState' = "ready"
    /\ healthy' = TRUE
    /\ UNCHANGED <<creations, attempt, lease, saved, wire, asked>>

\* A failure closes the adapter before the promise is rejected.
ServicesFail ==
    /\ serviceState = "creating"
    /\ serviceState' = "closing"
    /\ UNCHANGED <<creations, healthy, attempt, lease, saved, wire, asked>>

\* The rejection reaches all waiters at once; each clears the promise.
ServicesRejected ==
    /\ serviceState = "closing"
    /\ serviceState' = "none"
    /\ attempt' = [a \in Attempts |->
                     IF attempt[a].step = "awaiting"
                     THEN Fresh ELSE attempt[a]]
    /\ creations' = creations - 1
    /\ UNCHANGED <<healthy, lease, saved, wire, asked>>

\* The watchdog's tick reports the outcome of its reconciliation.
WatchdogTick ==
    /\ serviceState = "ready"
    /\ healthy' = ~healthy
    /\ UNCHANGED <<serviceState, creations, attempt, lease, saved, wire, asked>>

\* An unhealthy reconciliation turns the caller away; otherwise it reserves
\* and begins, unless another attempt of the owner is live, with what has
\* been assessed so far.
Begins(a) ==
    /\ attempt[a].step = "awaiting"
    /\ serviceState = "ready"
    /\ IF healthy /\ ~\E b \in Attempts : Holds(b)
       THEN /\ lease' = [lease EXCEPT ![a] = "held"]
            /\ attempt' = [attempt EXCEPT
                 ![a].step = IF attempt[a].kind = "portia" THEN "progress" ELSE "start",
                 ![a].drafts = IF attempt[a].kind = "portia" THEN saved ELSE 0]
       ELSE /\ attempt' = [attempt EXCEPT ![a] = Fresh]
            /\ UNCHANGED lease
    /\ UNCHANGED <<serviceState, creations, healthy, saved, wire, asked>>

\* The plain local routes ask for an answer or a division without a ledger:
\* no services, no lease, no key.
BeginsLocal(a) ==
    /\ "local" \in AttemptKinds
    /\ attempt[a].step = "new"
    /\ attempt' = [attempt EXCEPT ![a].step = "start", ![a].kind = "local"]
    /\ UNCHANGED <<serviceState, creations, healthy, lease, saved, wire, asked>>

-----------------------------------------------------------------------------
(***************************************************************************)
(* Before a turn: the fence is renewed, and Portia's progress stored.      *)
(***************************************************************************)

\* onProgress renews the fence, then stores; either failing ends the attempt.
Progresses(a) ==
    /\ attempt[a].step = "progress"
    /\ IF Holds(a)
       THEN saved' = attempt[a].drafts /\ Becomes(a, "turn")
       ELSE UNCHANGED saved /\ Becomes(a, "failed")
    /\ UNCHANGED <<serviceState, creations, healthy, lease, wire, asked>>

\* onProviderTurnStart of an answer, beginProviderCall of the rest.
StartsTurn(a) ==
    /\ attempt[a].step = "start"
    /\ Becomes(a, IF Fenced(a) THEN "turn" ELSE "failed")
    /\ UNCHANGED <<serviceState, creations, healthy, lease, saved, wire, asked>>

Part(a) == IF attempt[a].kind = "portia" THEN attempt[a].drafts + 1 ELSE 0

\* runOpenClawModel: the request goes out under the turn's own key.
Dispatches(a) ==
    /\ attempt[a].step = "turn"
    /\ wire' = [wire EXCEPT ![a] = "open"]
    /\ asked' = [asked EXCEPT ![a] =
                   Append(@, [key |-> Key(Part(a), attempt[a].corrected),
                              fenced |-> Fenced(a)])]
    /\ Becomes(a, "waiting")
    /\ UNCHANGED <<serviceState, creations, healthy, lease, saved>>

-----------------------------------------------------------------------------
(***************************************************************************)
(* requestLoopbackBridge settles once; the parsers judge what came back.   *)
(***************************************************************************)

\* The envelope is whole and echoes the prompt; the text may satisfy its
\* contract or not.  Deadline, abort, transport error, a refusal by the bridge
\* or a bad envelope leave no text.
Outcomes == {"valid", "invalid", "no_text"}

Settles(a, outcome) ==
    /\ wire[a] = "open"
    /\ wire' = [wire EXCEPT ![a] = outcome]
    /\ UNCHANGED <<serviceState, creations, healthy, attempt, lease, saved, asked>>

Hears(a, outcome) ==
    /\ attempt[a].step = "waiting"
    /\ wire[a] = outcome
    /\ wire' = [wire EXCEPT ![a] = "idle"]

\* A candidate is done and the next one follows; the rest end the attempt.
Accepts(a) ==
    /\ Hears(a, "valid")
    /\ IF attempt[a].kind = "portia" /\ Part(a) # Summary
       THEN attempt' = [attempt EXCEPT ![a].step = "progress", ![a].corrected = FALSE,
                                       ![a].drafts = @ + 1]
       ELSE Becomes(a, "done")
    /\ UNCHANGED <<serviceState, creations, healthy, lease, saved, asked>>

Correctable(a) ==
    /\ ~attempt[a].corrected
    /\ \/ attempt[a].kind \in {"answer", "local"}
       \/ attempt[a].kind = "portia" /\ Part(a) # Summary

\* Mutant: the correction goes out without renewing the fence.
Corrects_Unfenced(a) ==
    /\ Hears(a, "invalid")
    /\ Correctable(a)
    /\ attempt' = [attempt EXCEPT ![a].corrected = TRUE, ![a].step = "turn"]
    /\ UNCHANGED <<serviceState, creations, healthy, lease, saved, asked>>

\* One corrective turn, after onCorrectiveTurnStart or onProviderTurnStart.
Corrects(a) ==
    /\ Hears(a, "invalid")
    /\ Correctable(a)
    /\ attempt' = [attempt EXCEPT ![a].corrected = TRUE, ![a].step = "start"]
    /\ UNCHANGED <<serviceState, creations, healthy, lease, saved, asked>>

\* Nothing to correct, nothing to read, or the signal has fired meanwhile.
GivesUp(a) ==
    /\ Hears(a, "invalid") \/ Hears(a, "no_text")
    /\ Becomes(a, "failed")
    /\ UNCHANGED <<serviceState, creations, healthy, lease, saved, asked>>

\* The handler settles its request; the sweep may have taken it before.
Settled(a) ==
    /\ attempt[a].step \in {"done", "failed"}
    /\ lease' = [lease EXCEPT ![a] = "none"]
    /\ Becomes(a, "over")
    /\ UNCHANGED <<serviceState, creations, healthy, saved, wire, asked>>

\* reconcileExpiredLeases, by this process's watchdog or by another's.
LeaseLost(a) ==
    /\ Holds(a)
    /\ lease' = [lease EXCEPT ![a] = "lost"]
    /\ UNCHANGED <<serviceState, creations, healthy, attempt, saved, wire, asked>>

-----------------------------------------------------------------------------
Init ==
    /\ serviceState = "none"
    /\ creations = 0
    /\ healthy = TRUE
    /\ attempt = [a \in Attempts |-> Fresh]
    /\ lease = [a \in Attempts |-> "none"]
    /\ saved = 0
    /\ wire = [a \in Attempts |-> "idle"]
    /\ asked = [a \in Attempts |-> <<>>]

Next ==
    \/ ServicesReady \/ ServicesFail \/ ServicesRejected \/ WatchdogTick
    \/ \E a \in Attempts :
         \/ \E kind \in AttemptKinds \ {"local"} : AsksForServices(a, kind)
         \/ Begins(a) \/ BeginsLocal(a) \/ Progresses(a) \/ StartsTurn(a) \/ Dispatches(a)
         \/ \E outcome \in Outcomes : Settles(a, outcome)
         \/ Accepts(a) \/ Corrects(a) \/ GivesUp(a)
         \/ Settled(a) \/ LeaseLost(a)

Spec == Init /\ [][Next]_turnsVars

-----------------------------------------------------------------------------
\* One creation at a time, so one pool and one watchdog.
OneServiceState == creations <= 1

\* An attempt never repeats a turn's key, and corrects each part once, after it.
KeysAreFresh ==
    \A a \in Attempts : \A i, j \in DOMAIN asked[a] : i < j =>
        LET p == asked[a][i].key  q == asked[a][j].key IN
        p # q /\ p.part <= q.part /\ (p.part = q.part => q.corrected)

\* A lost lease stops the attempt: the fence is renewed before every turn, so
\* at most the last one goes out after the loss.
TurnsAreFenced ==
    \A a \in Attempts : \A i \in DOMAIN asked[a] :
        ~asked[a][i].fenced => i = Len(asked[a])

\* What is stored is not asked again by the attempt that owns the lease.
StoredIsNotAskedAgain ==
    \A a \in Attempts : Holds(a) /\ wire[a] = "open" /\ attempt[a].kind = "portia"
        => Part(a) > saved

\* Invariant: provider turns are spent at most once, each under a key of its
\* own, inside the lease, and never for what a former attempt already stored.
TurnsAreSpentOnce ==
    OneServiceState /\ KeysAreFresh /\ TurnsAreFenced /\ StoredIsNotAskedAgain

=============================================================================
