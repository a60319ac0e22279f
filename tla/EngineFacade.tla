----------------------------- MODULE EngineFacade -----------------------------
(***************************************************************************)
(* The browser's move engine (src/lib/auto-play.ts createAutoPlayEngine,   *)
(* src/lib/engine/worker.ts): one search at a time, in a worker if there   *)
(* is one, otherwise in a timer on the main thread.                        *)
(*                                                                         *)
(* A newer request supersedes the older one and kills its worker; events   *)
(* that worker had queued still arrive.  A watchdog gives up on a silent   *)
(* worker.  Moves are told apart by the request they were found for.       *)
(***************************************************************************)
EXTENDS Naturals, Sequences, FiniteSets, SequencesExt

CONSTANTS
    Ids,        \* request ids: 1 .. n, bound
    Workers,    \* workers that can ever be started, bound
    None

VARIABLES
    nextId,
    pending,    \* Pending: [id, worker, fallback, watchdog], else None
    worker,     \* the worker in use, else None
    disposed,
    started,    \* workers ever started
    running,    \* those of them not terminated
    inbox,      \* worker -> request ids posted to it and not yet taken up
    queue,      \* events on their way to the page: [worker, kind, id]
    settled     \* request id -> what its promise was given, in order

facadeVars == <<nextId, pending, worker, disposed, started, running, inbox,
                queue, settled>>

Told(id, result) == [settled EXCEPT ![id] = Append(@, result)]

\* EngineResult; move names the request whose board was searched.
Ok(id) == [status |-> "ok", move |-> id]
Failure == [status |-> "failed", move |-> 0]
Supersession == [status |-> "superseded", move |-> 0]

\* A page without a worker left is an instance without one at all.
Page == [pending |-> pending, worker |-> worker, running |-> running,
         settled |-> settled]

Becomes(page) ==
    /\ pending' = page.pending /\ worker' = page.worker
    /\ running' = page.running /\ settled' = page.settled

\* complete: clears the request and both of its timers.
Completed(page, result) ==
    [page EXCEPT !.pending = None,
                 !.settled[page.pending.id] = Append(@, result)]

Terminated(page, w) ==
    [page EXCEPT !.running = @ \ {w},
                 !.worker = IF @ = w THEN None ELSE @]

\* Mutant: the superseded search goes on in its worker.
Superseded_Idle(page) ==
    IF page.pending = None THEN page ELSE Completed(page, Supersession)

\* supersede.
Superseded(page) ==
    IF page.pending = None THEN page
    ELSE LET w == page.pending.worker
             p == IF w = None THEN page ELSE Terminated(page, w)
         IN  Completed(p, Supersession)

\* failWorker.
Failed(page, w) ==
    IF page.worker # w THEN page
    ELSE LET p == Terminated(page, w)
         IN  IF p.pending # None /\ p.pending.worker = w
             THEN Completed(p, Failure) ELSE p

\* Retired by reset and dispose, whether it is searching or not.
Reset(page) ==
    LET p == Superseded(page)
    IN  IF p.worker = None THEN p ELSE Terminated(p, p.worker)

-----------------------------------------------------------------------------
Request(id, w) ==
    [id |-> id, worker |-> w, fallback |-> w = None, watchdog |-> w # None]

\* chooseMove, once the older request is superseded: to the worker in use ...
Post(page, w) ==
    /\ Becomes([page EXCEPT !.pending = Request(nextId, w), !.worker = w])
    /\ inbox' = [inbox EXCEPT ![w] = Append(@, nextId)]

\* ... or to a new one ...
Launch(page) ==
    \E w \in Workers \ started :
      /\ started' = started \cup {w}
      /\ Post([page EXCEPT !.running = @ \cup {w}], w)

\* ... or, when none starts or it will not take the message, to a timer.
OnMainThread(page) ==
    /\ Becomes([page EXCEPT !.pending = Request(nextId, None)])
    /\ UNCHANGED inbox

ChooseMove ==
    LET page == Superseded(Page)
    IN  /\ ~disposed
        /\ nextId \in Ids
        /\ nextId' = nextId + 1
        /\ \/ page.worker # None /\ Post(page, page.worker)
              /\ UNCHANGED started
           \/ page.worker = None /\ Launch(page)
           \/ page.worker = None /\ OnMainThread(page) /\ UNCHANGED started
           \/ /\ page.worker # None
              /\ OnMainThread(Terminated(page, page.worker))
              /\ UNCHANGED started
        /\ UNCHANGED <<disposed, queue>>

ChooseAfterDispose ==
    /\ disposed
    /\ nextId \in Ids
    /\ nextId' = nextId + 1
    /\ settled' = Told(nextId, Supersession)
    /\ UNCHANGED <<pending, worker, disposed, started, running, inbox, queue>>

\* The timer's search: it cannot be stopped once it runs, and nothing else
\* runs while it does.
Fallback ==
    /\ pending # None /\ pending.fallback
    /\ \E result \in {Ok(pending.id), Failure} :
         Becomes(Completed(Page, result))
    /\ UNCHANGED <<nextId, disposed, started, inbox, queue>>

Watchdog ==
    /\ pending # None /\ pending.watchdog
    /\ Becomes(Failed(Page, pending.worker))
    /\ UNCHANGED <<nextId, disposed, started, inbox, queue>>

ResetEngine ==
    /\ Becomes(Reset(Page))
    /\ UNCHANGED <<nextId, disposed, started, inbox, queue>>

Dispose ==
    /\ ~disposed
    /\ disposed' = TRUE
    /\ Becomes(Reset(Page))
    /\ UNCHANGED <<nextId, started, inbox, queue>>

-----------------------------------------------------------------------------
\* The worker answers what it was posted, with a move or an error.
Search(w) ==
    /\ w \in running /\ inbox[w] # <<>>
    /\ inbox' = [inbox EXCEPT ![w] = Tail(@)]
    /\ \E kind \in {"move", "error"} :
         queue' = queue \cup {[worker |-> w, kind |-> kind,
                               id |-> Head(inbox[w])]}
    /\ UNCHANGED <<nextId, pending, worker, disposed, started, running, settled>>

\* It may also break, or say something else.
Break(w) ==
    /\ w \in running
    /\ \E kind \in {"broken", "garbage"} :
         queue' = queue \cup {[worker |-> w, kind |-> kind, id |-> 0]}
    /\ UNCHANGED <<nextId, pending, worker, disposed, started, running, inbox,
                   settled>>

Answers(event, active) ==
    event.kind \in {"move", "error"} /\ event.id = active.id

Result(event) == IF event.kind = "move" THEN Ok(event.id) ELSE Failure

\* The message listener.
Heard(page, event) ==
    IF \/ page.worker # event.worker
       \/ page.pending = None THEN page
    ELSE IF page.pending.worker # event.worker THEN page
    ELSE IF Answers(event, page.pending) THEN Completed(page, Result(event))
    ELSE Failed(page, event.worker)

Deliver ==
    /\ \E event \in queue :
         /\ queue' = queue \ {event}
         /\ Becomes(IF event.kind = "broken" THEN Failed(Page, event.worker)
                    ELSE Heard(Page, event))
    /\ UNCHANGED <<nextId, disposed, started, inbox>>

-----------------------------------------------------------------------------
Init ==
    /\ nextId = 1 /\ pending = None /\ worker = None /\ disposed = FALSE
    /\ started = {} /\ running = {} /\ queue = {}
    /\ inbox = [w \in Workers |-> <<>>]
    /\ settled = [id \in Ids |-> <<>>]

Next ==
    \/ ChooseMove \/ ChooseAfterDispose \/ ResetEngine \/ Dispose
    \/ Fallback \/ Watchdog \/ Deliver
    \/ \E w \in Workers : Search(w) \/ Break(w)

Spec == Init /\ [][Next]_facadeVars

-----------------------------------------------------------------------------
(***************************************************************************)
(* Properties.                                                             *)
(***************************************************************************)

\* Whatever a page does and however workers fail: every request but the
\* pending one was answered exactly once, with its own move or without one;
\* the pending one has a timer or a watched, running worker to answer it; and
\* the only worker running is the one in use, with nothing else to search.
EngineAnswersOnce ==
    /\ \A id \in Ids :
         IF id >= nextId \/ (pending # None /\ pending.id = id)
         THEN settled[id] = <<>>
         ELSE settled[id] \in {<<Ok(id)>>, <<Failure>>, <<Supersession>>}
    /\ running = {worker} \ {None}
    /\ \A w \in running :
         inbox[w] # <<>> => pending # None /\ inbox[w] = <<pending.id>>
    /\ disposed => worker = None /\ pending = None
    /\ pending # None =>
         IF pending.worker = None THEN pending.fallback
         ELSE pending.watchdog /\ pending.worker = worker

=============================================================================
