----------------------------- MODULE PlayProofs -----------------------------
(***************************************************************************)
(* What a player's side of the program keeps, for any number of workers,   *)
(* callers, keys and requests: the invariants of the page's engine, of the *)
(* bridge, of the page, of a lineage of Retries and of a case and its      *)
(* bundle, each with what makes it inductive.  A component is proved about *)
(* through its instance in MCPlay, where the others rest.                  *)
(***************************************************************************)
EXTENDS MCPlay, FiniteSetTheorems, SequenceTheorems,
  WellFoundedInduction, TLAPS

-----------------------------------------------------------------------------
(* The page's engine.                                                      *)

Asks == 1..MaxAsks
EngineResult == [status : {"ok", "failed", "superseded"}, move : Nat]
AskedFor == [id : Asks, worker : Workers \cup {None}, fallback : BOOLEAN, watchdog : BOOLEAN]
EnginePages == [pending : AskedFor \cup {None}, worker : Workers \cup {None},
                running : SUBSET Workers, settled : [Asks -> Seq(EngineResult)]]
EngineEvents == [worker : Workers, kind : {"move", "error", "broken", "garbage"}, id : Nat]

OneAnswer(id) == {<<Facade!Ok(id)>>, <<Facade!Failure>>, <<Facade!Supersession>>}
Waits(page, id) == page.pending # None /\ page.pending.id = id

(* Every request below n but the pending one has one answer.               *)
Answered(page, n) ==
  /\ page \in EnginePages
  /\ \A id \in Asks : IF id >= n \/ Waits(page, id) THEN page.settled[id] = <<>>
                                                    ELSE page.settled[id] \in OneAnswer(id)
  /\ page.running = {page.worker} \ {None}
  /\ page.pending # None => page.pending.id < n

(* The pending request has its timer, or the worker in use and a watchdog; *)
(* while a timer searches there is no worker.                              *)
Attended(page) ==
  page.pending # None =>
    IF page.pending.worker = None
    THEN page.pending.fallback /\ ~page.pending.watchdog /\ page.worker = None
    ELSE /\ page.pending.watchdog /\ ~page.pending.fallback
         /\ page.pending.worker = page.worker

(* A running worker has nothing but the pending request before it, and not *)
(* once its answer is on the way; a worker never started has nothing.      *)
InboxesFit(page, n, box, events, begun) ==
  /\ box \in [Workers -> Seq(Asks)]
  /\ \A w \in page.running : box[w] # <<>> =>
       page.pending # None /\ box[w] = <<page.pending.id>>
  /\ \A w \in Workers \ begun : box[w] = <<>>
  /\ \A e \in events : e.kind \in {"move", "error"} =>
       e.id < n /\ (e.worker \in page.running => box[e.worker] # <<e.id>>)

FacadeInv ==
  /\ Answered(Facade!Page, facadeNextId)
  /\ Attended(Facade!Page)
  /\ InboxesFit(Facade!Page, facadeNextId, facadeInbox, facadeQueue, facadeStarted)
  /\ facadeNextId \in Nat
  /\ facadeDisposed \in BOOLEAN
  /\ facadeDisposed => facadeWorker = None /\ facadePending = None
  /\ facadeStarted \subseteq Workers /\ facadeRunning \subseteq facadeStarted
  /\ facadeQueue \subseteq EngineEvents

(* The results a request can have.                                         *)
LEMMA AnswersTyped ==
  ASSUME NEW id \in Nat
  PROVE  {Facade!Ok(id), Facade!Failure, Facade!Supersession} \subseteq EngineResult
BY DEF Facade!Ok, Facade!Failure, Facade!Supersession, EngineResult

(* A termination leaves the answers alone.                                 *)
LEMMA TerminatedAnswered ==
  ASSUME NEW n \in Nat, NEW page, Answered(page, n), NEW w \in Workers
  PROVE  LET p == Facade!Terminated(page, w) IN
         /\ Answered(p, n)
         /\ p.pending = page.pending /\ p.settled = page.settled
         /\ p.running = page.running \ {w}
         /\ p.worker = IF page.worker = w THEN None ELSE page.worker
<1> DEFINE p == Facade!Terminated(page, w)
<1>1. /\ p \in EnginePages /\ p.pending = page.pending /\ p.settled = page.settled
      /\ p.running = page.running \ {w}
      /\ p.worker = IF page.worker = w THEN None ELSE page.worker
  BY DEF Answered, EnginePages, Facade!Terminated
<1> HIDE DEF p
<1>2. Answered(p, n)
  BY <1>1, FacadeAssumption DEF Answered, Waits
<1>. QED
  BY <1>1, <1>2 DEF p

(* Completing the pending request is its one answer.                       *)
LEMMA CompletedAnswered ==
  ASSUME NEW n \in Nat, NEW page, Answered(page, n), page.pending # None,
         NEW result \in {Facade!Ok(page.pending.id), Facade!Failure, Facade!Supersession}
  PROVE  LET p == Facade!Completed(page, result) IN
         /\ Answered(p, n)
         /\ p.pending = None
         /\ p.running = page.running /\ p.worker = page.worker
<1> DEFINE p == Facade!Completed(page, result)
           i == page.pending.id
<1>1. page.pending \in AskedFor /\ i \in Asks /\ i \in Nat
  BY DEF Answered, EnginePages, AskedFor, Asks
<1>2. result \in EngineResult
  BY <1>1, AnswersTyped
<1>3. /\ page.settled \in [Asks -> Seq(EngineResult)] /\ page.settled[i] = <<>>
      /\ page \in EnginePages /\ page.running = {page.worker} \ {None} /\ i < n
  BY <1>1 DEF Answered, EnginePages, Waits
<1>4. Append(page.settled[i], result) = <<result>>
  BY <1>3
<1>5. p.settled = [page.settled EXCEPT ![i] = <<result>>]
  BY <1>3, <1>4 DEF Facade!Completed, EnginePages
<1>6. p.pending = None /\ p.running = page.running /\ p.worker = page.worker
  BY <1>3 DEF Facade!Completed, EnginePages
<1>7. <<result>> \in Seq(EngineResult)
  BY <1>2
<1>8. p.settled \in [Asks -> Seq(EngineResult)]
  BY <1>3, <1>5, <1>7, <1>1
<1>9. p \in EnginePages
  BY <1>3, <1>5, <1>8 DEF Facade!Completed, EnginePages
<1>10. \A id \in Asks : p.settled[id] = IF id = i THEN <<result>> ELSE page.settled[id]
  BY <1>3, <1>5
<1>11. <<result>> \in OneAnswer(i)
  BY DEF OneAnswer
<1> HIDE DEF p
<1>12. Answered(p, n)
  <2>1. ASSUME NEW id \in Asks
        PROVE  IF id >= n \/ Waits(p, id) THEN p.settled[id] = <<>>
                                          ELSE p.settled[id] \in OneAnswer(id)
    <3>1. CASE id = i
      BY <3>1, <1>10, <1>11, <1>3, <1>6, <1>1 DEF Waits, Asks
    <3>2. CASE id # i
      BY <3>2, <1>10, <1>6 DEF Waits, Answered
    <3>. QED
      BY <3>1, <3>2
  <2>. QED
    BY <2>1, <1>9, <1>6, <1>3 DEF Answered
<1>. QED
  BY <1>12, <1>6 DEF p

(* What supersession, a failed worker and a reset leave: nobody waits, and *)
(* whoever waited has no worker any more.                                  *)
Quieted(p, page, n) ==
  /\ Answered(p, n)
  /\ p.pending = None
  /\ p.running \subseteq page.running
  /\ p.running # {} => page.pending = None

LEMMA SupersededQuiets ==
  ASSUME NEW n \in Nat, NEW page, Answered(page, n), Attended(page)
  PROVE  Quieted(Facade!Superseded(page), page, n)
<1>1. CASE page.pending = None
  BY <1>1 DEF Facade!Superseded, Quieted
<1>2. CASE page.pending # None
  <2> DEFINE w == page.pending.worker
             p == IF w = None THEN page ELSE Facade!Terminated(page, w)
  <2>1. page.pending \in AskedFor /\ w \in Workers \cup {None}
    BY <1>2 DEF Answered, EnginePages, AskedFor
  <2>2. /\ Answered(p, n) /\ p.pending = page.pending
        /\ p.running = {}
    <3>1. CASE w = None
      BY <3>1, <1>2 DEF Attended, Answered
    <3>2. CASE w # None
      BY <3>2, <2>1, <1>2, TerminatedAnswered DEF Attended, Answered
    <3>. QED
      BY <3>1, <3>2
  <2>3. Facade!Superseded(page) = Facade!Completed(p, Facade!Supersession)
    BY <1>2 DEF Facade!Superseded
  <2> HIDE DEF p
  <2>4. /\ Answered(Facade!Completed(p, Facade!Supersession), n)
        /\ Facade!Completed(p, Facade!Supersession).pending = None
        /\ Facade!Completed(p, Facade!Supersession).running = {}
    BY <2>2, <1>2, CompletedAnswered
  <2>. QED
    BY <2>3, <2>4 DEF Quieted
<1>. QED
  BY <1>1, <1>2

LEMMA FailedQuiets ==
  ASSUME NEW n \in Nat, NEW page, Answered(page, n), Attended(page), NEW w \in Workers
  PROVE  LET p == Facade!Failed(page, w) IN
         \/ p = page /\ page.worker # w
         \/ Quieted(p, page, n) /\ p.running = {} /\ p.worker = None
<1>1. CASE page.worker # w
  BY <1>1 DEF Facade!Failed
<1>2. CASE page.worker = w
  <2> DEFINE p == Facade!Terminated(page, w)
  <2>1. /\ Answered(p, n) /\ p.pending = page.pending /\ p.running = {} /\ p.worker = None
    BY <1>2, TerminatedAnswered DEF Answered
  <2>2. Facade!Failed(page, w) = IF p.pending # None /\ p.pending.worker = w
                                 THEN Facade!Completed(p, Facade!Failure) ELSE p
    BY <1>2 DEF Facade!Failed
  <2>3. page.pending # None => page.pending.worker = w
    BY <1>2, FacadeAssumption DEF Attended
  <2> HIDE DEF p
  <2>4. CASE page.pending = None
    BY <2>4, <2>1, <2>2 DEF Quieted
  <2>5. CASE page.pending # None
    <3>1. /\ Answered(Facade!Completed(p, Facade!Failure), n)
          /\ Facade!Completed(p, Facade!Failure).pending = None
          /\ Facade!Completed(p, Facade!Failure).running = {}
          /\ Facade!Completed(p, Facade!Failure).worker = None
      BY <2>1, <2>5, CompletedAnswered
    <3>. QED
      BY <3>1, <2>5, <2>3, <2>2, <2>1 DEF Quieted
  <2>. QED
    BY <2>4, <2>5
<1>. QED
  BY <1>1, <1>2

LEMMA ResetQuiets ==
  ASSUME NEW n \in Nat, NEW page, Answered(page, n), Attended(page)
  PROVE  /\ Quieted(Facade!Reset(page), page, n)
         /\ Facade!Reset(page).worker = None
<1> DEFINE p == Facade!Superseded(page)
<1>1. Quieted(p, page, n)
  BY SupersededQuiets
<1>2. Facade!Reset(page) = IF p.worker = None THEN p ELSE Facade!Terminated(p, p.worker)
  BY DEF Facade!Reset
<1> HIDE DEF p
<1>3. Answered(p, n) /\ p.worker \in Workers \cup {None} /\ p.pending = None
  BY <1>1 DEF Quieted, Answered, EnginePages
<1>4. CASE p.worker = None
  BY <1>4, <1>1, <1>2
<1>5. CASE p.worker # None
  BY <1>5, <1>1, <1>2, <1>3, TerminatedAnswered DEF Quieted, Answered
<1>. QED
  BY <1>4, <1>5

(* A step that gives the page this new state, starts no worker, posts      *)
(* nothing and may drop an event.                                          *)
LEMMA FacadeGoes ==
  ASSUME FacadeInv, NEW p, Facade!Becomes(p), Answered(p, facadeNextId), Attended(p),
         p.running \subseteq facadeRunning,
         \/ p.pending = facadePending
         \/ \A w \in p.running : facadeInbox[w] = <<>>,
         facadeDisposed' \in BOOLEAN,
         facadeDisposed' => p.worker = None /\ p.pending = None,
         facadeQueue' \subseteq facadeQueue,
         UNCHANGED <<facadeNextId, facadeStarted, facadeInbox>>
  PROVE  FacadeInv'
<1>1. Facade!Page' = p
  BY DEF Facade!Page, Facade!Becomes, Answered, EnginePages
<1>2. Answered(Facade!Page, facadeNextId)' /\ Attended(Facade!Page)'
  <2>1. Answered(Facade!Page', facadeNextId') /\ Attended(Facade!Page')
    BY <1>1
  <2>. QED
    BY <2>1 DEF Answered, Attended, Waits
<1>3. InboxesFit(p, facadeNextId, facadeInbox, facadeQueue', facadeStarted)
  BY DEF FacadeInv, InboxesFit, Facade!Page
<1>4. InboxesFit(Facade!Page, facadeNextId, facadeInbox, facadeQueue, facadeStarted)'
  BY <1>1, <1>3 DEF InboxesFit
<1>5. facadeRunning' \subseteq facadeStarted'
  BY DEF FacadeInv, Facade!Becomes
<1>. QED
  BY <1>2, <1>4, <1>5 DEF FacadeInv, Facade!Becomes

(* It quiets the page.                                                     *)
LEMMA FacadeQuiets ==
  ASSUME FacadeInv, NEW p, Facade!Becomes(p), Quieted(p, Facade!Page, facadeNextId),
         facadeDisposed' \in BOOLEAN, facadeDisposed' => p.worker = None,
         facadeQueue' \subseteq facadeQueue,
         UNCHANGED <<facadeNextId, facadeStarted, facadeInbox>>
  PROVE  FacadeInv'
<1>1. /\ Answered(p, facadeNextId) /\ p.pending = None /\ p.running \subseteq facadeRunning
      /\ p.running # {} => facadePending = None
  BY DEF Quieted, Facade!Page
<1>2. Attended(p)
  BY <1>1 DEF Attended
<1>3. \A w \in p.running : facadeInbox[w] = <<>>
  BY <1>1 DEF FacadeInv, InboxesFit, Facade!Page
<1>. QED
  BY <1>1, <1>2, <1>3, FacadeGoes

(* A new request for this worker, or for the timer, on a quiet page.       *)
Asking(page, n, w, going) ==
  [page EXCEPT !.pending = Facade!Request(n, w), !.worker = w, !.running = going]

LEMMA AskingAnswered ==
  ASSUME NEW n \in Asks, NEW page, Answered(page, n), page.pending = None,
         NEW w \in Workers \cup {None}
  PROVE  LET q == Asking(page, n, w, {w} \ {None}) IN
         /\ Answered(q, n + 1) /\ Attended(q)
         /\ q.pending # None /\ q.pending.id = n /\ q.running = {w} \ {None}
<1> DEFINE q == Asking(page, n, w, {w} \ {None})
           r == Facade!Request(n, w)
<1>1. /\ r \in AskedFor /\ r.id = n /\ r.worker = w
      /\ w = None => r.fallback /\ ~r.watchdog
      /\ w # None => r.watchdog /\ ~r.fallback
  BY DEF Facade!Request, AskedFor
<1>2. r # None
  BY <1>1, FacadeAssumption DEF AskedFor, Asks
<1> HIDE DEF r
<1>3. /\ q \in EnginePages /\ q.pending = r /\ q.worker = w
      /\ q.running = {w} \ {None} /\ q.settled = page.settled
  BY <1>1 DEF Asking, Answered, EnginePages, r
<1>4. n \in Nat
  BY DEF Asks
<1> HIDE DEF q
<1>5. Answered(q, n + 1)
  <2>1. ASSUME NEW id \in Asks
        PROVE  IF id >= n + 1 \/ Waits(q, id) THEN q.settled[id] = <<>>
                                              ELSE q.settled[id] \in OneAnswer(id)
    <3>1. (id >= n + 1 \/ Waits(q, id)) <=> id >= n
      BY <1>1, <1>2, <1>3, <1>4 DEF Waits, Asks
    <3>2. IF id >= n THEN page.settled[id] = <<>> ELSE page.settled[id] \in OneAnswer(id)
      BY DEF Answered, Waits
    <3>. QED
      BY <3>1, <3>2, <1>3
  <2>. QED
    BY <2>1, <1>1, <1>3, <1>4 DEF Answered
<1>6. Attended(q)
  BY <1>1, <1>3 DEF Attended
<1>. QED
  BY <1>1, <1>2, <1>3, <1>5, <1>6 DEF q

(* What a request posts: nothing to a timer, itself to a worker that has   *)
(* nothing before it.                                                      *)
LEMMA FacadeAsks ==
  ASSUME FacadeInv, facadeNextId \in Asks, ~facadeDisposed,
         NEW page, Answered(page, facadeNextId), page.pending = None,
         NEW w \in Workers \cup {None},
         Facade!Becomes(Asking(page, facadeNextId, w, {w} \ {None})),
         w # None => /\ facadeInbox[w] = <<>>
                     /\ facadeInbox' = [facadeInbox EXCEPT ![w] = Append(@, facadeNextId)]
                     /\ w \in facadeStarted',
         w = None => facadeInbox' = facadeInbox,
         facadeNextId' = facadeNextId + 1,
         facadeStarted \subseteq facadeStarted', facadeStarted' \subseteq Workers,
         UNCHANGED <<facadeDisposed, facadeQueue>>
  PROVE  FacadeInv'
<1> DEFINE q == Asking(page, facadeNextId, w, {w} \ {None})
           n == facadeNextId
<1>1. /\ Answered(q, n + 1) /\ Attended(q)
      /\ q.pending # None /\ q.pending.id = n /\ q.running = {w} \ {None}
  BY AskingAnswered
<1>2. Facade!Becomes(q)
  OBVIOUS
<1>3. n \in Nat /\ n' = n + 1
  BY DEF FacadeInv
<1> HIDE DEF q
<1>4. Facade!Page' = q
  BY <1>1, <1>2 DEF Facade!Page, Facade!Becomes, Answered, EnginePages
<1>5. Answered(Facade!Page, n)' /\ Attended(Facade!Page)'
  <2>1. Answered(Facade!Page', n') /\ Attended(Facade!Page')
    BY <1>1, <1>3, <1>4
  <2>. QED
    BY <2>1 DEF Answered, Attended, Waits
<1>6. /\ facadeInbox' \in [Workers -> Seq(Asks)]
      /\ \A v \in Workers : facadeInbox'[v] = IF v = w THEN <<n>> ELSE facadeInbox[v]
  <2>1. facadeInbox \in [Workers -> Seq(Asks)]
    BY DEF FacadeInv, InboxesFit
  <2>2. CASE w = None
    BY <2>1, <2>2, FacadeAssumption
  <2>3. CASE w # None
    <3>1. Append(facadeInbox[w], n) = <<n>> /\ <<n>> \in Seq(Asks)
      <4>1. facadeInbox[w] = <<>>
        BY <2>3
      <4>. QED
        BY <4>1
    <3>2. facadeInbox' = [facadeInbox EXCEPT ![w] = <<n>>]
      BY <2>3, <3>1
    <3>. QED
      BY <2>1, <2>3, <3>1, <3>2
  <2>. QED
    BY <2>2, <2>3
<1>7. InboxesFit(q, n + 1, facadeInbox', facadeQueue, facadeStarted')
  <2>1. /\ \A v \in Workers \ facadeStarted : facadeInbox[v] = <<>>
        /\ \A e \in facadeQueue : e.kind \in {"move", "error"} => e.id < n
        /\ \A e \in facadeQueue : e.id \in Nat /\ e.worker \in Workers
    BY DEF FacadeInv, InboxesFit, EngineEvents
  <2>2. ASSUME NEW v \in q.running
        PROVE  v = w /\ v \in Workers /\ facadeInbox'[v] = <<q.pending.id>>
    BY <1>1, <1>6
  <2>3. \A v \in Workers \ facadeStarted' : facadeInbox'[v] = <<>>
    BY <2>1, <1>6, <1>1
  <2>4. ASSUME NEW e \in facadeQueue, e.kind \in {"move", "error"}
        PROVE  e.id < n + 1 /\ (e.worker \in q.running => facadeInbox'[e.worker] # <<e.id>>)
    <3>1. e.id < n /\ e.id \in Nat
      BY <2>1, <2>4
    <3>2. e.worker \in q.running => facadeInbox'[e.worker] = <<n>>
      BY <2>2, <1>1
    <3>3. <<n>> # <<e.id>>
      BY <3>1, <1>3
    <3>. QED
      BY <3>1, <3>2, <3>3, <1>3
  <2>. QED
    BY <2>2, <2>3, <2>4, <1>1, <1>6 DEF InboxesFit
<1>8. InboxesFit(Facade!Page, n, facadeInbox, facadeQueue, facadeStarted)'
  BY <1>3, <1>4, <1>7 DEF InboxesFit
<1>9. facadeRunning' \subseteq facadeStarted'
  BY <1>1, <1>2 DEF Facade!Becomes
<1>. QED
  BY <1>3, <1>5, <1>8, <1>9 DEF FacadeInv

(* chooseMove, to a worker in use, to a new one or to a timer.             *)
LEMMA ChooseMoveKeeps ==
  ASSUME FacadeInv, Facade!ChooseMove
  PROVE  FacadeInv'
<1> DEFINE page == Facade!Superseded(Facade!Page)
           n == facadeNextId
<1>1. /\ ~facadeDisposed /\ n \in Asks /\ n' = n + 1
      /\ UNCHANGED <<facadeDisposed, facadeQueue>>
  BY DEF Facade!ChooseMove, Asks
<1>2. Quieted(page, Facade!Page, n)
  BY SupersededQuiets DEF FacadeInv
<1>3. /\ \/ /\ page.worker # None /\ Facade!Post(page, page.worker)
            /\ UNCHANGED facadeStarted
         \/ page.worker = None /\ Facade!Launch(page)
         \/ page.worker = None /\ Facade!OnMainThread(page) /\ UNCHANGED facadeStarted
         \/ /\ page.worker # None
            /\ Facade!OnMainThread(Facade!Terminated(page, page.worker))
            /\ UNCHANGED facadeStarted
  BY DEF Facade!ChooseMove
<1> HIDE DEF page
<1>4. /\ Answered(page, n) /\ page.pending = None /\ page \in EnginePages
      /\ page.running = {page.worker} \ {None} /\ page.worker \in Workers \cup {None}
      /\ page.running \subseteq facadeRunning
      /\ page.running # {} => facadePending = None
  BY <1>2 DEF Quieted, Answered, EnginePages, Facade!Page
<1>5. /\ facadeStarted \subseteq Workers /\ facadeRunning \subseteq facadeStarted
      /\ \A w \in facadeRunning : facadeInbox[w] # <<>> => facadePending # None
      /\ \A w \in Workers \ facadeStarted : facadeInbox[w] = <<>>
  BY DEF FacadeInv, InboxesFit, Facade!Page
<1>6. CASE page.worker # None /\ Facade!Post(page, page.worker) /\ UNCHANGED facadeStarted
  <2> SUFFICES ASSUME NEW w, w = page.worker PROVE FacadeInv'
    OBVIOUS
  <2>1. w \in Workers /\ w # None /\ w \in page.running
    BY <1>4, <1>6
  <2>2. w \in facadeRunning /\ facadePending = None
    BY <2>1, <1>4
  <2>3. w \in facadeStarted /\ facadeInbox[w] = <<>>
    BY <2>1, <2>2, <1>5
  <2>4. Asking(page, n, w, {w} \ {None})
          = [page EXCEPT !.pending = Facade!Request(n, w), !.worker = w]
    <3>1. page.running = {w} \ {None}
      BY <1>4
    <3>. QED
      BY <3>1, <1>4 DEF Asking, EnginePages
  <2>5. /\ Facade!Becomes(Asking(page, n, w, {w} \ {None}))
        /\ facadeInbox' = [facadeInbox EXCEPT ![w] = Append(@, n)]
    BY <1>6, <2>4 DEF Facade!Post
  <2>6. /\ facadeStarted \subseteq facadeStarted' /\ facadeStarted' \subseteq Workers
        /\ w \in facadeStarted'
    BY <1>5, <1>6, <2>3
  <2>. QED
    BY <1>1, <1>4, <2>1, <2>3, <2>5, <2>6, FacadeAsks
<1>7. CASE page.worker = None /\ Facade!Launch(page)
  <2>1. PICK w \in Workers \ facadeStarted :
          /\ facadeStarted' = facadeStarted \cup {w}
          /\ Facade!Post([page EXCEPT !.running = @ \cup {w}], w)
    BY <1>7 DEF Facade!Launch
  <2>2. w # None /\ facadeInbox[w] = <<>> /\ w \in facadeStarted'
    BY <2>1, <1>5, FacadeAssumption
  <2>3. page.running = {}
    BY <1>4, <1>7
  <2>4. [[page EXCEPT !.running = @ \cup {w}]
           EXCEPT !.pending = Facade!Request(n, w), !.worker = w]
          = Asking(page, n, w, {w} \ {None})
    BY <1>4, <2>2, <2>3 DEF Asking, EnginePages
  <2>5. /\ Facade!Becomes(Asking(page, n, w, {w} \ {None}))
        /\ facadeInbox' = [facadeInbox EXCEPT ![w] = Append(@, n)]
    BY <2>1, <2>4 DEF Facade!Post
  <2>6. facadeStarted \subseteq facadeStarted' /\ facadeStarted' \subseteq Workers
    BY <2>1, <1>5
  <2>. QED
    BY <1>1, <1>4, <2>2, <2>5, <2>6, FacadeAsks
<1>8. ASSUME NEW p, Answered(p, n), p.pending = None, p.worker = None,
             Facade!OnMainThread(p), UNCHANGED facadeStarted
      PROVE  FacadeInv'
  <2>1. [p EXCEPT !.pending = Facade!Request(n, None)] = Asking(p, n, None, {None} \ {None})
    BY <1>8 DEF Asking, Answered, EnginePages
  <2>2. /\ Facade!Becomes(Asking(p, n, None, {None} \ {None}))
        /\ facadeInbox' = facadeInbox
    BY <1>8, <2>1 DEF Facade!OnMainThread
  <2>. QED
    BY <1>1, <1>5, <1>8, <2>2, FacadeAsks
<1>9. CASE page.worker # None /\ Facade!OnMainThread(Facade!Terminated(page, page.worker))
                              /\ UNCHANGED facadeStarted
  <2>1. /\ Answered(Facade!Terminated(page, page.worker), n)
        /\ Facade!Terminated(page, page.worker).pending = None
        /\ Facade!Terminated(page, page.worker).worker = None
    <3>1. page.worker \in Workers /\ n \in Nat
      BY <1>4, <1>9, <1>1 DEF Asks
    <3>. QED
      BY <3>1, <1>4, TerminatedAnswered
  <2>. QED
    BY <2>1, <1>9, <1>8
<1>. QED
  BY <1>3, <1>4, <1>6, <1>7, <1>8, <1>9

(* chooseMove after dispose answers at once.                               *)
LEMMA ChooseAfterDisposeKeeps ==
  ASSUME FacadeInv, Facade!ChooseAfterDispose
  PROVE  FacadeInv'
<1> DEFINE n == facadeNextId
           page == Facade!Page
<1>1. /\ n \in Asks /\ n' = n + 1 /\ n \in Nat
      /\ facadeSettled' = [facadeSettled EXCEPT ![n] = Append(@, Facade!Supersession)]
      /\ UNCHANGED <<facadePending, facadeWorker, facadeDisposed, facadeStarted, facadeRunning,
                     facadeInbox, facadeQueue>>
      /\ facadePending = None
  BY DEF Facade!ChooseAfterDispose, FacadeInv, Facade!Told, Asks
<1>2. Answered(page, n) /\ page.settled = facadeSettled /\ page.pending = None
  BY <1>1 DEF FacadeInv, Facade!Page
<1>3. facadeSettled \in [Asks -> Seq(EngineResult)] /\ facadeSettled[n] = <<>>
  BY <1>1, <1>2 DEF Answered, EnginePages
<1>4. <<Facade!Supersession>> \in Seq(EngineResult)
  <2>1. Facade!Supersession \in EngineResult
    BY AnswersTyped
  <2>. QED
    BY <2>1
<1>5. facadeSettled' = [facadeSettled EXCEPT ![n] = <<Facade!Supersession>>]
  <2>1. Append(facadeSettled[n], Facade!Supersession) = <<Facade!Supersession>>
    BY <1>3
  <2>. QED
    BY <1>1, <2>1
<1>6. /\ facadeSettled' \in [Asks -> Seq(EngineResult)]
      /\ \A id \in Asks : facadeSettled'[id] = IF id = n THEN <<Facade!Supersession>>
                                                         ELSE facadeSettled[id]
  BY <1>3, <1>4, <1>5
<1>7. /\ page' \in EnginePages /\ page'.pending = None /\ page'.settled = facadeSettled'
      /\ page'.running = page.running /\ page'.worker = page.worker
  BY <1>1, <1>2, <1>6 DEF Facade!Page, Answered, EnginePages
<1>8. <<Facade!Supersession>> \in OneAnswer(n)
  BY DEF OneAnswer
<1>9. \A id \in Asks : IF id >= n THEN facadeSettled[id] = <<>>
                                  ELSE facadeSettled[id] \in OneAnswer(id)
  BY <1>2 DEF Answered, Waits
<1>10. \A id \in Asks : IF id >= n + 1 THEN facadeSettled'[id] = <<>>
                                       ELSE facadeSettled'[id] \in OneAnswer(id)
  BY <1>1, <1>6, <1>8, <1>9 DEF Asks
<1>11. page.running = {page.worker} \ {None}
  BY <1>2 DEF Answered
<1>12. Answered(page', n') /\ Attended(page')
  BY <1>1, <1>7, <1>10, <1>11 DEF Answered, Attended, Waits
<1>13. Answered(Facade!Page, n)' /\ Attended(Facade!Page)'
  BY <1>12 DEF Answered, Attended, Waits
<1>14. InboxesFit(page', n', facadeInbox', facadeQueue', facadeStarted')
  <2>1. /\ facadeInbox \in [Workers -> Seq(Asks)]
        /\ \A w \in page.running : facadeInbox[w] = <<>>
        /\ \A w \in Workers \ facadeStarted : facadeInbox[w] = <<>>
        /\ \A e \in facadeQueue : e.kind \in {"move", "error"} =>
             e.id < n /\ (e.worker \in page.running => facadeInbox[e.worker] # <<e.id>>)
        /\ \A e \in facadeQueue : e.id \in Nat
    BY <1>2 DEF FacadeInv, InboxesFit, EngineEvents
  <2>2. \A e \in facadeQueue : e.id < n => e.id < n + 1
    BY <2>1, <1>1
  <2>. QED
    BY <1>1, <1>7, <2>1, <2>2 DEF InboxesFit
<1>15. InboxesFit(Facade!Page, n, facadeInbox, facadeQueue, facadeStarted)'
  BY <1>14 DEF InboxesFit
<1>. QED
  BY <1>1, <1>13, <1>15 DEF FacadeInv

(* What the invariant says of the page as it is.                           *)
LEMMA PageNow ==
  ASSUME FacadeInv
  PROVE  /\ Answered(Facade!Page, facadeNextId) /\ Attended(Facade!Page)
         /\ facadeNextId \in Nat
         /\ Facade!Page.pending = facadePending /\ Facade!Page.worker = facadeWorker
         /\ Facade!Page.running = facadeRunning
         /\ facadePending \in AskedFor \cup {None} /\ facadeWorker \in Workers \cup {None}
         /\ facadeRunning = {facadeWorker} \ {None}
         /\ facadeDisposed \in BOOLEAN
         /\ facadeDisposed => facadeWorker = None /\ facadePending = None
         /\ facadePending # None =>
              IF facadePending.fallback THEN facadeRunning = {} /\ ~facadePending.watchdog
              ELSE facadePending.worker \in Workers
BY FacadeAssumption DEF FacadeInv, Facade!Page, Answered, Attended, EnginePages, AskedFor

(* The page gives up on a worker of its, or not, and forgets an event.     *)
LEMMA FailureKeeps ==
  ASSUME FacadeInv, NEW w \in Workers, Facade!Becomes(Facade!Failed(Facade!Page, w)),
         facadeQueue' \subseteq facadeQueue,
         UNCHANGED <<facadeNextId, facadeDisposed, facadeStarted, facadeInbox>>
  PROVE  FacadeInv'
<1> DEFINE p == Facade!Failed(Facade!Page, w)
<1>1. \/ p = Facade!Page
      \/ Quieted(p, Facade!Page, facadeNextId) /\ p.running = {} /\ p.worker = None
  BY PageNow, FailedQuiets
<1>2. /\ facadeDisposed' \in BOOLEAN
      /\ facadeDisposed' => facadeWorker = None /\ facadePending = None
  BY PageNow
<1>3. Facade!Becomes(p)
  OBVIOUS
<1> HIDE DEF p
<1>4. CASE p = Facade!Page
  BY <1>2, <1>3, <1>4, PageNow, FacadeGoes
<1>5. CASE Quieted(p, Facade!Page, facadeNextId) /\ p.worker = None
  BY <1>2, <1>3, <1>5, FacadeQuiets
<1>. QED
  BY <1>1, <1>4, <1>5

(* The timer's search.                                                     *)
LEMMA FallbackKeeps ==
  ASSUME FacadeInv, Facade!Fallback
  PROVE  FacadeInv'
<1>1. /\ facadePending # None /\ facadePending.fallback
      /\ UNCHANGED <<facadeNextId, facadeDisposed, facadeStarted, facadeInbox, facadeQueue>>
  BY DEF Facade!Fallback
<1>2. PICK result \in {Facade!Ok(facadePending.id), Facade!Failure} :
        Facade!Becomes(Facade!Completed(Facade!Page, result))
  BY DEF Facade!Fallback
<1> DEFINE p == Facade!Completed(Facade!Page, result)
<1>3. /\ Answered(p, facadeNextId) /\ p.pending = None
      /\ p.running = facadeRunning /\ p.worker = facadeWorker
  BY <1>1, PageNow, CompletedAnswered
<1>4. Facade!Becomes(p)
  BY <1>2
<1> HIDE DEF p
<1>5. /\ p.running \subseteq facadeRunning
      /\ \A w \in p.running : facadeInbox[w] = <<>>
      /\ facadeDisposed' = FALSE /\ facadeQueue' \subseteq facadeQueue
  BY <1>1, <1>3, PageNow
<1>6. Attended(p)
  BY <1>3 DEF Attended
<1>. QED
  BY <1>1, <1>3, <1>4, <1>5, <1>6, FacadeGoes

(* The watchdog gives up on the worker in use.                             *)
LEMMA WatchdogKeeps ==
  ASSUME FacadeInv, Facade!Watchdog
  PROVE  FacadeInv'
<1>1. /\ facadePending # None /\ facadePending.watchdog
      /\ Facade!Becomes(Facade!Failed(Facade!Page, facadePending.worker))
      /\ UNCHANGED <<facadeNextId, facadeDisposed, facadeStarted, facadeInbox, facadeQueue>>
  BY DEF Facade!Watchdog
<1>2. facadePending.worker \in Workers
  BY <1>1, PageNow
<1>. QED
  BY <1>1, <1>2, FailureKeeps

(* Reset and dispose retire whatever searches.                             *)
LEMMA ResetKeeps ==
  ASSUME FacadeInv, Facade!ResetEngine \/ Facade!Dispose
  PROVE  FacadeInv'
<1> DEFINE p == Facade!Reset(Facade!Page)
<1>1. Facade!Becomes(p) /\ facadeDisposed' \in BOOLEAN
      /\ UNCHANGED <<facadeNextId, facadeStarted, facadeInbox, facadeQueue>>
  BY PageNow DEF Facade!ResetEngine, Facade!Dispose
<1>2. Quieted(p, Facade!Page, facadeNextId) /\ p.worker = None
  BY PageNow, ResetQuiets
<1> HIDE DEF p
<1>. QED
  BY <1>1, <1>2, FacadeQuiets

(* A worker takes up what it was posted, and answers or breaks.            *)
LEMMA SearchKeeps ==
  ASSUME FacadeInv, NEW w \in Workers, Facade!Search(w)
  PROVE  FacadeInv'
<1> DEFINE page == Facade!Page
           n == facadeNextId
           id == Head(facadeInbox[w])
<1>1. /\ w \in facadeRunning /\ facadeInbox[w] # <<>>
      /\ facadeInbox' = [facadeInbox EXCEPT ![w] = Tail(@)]
      /\ UNCHANGED <<facadeNextId, facadePending, facadeWorker, facadeDisposed, facadeStarted,
                     facadeRunning, facadeSettled>>
  BY DEF Facade!Search
<1>2. PICK kind \in {"move", "error"} :
        facadeQueue' = facadeQueue \cup {[worker |-> w, kind |-> kind, id |-> id]}
  BY DEF Facade!Search
<1>3. /\ facadeInbox \in [Workers -> Seq(Asks)]
      /\ \A v \in facadeRunning : facadeInbox[v] # <<>> =>
           facadePending # None /\ facadeInbox[v] = <<facadePending.id>>
      /\ \A v \in Workers \ facadeStarted : facadeInbox[v] = <<>>
      /\ \A e \in facadeQueue : e.kind \in {"move", "error"} =>
           e.id < n /\ (e.worker \in facadeRunning => facadeInbox[e.worker] # <<e.id>>)
      /\ facadeQueue \subseteq EngineEvents
      /\ facadeRunning \subseteq facadeStarted
  BY DEF FacadeInv, InboxesFit, Facade!Page
<1>4. /\ facadePending # None /\ facadeInbox[w] = <<facadePending.id>>
      /\ facadePending.id < n /\ facadePending.id \in Asks
  <2>1. facadePending # None /\ facadeInbox[w] = <<facadePending.id>>
    BY <1>1, <1>3
  <2>. QED
    BY <2>1, PageNow DEF Answered, AskedFor
<1>5. id = facadePending.id /\ id \in Nat /\ Tail(facadeInbox[w]) = <<>>
  BY <1>4 DEF Asks
<1> HIDE DEF id
<1>6. /\ facadeInbox' \in [Workers -> Seq(Asks)]
      /\ \A v \in Workers : facadeInbox'[v] = IF v = w THEN <<>> ELSE facadeInbox[v]
  <2>1. facadeInbox' = [facadeInbox EXCEPT ![w] = <<>>]
    BY <1>1, <1>5
  <2>2. <<>> \in Seq(Asks)
    OBVIOUS
  <2>. QED
    BY <2>1, <2>2, <1>3
<1>7. facadeQueue' \subseteq EngineEvents
  BY <1>2, <1>3, <1>5 DEF EngineEvents
<1>8. \A e \in facadeQueue' : e.kind \in {"move", "error"} =>
        e.id < n /\ (e.worker \in facadeRunning => facadeInbox'[e.worker] # <<e.id>>)
  <2>1. ASSUME NEW e \in facadeQueue', e.kind \in {"move", "error"}
        PROVE  e.id < n /\ (e.worker \in facadeRunning => facadeInbox'[e.worker] # <<e.id>>)
    <3>1. e.worker \in Workers /\ <<>> # <<e.id>>
      BY <2>1, <1>7 DEF EngineEvents
    <3>2. CASE e \in facadeQueue
      <4>1. e.id < n /\ (e.worker \in facadeRunning => facadeInbox[e.worker] # <<e.id>>)
        BY <3>2, <2>1, <1>3
      <4>. QED
        BY <4>1, <3>1, <1>6
    <3>3. CASE e = [worker |-> w, kind |-> kind, id |-> id]
      <4>1. e.worker = w /\ e.id = id
        BY <3>3
      <4>. QED
        BY <4>1, <3>1, <1>4, <1>5, <1>6
    <3>. QED
      BY <3>2, <3>3, <2>1, <1>2
  <2>. QED
    BY <2>1
<1>9. InboxesFit(Facade!Page, n, facadeInbox, facadeQueue, facadeStarted)'
  <2>1. \A v \in facadeRunning' : facadeInbox'[v] # <<>> =>
          facadePending' # None /\ facadeInbox'[v] = <<facadePending'.id>>
    BY <1>1, <1>3, <1>6 DEF FacadeInv
  <2>2. \A v \in Workers \ facadeStarted' : facadeInbox'[v] = <<>>
    BY <1>1, <1>3, <1>6
  <2>. QED
    BY <1>1, <1>6, <1>8, <2>1, <2>2 DEF InboxesFit, Facade!Page
<1>10. Facade!Page' = Facade!Page
  BY <1>1 DEF Facade!Page
<1>11. Answered(Facade!Page, n)' /\ Attended(Facade!Page)'
  BY <1>1, <1>10, PageNow DEF Answered, Attended, Waits
<1>. QED
  BY <1>1, <1>7, <1>9, <1>11 DEF FacadeInv

LEMMA BreakKeeps ==
  ASSUME FacadeInv, NEW w \in Workers, Facade!Break(w)
  PROVE  FacadeInv'
<1> DEFINE n == facadeNextId
<1>1. UNCHANGED <<facadeNextId, facadePending, facadeWorker, facadeDisposed, facadeStarted,
                  facadeRunning, facadeInbox, facadeSettled>>
  BY DEF Facade!Break
<1>2. PICK kind \in {"broken", "garbage"} :
        facadeQueue' = facadeQueue \cup {[worker |-> w, kind |-> kind, id |-> 0]}
  BY DEF Facade!Break
<1>3. facadeQueue' \subseteq EngineEvents
  BY <1>2 DEF FacadeInv, EngineEvents
<1>4. \A e \in facadeQueue' : e.kind \in {"move", "error"} => e \in facadeQueue
  BY <1>2
<1>5. Facade!Page' = Facade!Page
  BY <1>1 DEF Facade!Page
<1>6. Answered(Facade!Page, n)' /\ Attended(Facade!Page)'
  BY <1>1, <1>5, PageNow DEF Answered, Attended, Waits
<1>7. InboxesFit(Facade!Page', n', facadeInbox', facadeQueue', facadeStarted')
  BY <1>1, <1>4, <1>5 DEF FacadeInv, InboxesFit
<1>8. InboxesFit(Facade!Page, n, facadeInbox, facadeQueue, facadeStarted)'
  BY <1>7 DEF InboxesFit
<1>. QED
  BY <1>1, <1>3, <1>6, <1>8 DEF FacadeInv

(* The listener uses an answer of the worker in use to the pending request *)
(* and gives up on a worker that says anything else.                       *)
LEMMA DeliverKeeps ==
  ASSUME FacadeInv, Facade!Deliver
  PROVE  FacadeInv'
<1> DEFINE page == Facade!Page
<1>1. PICK event \in facadeQueue :
        /\ facadeQueue' = facadeQueue \ {event}
        /\ Facade!Becomes(IF event.kind = "broken" THEN Facade!Failed(page, event.worker)
                          ELSE Facade!Heard(page, event))
  BY DEF Facade!Deliver
<1>2. /\ UNCHANGED <<facadeNextId, facadeDisposed, facadeStarted, facadeInbox>>
      /\ facadeQueue' \subseteq facadeQueue
      /\ event.worker \in Workers
  BY <1>1 DEF Facade!Deliver, FacadeInv, EngineEvents
<1>3. CASE Facade!Becomes(Facade!Failed(page, event.worker))
  BY <1>2, <1>3, FailureKeeps
<1>4. CASE Facade!Becomes(page)
  BY <1>2, <1>4, PageNow, FacadeGoes
<1>5. CASE /\ facadePending # None /\ facadeWorker = event.worker
           /\ facadePending.worker = event.worker
           /\ Facade!Answers(event, facadePending)
           /\ Facade!Becomes(Facade!Completed(page, Facade!Result(event)))
  <2> DEFINE p == Facade!Completed(page, Facade!Result(event))
  <2>1. Facade!Result(event) \in {Facade!Ok(facadePending.id), Facade!Failure}
    BY <1>5 DEF Facade!Result, Facade!Answers
  <2>2. /\ Answered(p, facadeNextId) /\ p.pending = None
        /\ p.running = facadeRunning /\ p.worker = facadeWorker
    BY <2>1, <1>5, PageNow, CompletedAnswered
  <2>3. Facade!Becomes(p)
    BY <1>5
  <2> HIDE DEF p
  <2>4. \A w \in facadeRunning : facadeInbox[w] = <<>>
    <3>1. event.kind \in {"move", "error"} /\ event.id = facadePending.id
      BY <1>5 DEF Facade!Answers
    <3>2. ASSUME NEW w \in facadeRunning PROVE facadeInbox[w] = <<>>
      <4>1. w = event.worker
        BY <3>2, <1>5, PageNow
      <4>2. facadeInbox[w] # <<event.id>>
        BY <4>1, <3>1, <3>2 DEF FacadeInv, InboxesFit, Facade!Page
      <4>. QED
        BY <4>2, <3>1 DEF FacadeInv, InboxesFit, Facade!Page
    <3>. QED
      BY <3>2
  <2>5. Attended(p)
    BY <2>2 DEF Attended
  <2>6. /\ p.running \subseteq facadeRunning
        /\ \A w \in p.running : facadeInbox[w] = <<>>
        /\ facadeDisposed' = FALSE
    BY <1>2, <1>5, <2>2, <2>4, PageNow
  <2>. QED
    BY <1>2, <2>2, <2>3, <2>4, <2>5, <2>6, FacadeGoes
<1>6. \/ Facade!Becomes(page)
      \/ Facade!Becomes(Facade!Failed(page, event.worker))
      \/ /\ facadePending # None /\ facadeWorker = event.worker
         /\ facadePending.worker = event.worker
         /\ Facade!Answers(event, facadePending)
         /\ Facade!Becomes(Facade!Completed(page, Facade!Result(event)))
  BY <1>1, PageNow DEF Facade!Heard
<1>. QED
  BY <1>3, <1>4, <1>5, <1>6

(* The facade's invariant: where it begins, at each of its steps, and      *)
(* while another component steps.                                          *)
LEMMA FacadeBegins == Facade!Init => FacadeInv
<1>. SUFFICES ASSUME Facade!Init PROVE FacadeInv
  OBVIOUS
<1>1. /\ facadeNextId = 1 /\ facadePending = None /\ facadeWorker = None
      /\ facadeDisposed = FALSE /\ facadeStarted = {} /\ facadeRunning = {} /\ facadeQueue = {}
      /\ facadeInbox = [w \in Workers |-> <<>>]
      /\ facadeSettled = [id \in Asks |-> <<>>]
  BY DEF Facade!Init, Asks
<1>2. <<>> \in Seq(Asks) /\ <<>> \in Seq(EngineResult)
  OBVIOUS
<1>3. Facade!Page \in EnginePages
  BY <1>1, <1>2 DEF Facade!Page, EnginePages
<1>4. Answered(Facade!Page, facadeNextId)
  BY <1>1, <1>3 DEF Facade!Page, Answered, Waits, Asks
<1>5. Attended(Facade!Page)
  BY <1>1 DEF Facade!Page, Attended
<1>6. InboxesFit(Facade!Page, facadeNextId, facadeInbox, facadeQueue, facadeStarted)
  BY <1>1, <1>2 DEF Facade!Page, InboxesFit
<1>. QED
  BY <1>1, <1>4, <1>5, <1>6 DEF FacadeInv

LEMMA FacadeSteps == FacadeInv /\ Facade!Next => FacadeInv'
BY ChooseMoveKeeps, ChooseAfterDisposeKeeps, FallbackKeeps, WatchdogKeeps, ResetKeeps,
   SearchKeeps, BreakKeeps, DeliverKeeps DEF Facade!Next

LEMMA FacadeRests == FacadeInv /\ UNCHANGED facadeVars => FacadeInv'
BY DEF facadeVars, FacadeInv, Facade!Page, Answered, Attended, InboxesFit, Waits

LEMMA FacadeShows == FacadeInv => Facade!EngineAnswersOnce
<1>. SUFFICES ASSUME FacadeInv PROVE Facade!EngineAnswersOnce
  OBVIOUS
<1>1. \A id \in Asks : IF id >= facadeNextId \/ (facadePending # None /\ facadePending.id = id)
                       THEN facadeSettled[id] = <<>>
                       ELSE facadeSettled[id] \in {<<Facade!Ok(id)>>, <<Facade!Failure>>, <<Facade!Supersession>>}
  BY DEF FacadeInv, Answered, Facade!Page, Waits, OneAnswer
<1>2. \A w \in facadeRunning : facadeInbox[w] # <<>> =>
        facadePending # None /\ facadeInbox[w] = <<facadePending.id>>
  BY DEF FacadeInv, InboxesFit, Facade!Page
<1>3. facadePending # None =>
        IF facadePending.worker = None THEN facadePending.fallback
        ELSE facadePending.watchdog /\ facadePending.worker = facadeWorker
  BY DEF FacadeInv, Attended, Facade!Page
<1>. QED
  BY <1>1, <1>2, <1>3, PageNow DEF Facade!EngineAnswersOnce, Asks

(* The facade's invariant holds while it is the component under check.     *)
THEOREM FacadeInvariant == MCSpec => [](part = "facade" => FacadeInv)
<1>. DEFINE Inv == part = "facade" => FacadeInv
<1>1. MCInit => Inv
  BY FacadeBegins DEF MCInit
<1>2. Inv /\ [MCNext]_<<part, divisionVars, lineVars, facadeVars, pageVars, bridgeVars,
                        caseVars>> => Inv'
  <2>. SUFFICES ASSUME Inv, [MCNext]_<<part, divisionVars, lineVars, facadeVars, pageVars,
                                       bridgeVars, caseVars>>,
                       part' = "facade"
                PROVE  FacadeInv'
    OBVIOUS
  <2>1. CASE FacadeStep
    BY <2>1, FacadeSteps DEF FacadeStep
  <2>2. CASE UNCHANGED facadeVars /\ part' = part
    BY <2>2, FacadeRests
  <2>. QED
    BY <2>1, <2>2 DEF MCNext, DivisionStep, LineageStep, PageStep, BridgeStep, CaseStep
<1>. QED
  BY <1>1, <1>2, PTL DEF MCSpec

(* Every request to the page's engine but the pending one was answered     *)
(* once, with its own move or without one, and the pending one has someone *)
(* to answer it: EngineFacade's property.                                  *)
THEOREM EngineAlwaysAnswersOnce == MCSpec => []EngineAnswersOnce
<1>1. (part = "facade" => FacadeInv) => EngineAnswersOnce
  BY FacadeShows DEF EngineAnswersOnce
<1>. QED
  BY <1>1, FacadeInvariant, PTL

-----------------------------------------------------------------------------
(* The bridge.                                                             *)

(* A set of naturals that is not empty has a least element.                *)
LEMMA Least ==
  ASSUME NEW T \in SUBSET Nat, T # {}
  PROVE  \E m \in T : \A k \in T : m <= k
<1>1. IsWellFoundedOn(OpToRel(<,Nat), Nat)
  BY NatLessThanWellFounded
<1>2. PICK m \in T : \A k \in T : ~(<<k, m>> \in OpToRel(<,Nat))
  BY <1>1, WFMin
<1>3. \A k \in Nat, l \in Nat : <<k, l>> \in OpToRel(<,Nat) <=> k < l
  BY DEF OpToRel
<1>4. \A k \in T : ~(k < m)
  BY <1>2, <1>3
<1>. QED
  BY <1>4

(* The records of turns there can be.                                      *)
TurnRecords == [turn : Turns, by : Callers \cup {None}, state : {"active", "draining", "terminal"},
                old : BOOLEAN]
(* f counts, up to each place, the records kept so far: BridgeTurns' Fresh. *)
KeptAt(s, f, n) ==
  f = [i \in 0..n |-> IF i = 0 THEN <<>>
                     ELSE IF s[i].old THEN f[i-1] ELSE Append(f[i-1], s[i])]

(* There is such a function, for any records.                              *)
LEMMA KeptExists ==
  ASSUME NEW s \in Seq(TurnRecords) PROVE \A n \in 0..Len(s) : \E f : KeptAt(s, f, n)
<1> DEFINE T == {n \in 0..Len(s) : ~ \E f : KeptAt(s, f, n)}
<1>. SUFFICES ASSUME T # {} PROVE FALSE
  OBVIOUS
<1>1. T \in SUBSET Nat
  OBVIOUS
<1>2. \A n \in 0..Len(s) : n \in T <=> ~ \E f : KeptAt(s, f, n)
  OBVIOUS
<1>3. T \subseteq 0..Len(s)
  OBVIOUS
<1> HIDE DEF T
<1>4. PICK m \in T : \A k \in T : m <= k
  BY <1>1, Least
<1>5. CASE m = 0
  <2>1. KeptAt(s, [i \in 0..m |-> <<>>], m)
    BY <1>5 DEF KeptAt
  <2>. QED
    BY <2>1, <1>2, <1>3
<1>6. CASE m # 0
  <2>1. m - 1 \in 0..Len(s) /\ m \in Nat /\ m - 1 \notin T
    BY <1>4, <1>6, <1>3
  <2>2. PICK f : KeptAt(s, f, m - 1)
    BY <2>1, <1>2
  <2> DEFINE x == IF s[m].old THEN f[m-1] ELSE Append(f[m-1], s[m])
             g == [i \in 0..m |-> IF i = m THEN x ELSE f[i]]
  <2>3. \A i \in 0..(m-1) : f[i] = IF i = 0 THEN <<>> ELSE IF s[i].old THEN f[i-1]
       ELSE Append(f[i-1], s[i])
    BY <2>1, <2>2 DEF KeptAt
  <2>4. \A i \in 0..m : g[i] = IF i = 0 THEN <<>> ELSE IF s[i].old THEN g[i-1]
       ELSE Append(g[i-1], s[i])
    <3>1. SUFFICES ASSUME NEW i \in 0..m 
          PROVE g[i] = IF i = 0 THEN <<>> ELSE IF s[i].old THEN g[i-1] ELSE Append(g[i-1], s[i])
      OBVIOUS
    <3>2. CASE i = m
      <4>1. g[i] = x /\ g[i-1] = f[m-1]
        BY <3>2, <2>1, <1>6
      <4>. QED
        BY <4>1, <3>2, <1>6
    <3>3. CASE i # m
      <4>1. g[i] = f[i] /\ (i # 0 => g[i-1] = f[i-1]) /\ i \in 0..(m-1)
        BY <3>3, <2>1, <1>6
      <4> HIDE DEF g
      <4>2. f[i] = IF i = 0 THEN <<>> ELSE IF s[i].old THEN f[i-1] ELSE Append(f[i-1], s[i])
        BY <2>3, <4>1
      <4>. QED
        BY <4>1, <4>2
    <3>. QED
      BY <3>2, <3>3
  <2>5. g = [i \in 0..m |-> g[i]]
    OBVIOUS
  <2> HIDE DEF g
  <2>6. KeptAt(s, g, m)
    BY <2>4, <2>5 DEF KeptAt
  <2>. QED
    BY <2>6, <1>2, <1>3
<1>. QED BY <1>5, <1>6

(* Fresh is what any such function ends with.                              *)
LEMMA FreshIs ==
  ASSUME bridgeLedger \in Seq(TurnRecords) 
  PROVE \E f : KeptAt(bridgeLedger, f, Len(bridgeLedger)) /\ Bridge!Fresh = f[Len(bridgeLedger)]
<1> DEFINE c == CHOOSE f : KeptAt(bridgeLedger, f, Len(bridgeLedger))
<1>1. Bridge!Fresh = c[Len(bridgeLedger)]
  BY DEF Bridge!Fresh, KeptAt
<1>2. \E f : KeptAt(bridgeLedger, f, Len(bridgeLedger))
  BY KeptExists
<1>3. KeptAt(bridgeLedger, c, Len(bridgeLedger))
  BY <1>2
<1>. QED BY <1>1, <1>3


(* Two sequences, one after the other.                                     *)
LEMMA ConcatAt ==
  ASSUME NEW S, NEW a \in Seq(S), NEW b \in Seq(S)
  PROVE  /\ a \o b \in Seq(S)
         /\ Len(a \o b) = Len(a) + Len(b)
         /\ \A i \in 1..(Len(a) + Len(b)) :
              (a \o b)[i] = IF i <= Len(a) THEN a[i] ELSE b[i - Len(a)]
BY ConcatProperties

(* The steps of a start: it first installs the guard, and listens last.    *)
BootSteps ==
  [needs : SUBSET Bridge!Facts,
   act : {"guard", "check", "model probe", "search probe", "listen"}]

(* Both starts are lists of names.                                         *)
LEMMA FourSteps ==
  ASSUME NEW w \in BootSteps, NEW x \in BootSteps, NEW y \in BootSteps, NEW z \in BootSteps
  PROVE  LET s == <<w, x, y, z>> IN
         s \in Seq(BootSteps) /\ Len(s) = 4 /\ s[1] = w /\ s[2] = x /\ s[3] = y /\ s[4] = z
OBVIOUS

LEMMA TwelveSteps ==
  ASSUME NEW a \in Seq(BootSteps), NEW b \in Seq(BootSteps), NEW c \in Seq(BootSteps),
         Len(a) = 4, Len(b) = 4, Len(c) = 4
  PROVE  LET s == (a \o b) \o c IN
         /\ Len(s) = 12
         /\ \A i \in 1..4 : s[i] = a[i] /\ s[i + 4] = b[i] /\ s[i + 8] = c[i]
<1>. SUFFICES ASSUME NEW d, d = a \o b, NEW s, s = d \o c
              PROVE  /\ Len(s) = 12
                     /\ \A i \in 1..4 : s[i] = a[i] /\ s[i + 4] = b[i] /\ s[i + 8] = c[i]
  OBVIOUS
<1>1. /\ d \in Seq(BootSteps) /\ Len(d) = 8
      /\ \A i \in 1..(4 + 4) : d[i] = IF i <= 4 THEN a[i] ELSE b[i - 4]
  <2>1. /\ d \in Seq(BootSteps) /\ Len(d) = Len(a) + Len(b)
        /\ \A i \in 1..(Len(a) + Len(b)) : d[i] = IF i <= Len(a) THEN a[i] ELSE b[i - Len(a)]
    BY ConcatAt
  <2>. QED
    BY <2>1
<1>2. /\ Len(s) = 12
      /\ \A i \in 1..(8 + 4) : s[i] = IF i <= 8 THEN d[i] ELSE c[i - 8]
  BY <1>1, ConcatAt
<1>3. ASSUME NEW i \in 1..4
      PROVE  s[i] = a[i] /\ s[i + 4] = b[i] /\ s[i + 8] = c[i]
  <2>1. /\ i \in 1..12 /\ i + 4 \in 1..12 /\ i + 8 \in 1..12
        /\ i <= 8 /\ i + 4 <= 8 /\ ~(i + 8 <= 8) /\ (i + 8) - 8 = i
        /\ i \in 1..8 /\ i + 4 \in 1..8 /\ i <= 4 /\ ~(i + 4 <= 4) /\ (i + 4) - 4 = i
    OBVIOUS
  <2>2. s[i] = d[i] /\ s[i + 4] = d[i + 4] /\ s[i + 8] = c[i]
    BY <1>2, <2>1
  <2>3. i \in 1..(4 + 4) /\ i + 4 \in 1..(4 + 4)
    OBVIOUS
  <2>4. d[i] = a[i] /\ d[i + 4] = b[i]
    BY <1>1, <2>1, <2>3
  <2>. QED
    BY <2>2, <2>4
<1>. QED
  BY <1>2, <1>3

LEMMA StartupIs ==
  /\ Len(Bridge!Startup) = 12
  /\ Bridge!Startup[1].act = "guard"
  /\ \A i \in 1..12 : Bridge!Startup[i].act = "listen" <=> i = 12
<1>2. /\ {} \in SUBSET Bridge!Facts /\ Bridge!StaticallyReady \in SUBSET Bridge!Facts
      /\ Bridge!AccountAuth \in SUBSET Bridge!Facts
      /\ Bridge!StaticallyReady \cup Bridge!PreparedModel \in SUBSET Bridge!Facts
      /\ Bridge!StaticallyReady \cup Bridge!BoundProvider \in SUBSET Bridge!Facts
      /\ Bridge!SearchAuth \in SUBSET Bridge!Facts
      /\ Bridge!BoundProvider \in SUBSET Bridge!Facts
      /\ Bridge!SearchAuth \cup Bridge!PreparedModel \in SUBSET Bridge!Facts
  BY DEF Bridge!Facts, Bridge!PreparedModel
<1>3. LET s == Bridge!AuthSteps IN
      /\ s \in Seq(BootSteps) /\ Len(s) = 4
      /\ s[1].act = "guard" /\ s[2].act = "check" /\ s[3].act = "check" /\ s[4].act = "model probe"
  <2>1. LET x == Bridge!Step(Bridge!StaticallyReady, "guard") IN x \in BootSteps /\ x.act = "guard"
    BY <1>2 DEF Bridge!Step, BootSteps
  <2>2. LET x == Bridge!Step(Bridge!AccountAuth, "check") IN x \in BootSteps /\ x.act = "check"
    BY <1>2 DEF Bridge!Step, BootSteps
  <2>3. LET x == Bridge!Step(Bridge!StaticallyReady \cup Bridge!PreparedModel,
       "check") IN x \in BootSteps /\ x.act = "check"
    BY <1>2 DEF Bridge!Step, BootSteps
  <2>4. LET x == Bridge!Step({}, "model probe") IN x \in BootSteps /\ x.act = "model probe"
    BY <1>2 DEF Bridge!Step, BootSteps
  <2>. QED
    BY <2>1, <2>2, <2>3, <2>4, FourSteps DEF Bridge!AuthSteps
<1>4. LET s == Bridge!SearchSteps IN
      /\ s \in Seq(BootSteps) /\ Len(s) = 4
      /\ s[1].act = "check" /\ s[2].act = "check" /\ s[3].act = "check" /\ s[4].act = "search probe"
  <2>1. LET x == Bridge!Step(Bridge!StaticallyReady \cup Bridge!BoundProvider,
       "check") IN x \in BootSteps /\ x.act = "check"
    BY <1>2 DEF Bridge!Step, BootSteps
  <2>2. LET x == Bridge!Step(Bridge!SearchAuth, "check") IN x \in BootSteps /\ x.act = "check"
    BY <1>2 DEF Bridge!Step, BootSteps
  <2>3. LET x == Bridge!Step(Bridge!StaticallyReady \cup Bridge!PreparedModel,
       "check") IN x \in BootSteps /\ x.act = "check"
    BY <1>2 DEF Bridge!Step, BootSteps
  <2>4. LET x == Bridge!Step(Bridge!BoundProvider,
       "search probe") IN x \in BootSteps /\ x.act = "search probe"
    BY <1>2 DEF Bridge!Step, BootSteps
  <2>. QED
    BY <2>1, <2>2, <2>3, <2>4, FourSteps DEF Bridge!SearchSteps
<1>5. LET s == Bridge!FinalSteps IN
      /\ s \in Seq(BootSteps) /\ Len(s) = 4
      /\ s[1].act = "check" /\ s[2].act = "check" /\ s[3].act = "check" /\ s[4].act = "listen"
  <2>1. LET x == Bridge!Step(Bridge!StaticallyReady \cup Bridge!BoundProvider,
       "check") IN x \in BootSteps /\ x.act = "check"
    BY <1>2 DEF Bridge!Step, BootSteps
  <2>2. LET x == Bridge!Step(Bridge!SearchAuth, "check") IN x \in BootSteps /\ x.act = "check"
    BY <1>2 DEF Bridge!Step, BootSteps
  <2>3. LET x == Bridge!Step(Bridge!StaticallyReady \cup Bridge!BoundProvider,
       "check") IN x \in BootSteps /\ x.act = "check"
    BY <1>2 DEF Bridge!Step, BootSteps
  <2>4. LET x == Bridge!Step(Bridge!SearchAuth \cup Bridge!PreparedModel,
       "listen") IN x \in BootSteps /\ x.act = "listen"
    BY <1>2 DEF Bridge!Step, BootSteps
  <2>. QED
    BY <2>1, <2>2, <2>3, <2>4, FourSteps DEF Bridge!FinalSteps
<1>6. Bridge!Startup = (Bridge!AuthSteps \o Bridge!SearchSteps) \o Bridge!FinalSteps
  BY DEF Bridge!Startup
<1>7. /\ Len(Bridge!Startup) = 12
      /\ \A i \in 1..4 : /\ Bridge!Startup[i] = Bridge!AuthSteps[i]
                         /\ Bridge!Startup[i + 4] = Bridge!SearchSteps[i]
                         /\ Bridge!Startup[i + 8] = Bridge!FinalSteps[i]
  BY <1>3, <1>4, <1>5, <1>6, TwelveSteps
<1>8. /\ Bridge!Startup[1].act = "guard"
      /\ \A i \in 1..4 : /\ Bridge!Startup[i].act # "listen"
                         /\ Bridge!Startup[i + 4].act # "listen"
                         /\ Bridge!Startup[i + 8].act = "listen" <=> i = 4
  <2>1. ASSUME NEW i \in 1..4
        PROVE  /\ Bridge!Startup[i].act # "listen"
               /\ Bridge!Startup[i + 4].act # "listen"
               /\ Bridge!Startup[i + 8].act = "listen" <=> i = 4
    <3>1. i = 1 \/ i = 2 \/ i = 3 \/ i = 4
      OBVIOUS
    <3>2. /\ Bridge!AuthSteps[i].act # "listen" /\ Bridge!SearchSteps[i].act # "listen"
          /\ Bridge!FinalSteps[i].act = "listen" <=> i = 4
      BY <3>1, <1>3, <1>4, <1>5
    <3>. QED
      BY <3>2, <1>7
  <2>2. 1 \in 1..4
    OBVIOUS
  <2>. QED
    BY <2>1, <2>2, <1>3, <1>7
<1>9. ASSUME NEW i \in 1..12
      PROVE  Bridge!Startup[i].act = "listen" <=> i = 12
  <2>1. \/ i \in 1..4
        \/ i - 4 \in 1..4 /\ (i - 4) + 4 = i /\ i # 12
        \/ i - 8 \in 1..4 /\ (i - 8) + 8 = i /\ (i - 8 = 4 <=> i = 12)
    OBVIOUS
  <2>2. CASE i \in 1..4
    BY <2>2, <1>8
  <2>3. CASE i - 4 \in 1..4 /\ (i - 4) + 4 = i /\ i # 12
    BY <2>3, <1>8
  <2>4. CASE i - 8 \in 1..4 /\ (i - 8) + 8 = i /\ (i - 8 = 4 <=> i = 12)
    BY <2>4, <1>8
  <2>. QED
    BY <2>1, <2>2, <2>3, <2>4
<1>. QED
  BY <1>7, <1>8, <1>9

(* What each kind of request awaits: only a model request has a dispatch.  *)
LEMMA PlansAre ==
  /\ Len(Bridge!Plan("status")) = 5 /\ Len(Bridge!Plan("model")) = 7
                                           /\ Len(Bridge!Plan("search")) = 7
  /\ \A k \in {"status", "model", "search"} : \A i \in 1..Len(Bridge!Plan(k)) :
       Bridge!Plan(k)[i].act = "run" => k = "model" /\ i = 5
BY DEF Bridge!Plan, Bridge!StatusPlan, Bridge!ModelPlan, Bridge!SearchPlan,
     Bridge!Preflight, Bridge!Postflight, Bridge!SearchPostflight, Bridge!Step

(* The oldest tombstone, where there is one.                               *)
LEMMA OldestIs ==
  ASSUME NEW s \in Seq(TurnRecords), Bridge!OldestTerminal(s) # 0
  PROVE  LET k == Bridge!OldestTerminal(s) IN k \in 1..Len(s) /\ s[k].state = "terminal"
<1> DEFINE I == {i \in 1..Len(s) : s[i].state = "terminal"}
<1>1. Bridge!OldestTerminal(s) = IF I # {} THEN Bridge!Min(I) ELSE 0
  BY DEF Bridge!OldestTerminal, Bridge!SelectInSeq
<1>2. I \in SUBSET Nat /\ I # {}
  BY <1>1
<1>3. Bridge!Min(I) = CHOOSE x \in I : \A y \in I : x <= y
  BY DEF Bridge!Min
<1>4. \A i \in I : i \in 1..Len(s) /\ s[i].state = "terminal"
  OBVIOUS
<1> HIDE DEF I
<1>5. \E x \in I : \A y \in I : x <= y
  BY <1>2, Least
<1>6. Bridge!Min(I) \in I
  BY <1>3, <1>5
<1>. QED
  BY <1>1, <1>2, <1>4, <1>6

(* Fewer records, in which every one that is not a tombstone is still there. *)
Distinct(s) == \A i, j \in 1..Len(s) : i # j => s[i].turn # s[j].turn
Thinned(t, s) ==
  /\ t \in Seq(TurnRecords)
  /\ Len(t) <= Len(s)
  /\ \A k \in 1..Len(t) : \E i \in 1..Len(s) : t[k] = s[i]
  /\ \A i \in 1..Len(s) : s[i].state # "terminal" => \E k \in 1..Len(t) : t[k] = s[i]
  /\ Distinct(s) => Distinct(t)

LEMMA ThinnedTwice ==
  ASSUME NEW s \in Seq(TurnRecords), NEW t, Thinned(t, s), NEW u, Thinned(u, t)
  PROVE  Thinned(u, s)
<1>1. u \in Seq(TurnRecords) /\ t \in Seq(TurnRecords) /\ (Distinct(s) => Distinct(u))
  BY DEF Thinned
<1>2. Len(u) <= Len(s)
  BY <1>1 DEF Thinned
<1>3. \A k \in 1..Len(u) : \E i \in 1..Len(s) : u[k] = s[i]
  BY DEF Thinned
<1>4. ASSUME NEW i \in 1..Len(s), s[i].state # "terminal"
      PROVE  \E k \in 1..Len(u) : u[k] = s[i]
  <2>1. PICK j \in 1..Len(t) : t[j] = s[i]
    BY <1>4 DEF Thinned
  <2>. QED
    BY <2>1, <1>4 DEF Thinned
<1>. QED
  BY <1>1, <1>2, <1>3, <1>4 DEF Thinned

(* Without one tombstone.                                                  *)
LEMMA RemovalThins ==
  ASSUME NEW s \in Seq(TurnRecords), NEW k \in 1..Len(s), s[k].state = "terminal"
  PROVE  Thinned(Bridge!RemoveAt(s, k), s) /\ Len(Bridge!RemoveAt(s, k)) = Len(s) - 1
<1> DEFINE t == Bridge!RemoveAt(s, k)
           a == SubSeq(s, 1, k - 1)
           b == SubSeq(s, k + 1, Len(s))
<1>1. /\ a \in Seq(TurnRecords) /\ Len(a) = k - 1
      /\ \A i \in 1..(k - 1) : a[i] = s[i]
  BY SubSeqProperties
<1>2. /\ b \in Seq(TurnRecords) /\ Len(b) = Len(s) - k
      /\ \A i \in 1..(Len(s) - k) : b[i] = s[i + k]
  BY SubSeqProperties
<1>3. t = a \o b
  BY DEF Bridge!RemoveAt
<1> HIDE DEF a, b, t
<1>4. /\ t \in Seq(TurnRecords) /\ Len(t) = Len(s) - 1
      /\ \A i \in 1..(Len(s) - 1) : t[i] = IF i < k THEN s[i] ELSE s[i + 1]
  <2>1. t \in Seq(TurnRecords) /\ Len(t) = Len(a) + Len(b)
    BY <1>1, <1>2, <1>3, ConcatProperties
  <2>2. Len(s) \in Nat /\ k \in Nat /\ k <= Len(s) /\ Len(t) = Len(s) - 1
    BY <2>1, <1>1, <1>2
  <2>3. ASSUME NEW i \in 1..(Len(s) - 1)
        PROVE  t[i] = IF i < k THEN s[i] ELSE s[i + 1]
    <3>1. t[i] = IF i <= Len(a) THEN a[i] ELSE b[i - Len(a)]
      BY <2>1, <2>2, <1>1, <1>2, <1>3, ConcatProperties
    <3>2. CASE i < k
      BY <3>1, <3>2, <1>1, <2>2
    <3>3. CASE ~(i < k)
      <4>1. i - (k - 1) \in 1..(Len(s) - k) /\ i - (k - 1) + k = i + 1
        BY <3>3, <2>2
      <4>. QED
        BY <3>1, <3>3, <4>1, <1>1, <1>2, <2>2
    <3>. QED
      BY <3>2, <3>3
  <2>. QED
    BY <2>1, <2>2, <2>3
<1>5. Len(s) \in Nat
  OBVIOUS
<1>6. \A i \in 1..Len(t) : \E j \in 1..Len(s) : t[i] = s[j]
  BY <1>4, <1>5
<1>7. ASSUME NEW i \in 1..Len(s), s[i].state # "terminal"
      PROVE  \E j \in 1..Len(t) : t[j] = s[i]
  <2>1. CASE i < k
    BY <2>1, <1>4, <1>5
  <2>2. CASE i > k
    <3>1. i - 1 \in 1..Len(t) /\ t[i - 1] = s[i]
      BY <2>2, <1>4, <1>5
    <3>. QED
      BY <3>1
  <2>. QED
    BY <2>1, <2>2, <1>7
<1>8. Distinct(s) => Distinct(t)
  BY <1>4, <1>5 DEF Distinct
<1>. QED
  BY <1>4, <1>5, <1>6, <1>7, <1>8 DEF Thinned, t

(* Without the expired ones, which are tombstones.                         *)
KeptOf(t, s, n) ==
  /\ t \in Seq(TurnRecords)
  /\ Len(t) <= n
  /\ \A k \in 1..Len(t) : \E i \in 1..n : t[k] = s[i]
  /\ \A i \in 1..n : ~s[i].old => \E k \in 1..Len(t) : t[k] = s[i]
  /\ Distinct(s) => Distinct(t)

(* One more record, kept or expired.                                       *)
LEMMA KeptNext ==
  ASSUME NEW s \in Seq(TurnRecords), NEW n \in 1..Len(s), NEW t, KeptOf(t, s, n - 1)
  PROVE  /\ s[n].old => KeptOf(t, s, n)
         /\ ~s[n].old => KeptOf(Append(t, s[n]), s, n)
<1>1. /\ t \in Seq(TurnRecords) /\ Len(t) <= n - 1 /\ n \in Nat /\ s[n] \in TurnRecords
      /\ Len(t) \in Nat
      /\ \A k \in 1..Len(t) : \E i \in 1..(n - 1) : t[k] = s[i]
      /\ \A i \in 1..(n - 1) : ~s[i].old => \E k \in 1..Len(t) : t[k] = s[i]
      /\ Distinct(s) => Distinct(t)
  BY DEF KeptOf
<1>2. CASE s[n].old
  BY <1>1, <1>2 DEF KeptOf
<1>3. CASE ~s[n].old
  <2> DEFINE u == Append(t, s[n])
  <2>1. /\ u \in Seq(TurnRecords) /\ Len(u) = Len(t) + 1 /\ u[Len(t) + 1] = s[n]
        /\ \A k \in 1..Len(t) : u[k] = t[k]
    BY <1>1
  <2> HIDE DEF u
  <2>2. Len(u) <= n
    BY <2>1, <1>1
  <2>3. \A k \in 1..Len(u) : \E i \in 1..n : u[k] = s[i]
    BY <2>1, <1>1
  <2>4. ASSUME NEW i \in 1..n, ~s[i].old
        PROVE  \E k \in 1..Len(u) : u[k] = s[i]
    <3>1. CASE i = n
      BY <3>1, <2>1, <1>1
    <3>2. CASE i # n
      <4>1. i \in 1..(n - 1)
        BY <3>2, <1>1
      <4>2. PICK k \in 1..Len(t) : t[k] = s[i]
        BY <4>1, <2>4, <1>1
      <4>3. k \in 1..Len(u) /\ u[k] = s[i]
        BY <4>2, <2>1, <1>1
      <4>. QED
        BY <4>3
    <3>. QED
      BY <3>1, <3>2
  <2>5. ASSUME Distinct(s)
        PROVE  Distinct(u)
    <3>1. Distinct(t)
      BY <2>5, <1>1
    <3>2. ASSUME NEW k \in 1..Len(t)
          PROVE  t[k].turn # s[n].turn
      <4>1. PICK i \in 1..(n - 1) : t[k] = s[i]
        BY <1>1
      <4>2. i \in 1..Len(s) /\ i # n
        BY <4>1, <1>1
      <4>. QED
        BY <4>1, <4>2, <2>5 DEF Distinct
    <3>3. ASSUME NEW k \in 1..Len(u), NEW l \in 1..Len(u), k # l
          PROVE  u[k].turn # u[l].turn
      <4>1. CASE k \in 1..Len(t) /\ l \in 1..Len(t)
        BY <4>1, <3>1, <3>3, <2>1 DEF Distinct
      <4>2. CASE k = Len(t) + 1 /\ l \in 1..Len(t)
        BY <4>2, <3>2, <2>1
      <4>3. CASE k \in 1..Len(t) /\ l = Len(t) + 1
        BY <4>3, <3>2, <2>1
      <4>. QED
        BY <4>1, <4>2, <4>3, <3>3, <2>1, <1>1
    <3>. QED
      BY <3>3 DEF Distinct
  <2>. QED
    BY <1>3, <2>1, <2>2, <2>3, <2>4, <2>5 DEF KeptOf, u
<1>. QED
  BY <1>2, <1>3

(* At each place, what was kept is the records so far without expired ones. *)
LEMMA KeptIs ==
  ASSUME NEW s \in Seq(TurnRecords), NEW f, KeptAt(s, f, Len(s))
  PROVE  \A n \in 0..Len(s) : KeptOf(f[n], s, n)
<1> DEFINE T == {n \in 0..Len(s) : ~KeptOf(f[n], s, n)}
<1>. SUFFICES ASSUME T # {} PROVE FALSE
  OBVIOUS
<1>1. T \in SUBSET Nat /\ T \subseteq 0..Len(s)
  OBVIOUS
<1>2. \A n \in 0..Len(s) : n \in T <=> ~KeptOf(f[n], s, n)
  OBVIOUS
<1>3. Len(s) \in Nat
  OBVIOUS
<1>4. \A i \in 0..Len(s) : f[i] = IF i = 0 THEN <<>> ELSE IF s[i].old THEN f[i-1]
     ELSE Append(f[i-1], s[i])
  BY DEF KeptAt
<1> HIDE DEF T
<1>5. PICK m \in T : \A k \in T : m <= k
  BY <1>1, Least
<1>6. CASE m = 0
  <2>1. f[m] = <<>>
    BY <1>4, <1>6, <1>3
  <2>2. KeptOf(f[m], s, m)
    BY <2>1, <1>6 DEF KeptOf, Distinct
  <2>. QED
    BY <2>2, <1>1, <1>2, <1>5
<1>7. CASE m # 0
  <2>1. m \in 1..Len(s) /\ m - 1 \in 0..Len(s) /\ m - 1 \notin T
    BY <1>1, <1>3, <1>5, <1>7
  <2>2. KeptOf(f[m - 1], s, m - 1)
    BY <2>1, <1>2
  <2>3. f[m] = IF s[m].old THEN f[m-1] ELSE Append(f[m-1], s[m])
    BY <1>4, <2>1, <1>7
  <2>4. KeptOf(f[m], s, m)
    BY <2>1, <2>2, <2>3, KeptNext
  <2>. QED
    BY <2>4, <1>2, <1>1, <1>5
<1>. QED
  BY <1>6, <1>7

(* So Fresh loses tombstones only.                                         *)
LEMMA FreshThins ==
  ASSUME bridgeLedger \in Seq(TurnRecords),
         \A i \in 1..Len(bridgeLedger) : bridgeLedger[i].old => bridgeLedger[i].state = "terminal"
  PROVE  Thinned(Bridge!Fresh, bridgeLedger)
<1>1. PICK f : KeptAt(bridgeLedger, f, Len(bridgeLedger)) /\ Bridge!Fresh = f[Len(bridgeLedger)]
  BY FreshIs
<1>2. Len(bridgeLedger) \in 0..Len(bridgeLedger)
  OBVIOUS
<1>3. KeptOf(Bridge!Fresh, bridgeLedger, Len(bridgeLedger))
  BY <1>1, <1>2, KeptIs
<1>. QED
  BY <1>3 DEF KeptOf, Thinned

(* Reserving a turn finds room and loses no record but tombstones.         *)
LEMMA RoomThins ==
  ASSUME NEW s \in Seq(TurnRecords), Len(s) <= MaxRecords, Bridge!HasRoom(s)
  PROVE  Thinned(Bridge!Room(s), s) /\ Len(Bridge!Room(s)) < MaxRecords
<1>0. MaxRecords \in Nat /\ Len(s) \in Nat
  BY BridgeAssumption
<1>1. CASE Len(s) < MaxRecords
  BY <1>1 DEF Bridge!Room, Thinned
<1>2. CASE ~(Len(s) < MaxRecords)
  <2>1. Bridge!OldestTerminal(s) # 0
    BY <1>2 DEF Bridge!HasRoom
  <2>2. Bridge!Room(s) = Bridge!RemoveAt(s, Bridge!OldestTerminal(s))
    BY <1>2 DEF Bridge!Room
  <2>3. /\ Thinned(Bridge!RemoveAt(s, Bridge!OldestTerminal(s)), s)
        /\ Len(Bridge!RemoveAt(s, Bridge!OldestTerminal(s))) = Len(s) - 1
    BY <2>1, OldestIs, RemovalThins
  <2>. QED
    BY <2>2, <2>3, <1>0
<1>. QED
  BY <1>1, <1>2


(* The state of a request that is one.                                     *)
BridgeRequests ==
  [kind : {"status", "model", "search"}, turn : Turns \cup {None},
   step : {"idle", "reading", "stage", "provider", "waiting", "refused", "replied"},
   at : Nat, aborted : BOOLEAN]

(* A model request that is aborted or gone.                                *)
Drains(q) == q.kind = "model" /\ (q.aborted \/ q.step \in {"refused", "replied"})

(* What a request holds at each step: it is in activeControllers, its      *)
(* execution is live, that execution is draining.                          *)
Placed(q, held, running, drains) ==
  /\ q.at \in 1..Len(Bridge!Plan(q.kind))
  /\ q.step = "idle" => q.at = 1
  /\ q.step \in {"idle", "reading"} => ~q.aborted /\ q.turn = None /\ ~held /\ ~running
  /\ q.step = "stage" => held /\ (q.kind # "status" => ~running)
  /\ q.step = "provider" => /\ q.kind = "model" /\ q.at = 5
                            /\ ~q.aborted => held /\ running
  /\ q.step = "waiting" => q.kind = "model" /\ q.aborted
  /\ q.step \in {"refused", "replied"} /\ held => running
  /\ running => q.kind # "search"
  /\ drains => running /\ Drains(q)

(* While the bridge is open, what runs is held, and drains once its        *)
(* request is aborted or gone.                                             *)
Counted(q, held, running, drains) == running => held /\ (Drains(q) => drains)

(* The records: one per turn, of the request that reserved it; only        *)
(* tombstones expire.                                                      *)
BooksFit(books, asked) ==
  /\ books \in Seq(TurnRecords)
  /\ Len(books) <= MaxRecords
  /\ Distinct(books)
  /\ \A i \in 1..Len(books) :
       /\ books[i].by # None => books[i].turn = asked[books[i].by].turn
       /\ books[i].old => books[i].state = "terminal"

(* A model request that named its turn has its record while it works.      *)
Working(q, running) == q.kind = "model" /\ q.turn # None /\ (running \/ q.step = "stage")
(* A record of a request that still holds its turn.                        *)
RecordOf(books, r) == \E i \in 1..Len(books) : books[i].by = r /\ books[i].state # "terminal"

(* The guard and the phases.                                               *)
PhasesFit ==
  /\ bridgePhase \in {"starting", "listening", "closing", "closed", "failed"}
  /\ bridgeBoot \in Nat /\ bridgeGuard \in BOOLEAN
  /\ bridgePhase = "starting" => bridgeBoot < 12 /\ (bridgeBoot # 0 => bridgeGuard)
  /\ bridgePhase \in {"listening", "closing"} => bridgeGuard /\ bridgeBoot = 12
  /\ bridgePhase \in {"closed", "failed"} => ~bridgeGuard
  /\ bridgePhase \in {"starting", "failed"} => \A r \in Callers : bridgeRequest[r].step = "idle"
  /\ bridgePhase = "closed" => \A r \in Callers : ~Bridge!Handled(r)

(* All of it.                                                              *)
BridgeInv ==
  /\ bridgeRequest \in [Callers -> BridgeRequests]
  /\ bridgeActive \subseteq Callers /\ bridgeLive \subseteq Callers
  /\ bridgeDraining \subseteq Callers
  /\ PhasesFit
  /\ BooksFit(bridgeLedger, bridgeRequest)
  /\ \A r \in Callers :
       Placed(bridgeRequest[r], r \in bridgeActive, r \in bridgeLive, r \in bridgeDraining)
  /\ Bridge!Open => \A r \in Callers :
       /\ Counted(bridgeRequest[r], r \in bridgeActive, r \in bridgeLive, r \in bridgeDraining)
       /\ Working(bridgeRequest[r], r \in bridgeLive) => RecordOf(bridgeLedger, r)

(* Records that are rewritten in place keep their turns.                   *)
Rewritten(new, books) ==
  /\ new \in Seq(TurnRecords)
  /\ Len(new) = Len(books)
  /\ \A i \in 1..Len(books) :
       /\ new[i].turn = books[i].turn
       /\ new[i].by \in {books[i].by, None}
       /\ new[i].old => new[i].state = "terminal"

LEMMA RewrittenFit ==
  ASSUME NEW books, NEW asked, BooksFit(books, asked), NEW new, Rewritten(new, books), NEW asks,
         \A i \in 1..Len(new) : new[i].by # None => asks[new[i].by].turn = asked[new[i].by].turn
  PROVE  BooksFit(new, asks)
<1>1. Distinct(new)
  BY DEF BooksFit, Rewritten, Distinct
<1>2. ASSUME NEW i \in 1..Len(new), new[i].by # None
      PROVE  new[i].turn = asks[new[i].by].turn
  BY <1>2 DEF BooksFit, Rewritten
<1>. QED
  BY <1>1, <1>2 DEF BooksFit, Rewritten

(* A record whose request ended becomes a tombstone.                       *)
LEMMA TerminalRewrites ==
  ASSUME NEW asked, BooksFit(bridgeLedger, asked), NEW r \in Callers
  PROVE  /\ Rewritten(Bridge!Terminal(r), bridgeLedger)
         /\ \A c \in Callers \ {r} :
              RecordOf(bridgeLedger, c) => RecordOf(Bridge!Terminal(r), c)
<1> DEFINE E(i) == IF bridgeLedger[i].by = r THEN [bridgeLedger[i] EXCEPT !.state = "terminal"]
                                             ELSE bridgeLedger[i]
<1>1. /\ bridgeLedger \in Seq(TurnRecords) /\ Len(bridgeLedger) \in Nat
      /\ DOMAIN bridgeLedger = 1..Len(bridgeLedger)
      /\ \A i \in 1..Len(bridgeLedger) :
           bridgeLedger[i] \in TurnRecords
                /\ (bridgeLedger[i].old => bridgeLedger[i].state = "terminal")
  BY DEF BooksFit
<1>2. ASSUME NEW i \in 1..Len(bridgeLedger)
      PROVE  /\ E(i) \in TurnRecords
             /\ E(i).turn = bridgeLedger[i].turn /\ E(i).by = bridgeLedger[i].by
             /\ E(i).old = bridgeLedger[i].old
             /\ E(i).state = IF bridgeLedger[i].by = r THEN "terminal" ELSE bridgeLedger[i].state
  BY <1>1 DEF TurnRecords
<1>3. Bridge!Terminal(r) = [i \in 1..Len(bridgeLedger) |-> E(i)]
  BY <1>1 DEF Bridge!Terminal
<1> HIDE DEF E
<1> SUFFICES ASSUME NEW t, t = [i \in 1..Len(bridgeLedger) |-> E(i)]
             PROVE  /\ Rewritten(t, bridgeLedger)
                    /\ \A c \in Callers \ {r} : RecordOf(bridgeLedger, c) => RecordOf(t, c)
  BY <1>3
<1>4. t \in Seq(TurnRecords) /\ Len(t) = Len(bridgeLedger)
  BY <1>1, <1>2
<1>5. \A i \in 1..Len(bridgeLedger) : t[i] = E(i)
  OBVIOUS
<1>. QED
  BY <1>1, <1>2, <1>4, <1>5 DEF Rewritten, RecordOf

(* The record of an execution that begins to drain is still no tombstone.  *)
LEMMA DrainedRewrites ==
  ASSUME NEW asked, BooksFit(bridgeLedger, asked), NEW gone \in SUBSET Callers,
         \A c \in gone : asked[c].turn # None => RecordOf(bridgeLedger, c)
  PROVE  /\ Rewritten(Bridge!Drained(bridgeLedger, gone), bridgeLedger)
         /\ \A c \in Callers :
              RecordOf(bridgeLedger, c) => RecordOf(Bridge!Drained(bridgeLedger, gone), c)
<1> DEFINE E(i) == IF bridgeLedger[i].by \in gone THEN [bridgeLedger[i] EXCEPT !.state = "draining"]
                                                  ELSE bridgeLedger[i]
<1>1. /\ bridgeLedger \in Seq(TurnRecords) /\ Len(bridgeLedger) \in Nat
      /\ DOMAIN bridgeLedger = 1..Len(bridgeLedger)
      /\ Distinct(bridgeLedger)
      /\ \A i \in 1..Len(bridgeLedger) :
           /\ bridgeLedger[i] \in TurnRecords
           /\ bridgeLedger[i].old => bridgeLedger[i].state = "terminal"
           /\ bridgeLedger[i].by # None => bridgeLedger[i].turn = asked[bridgeLedger[i].by].turn
  BY DEF BooksFit
<1>2. ASSUME NEW i \in 1..Len(bridgeLedger)
      PROVE  /\ E(i) \in TurnRecords
             /\ E(i).turn = bridgeLedger[i].turn /\ E(i).by = bridgeLedger[i].by
             /\ E(i).old = bridgeLedger[i].old
             /\ E(i).state = IF bridgeLedger[i].by \in gone THEN "draining"
                    ELSE bridgeLedger[i].state
  BY <1>1 DEF TurnRecords
<1>3. ASSUME NEW i \in 1..Len(bridgeLedger), bridgeLedger[i].by \in gone
      PROVE  bridgeLedger[i].state # "terminal"
  <2> DEFINE c == bridgeLedger[i].by
  <2>1. c # None /\ bridgeLedger[i].turn # None /\ bridgeLedger[i].turn = asked[c].turn
    BY <1>1, <1>3, BridgeAssumption DEF TurnRecords
  <2>2. PICK j \in 1..Len(bridgeLedger) : bridgeLedger[j].by = c
       /\ bridgeLedger[j].state # "terminal"
    BY <2>1, <1>3 DEF RecordOf
  <2>3. bridgeLedger[j].turn = asked[c].turn
    BY <2>1, <2>2, <1>1
  <2>. QED
    BY <2>1, <2>2, <2>3, <1>1 DEF Distinct
<1>4. Bridge!Drained(bridgeLedger, gone) = [i \in 1..Len(bridgeLedger) |-> E(i)]
  BY <1>1 DEF Bridge!Drained
<1> HIDE DEF E
<1> SUFFICES ASSUME NEW t, t = [i \in 1..Len(bridgeLedger) |-> E(i)]
             PROVE  /\ Rewritten(t, bridgeLedger)
                    /\ \A c \in Callers : RecordOf(bridgeLedger, c) => RecordOf(t, c)
  BY <1>4
<1>5. t \in Seq(TurnRecords) /\ Len(t) = Len(bridgeLedger)
  BY <1>1, <1>2
<1>6. \A i \in 1..Len(bridgeLedger) : t[i] = E(i)
  OBVIOUS
<1>7. \A i \in 1..Len(bridgeLedger) : t[i].old => t[i].state = "terminal"
  BY <1>1, <1>2, <1>3, <1>6
<1>. QED
  BY <1>1, <1>2, <1>5, <1>6, <1>7 DEF Rewritten, RecordOf

(* A reserved turn is one more record, and loses tombstones only.          *)
LEMMA ReservedFits ==
  ASSUME NEW asked, BooksFit(bridgeLedger, asked), NEW r \in Callers,
         \A i \in 1..Len(bridgeLedger) : bridgeLedger[i].by # r,
         NEW turn \in Turns, ~Bridge!Known(Bridge!Fresh, turn), Bridge!HasRoom(Bridge!Fresh),
         NEW asks, asks[r].turn = turn,
         \A c \in Callers \ {r} : asks[c].turn = asked[c].turn
  PROVE  /\ BooksFit(Bridge!Reserved(r, turn), asks)
         /\ RecordOf(Bridge!Reserved(r, turn), r)
         /\ \A c \in Callers : RecordOf(bridgeLedger, c) => RecordOf(Bridge!Reserved(r, turn), c)
<1> DEFINE new == [turn |-> turn, by |-> r, state |-> "active", old |-> FALSE]
<1>1. /\ bridgeLedger \in Seq(TurnRecords) /\ Len(bridgeLedger) \in Nat
      /\ Len(bridgeLedger) <= MaxRecords /\ MaxRecords \in Nat
      /\ Distinct(bridgeLedger)
      /\ \A i \in 1..Len(bridgeLedger) :
           /\ bridgeLedger[i] \in TurnRecords
           /\ bridgeLedger[i].old => bridgeLedger[i].state = "terminal"
           /\ bridgeLedger[i].by # None => bridgeLedger[i].turn = asked[bridgeLedger[i].by].turn
  BY BridgeAssumption DEF BooksFit
<1>2. Thinned(Bridge!Fresh, bridgeLedger)
  BY <1>1, FreshThins
<1>3. Bridge!Fresh \in Seq(TurnRecords) /\ Len(Bridge!Fresh) \in Nat
                                               /\ Len(Bridge!Fresh) <= MaxRecords
  BY <1>1, <1>2 DEF Thinned
<1>4. /\ Thinned(Bridge!Room(Bridge!Fresh), Bridge!Fresh)
      /\ Len(Bridge!Room(Bridge!Fresh)) < MaxRecords
  BY <1>3, RoomThins
<1>5. Bridge!Reserved(r, turn) = Append(Bridge!Room(Bridge!Fresh), new)
  BY BridgeAssumption DEF Bridge!Reserved
<1>6. DOMAIN Bridge!Fresh = 1..Len(Bridge!Fresh)
  BY <1>3
<1>7. \A i \in 1..Len(Bridge!Fresh) : Bridge!Fresh[i].turn # turn
  BY <1>6 DEF Bridge!Known
<1> SUFFICES ASSUME NEW f, f = Bridge!Fresh, NEW t, t = Bridge!Room(Bridge!Fresh),
                    NEW u, u = Append(t, new)
             PROVE  /\ BooksFit(u, asks) /\ RecordOf(u, r)
                    /\ \A c \in Callers : RecordOf(bridgeLedger, c) => RecordOf(u, c)
  BY <1>5
<1>8. /\ Thinned(t, f) /\ Thinned(t, bridgeLedger) /\ Len(t) < MaxRecords
      /\ \A i \in 1..Len(f) : f[i].turn # turn
  BY <1>1, <1>2, <1>4, <1>7, ThinnedTwice
<1>9. /\ t \in Seq(TurnRecords) /\ Len(t) \in Nat
      /\ Distinct(t)
      /\ \A k \in 1..Len(t) : t[k].turn # turn
      /\ \A k \in 1..Len(t) : \E i \in 1..Len(bridgeLedger) : t[k] = bridgeLedger[i]
  <2>1. t \in Seq(TurnRecords) /\ Len(t) \in Nat /\ Distinct(t)
    BY <1>1, <1>8 DEF Thinned
  <2>2. \A k \in 1..Len(t) : t[k].turn # turn
    BY <1>8 DEF Thinned
  <2>3. \A k \in 1..Len(t) : \E i \in 1..Len(bridgeLedger) : t[k] = bridgeLedger[i]
    BY <1>8 DEF Thinned
  <2>. QED
    BY <2>1, <2>2, <2>3
<1>10. /\ new \in TurnRecords /\ new.turn = turn /\ new.by = r /\ new.state = "active" /\ ~new.old
  BY DEF TurnRecords
<1> HIDE DEF new
<1>11. /\ u \in Seq(TurnRecords) /\ Len(u) = Len(t) + 1 /\ u[Len(t) + 1] = new
       /\ \A k \in 1..Len(t) : u[k] = t[k]
  BY <1>9, <1>10
<1>12. \A k \in 1..Len(u) : k \in 1..Len(t) \/ k = Len(t) + 1
  BY <1>9, <1>11
<1>13. Distinct(u)
  BY <1>9, <1>10, <1>11, <1>12 DEF Distinct
<1>14. ASSUME NEW k \in 1..Len(u)
       PROVE  /\ u[k].by # None => u[k].turn = asks[u[k].by].turn
              /\ u[k].old => u[k].state = "terminal"
  <2>1. CASE k \in 1..Len(t)
    <3>1. PICK i \in 1..Len(bridgeLedger) : u[k] = bridgeLedger[i]
      BY <2>1, <1>9, <1>11
    <3>2. bridgeLedger[i].by # r /\ bridgeLedger[i].by \in Callers \cup {None}
      BY <1>1 DEF TurnRecords
    <3>. QED
      BY <3>1, <3>2, <1>1
  <2>2. CASE k = Len(t) + 1
    BY <2>2, <1>10, <1>11
  <2>. QED
    BY <2>1, <2>2, <1>12
<1>15. RecordOf(u, r)
  <2>1. Len(t) + 1 \in 1..Len(u) /\ "active" # "terminal"
    BY <1>9, <1>11
  <2>. QED
    BY <2>1, <1>10, <1>11 DEF RecordOf
<1>16. ASSUME NEW c \in Callers, RecordOf(bridgeLedger, c)
       PROVE  RecordOf(u, c)
  <2>1. PICK i \in 1..Len(bridgeLedger) : bridgeLedger[i].by = c
       /\ bridgeLedger[i].state # "terminal"
    BY <1>16 DEF RecordOf
  <2>2. PICK k \in 1..Len(t) : t[k] = bridgeLedger[i]
    BY <2>1, <1>8 DEF Thinned
  <2>3. k \in 1..Len(u) /\ u[k] = t[k]
    BY <1>9, <1>11
  <2>. QED
    BY <2>1, <2>2, <2>3 DEF RecordOf
<1>17. Len(u) <= MaxRecords
  BY <1>1, <1>8, <1>9, <1>11
<1>. QED
  BY <1>11, <1>13, <1>14, <1>15, <1>16, <1>17 DEF BooksFit

(* A step of one request, to this state of it.                             *)
LEMMA BridgeGoes ==
  ASSUME BridgeInv, NEW r \in Callers, NEW q \in BridgeRequests,
         bridgeRequest' = [bridgeRequest EXCEPT ![r] = q],
         bridgeActive' \subseteq Callers, bridgeLive' \subseteq Callers,
         bridgeDraining' \subseteq Callers,
         \A c \in Callers \ {r} : /\ c \in bridgeActive' <=> c \in bridgeActive
                                  /\ c \in bridgeLive' <=> c \in bridgeLive
                                  /\ c \in bridgeDraining' <=> c \in bridgeDraining,
         Placed(q, r \in bridgeActive', r \in bridgeLive', r \in bridgeDraining'),
         Bridge!Open => Counted(q, r \in bridgeActive', r \in bridgeLive', r \in bridgeDraining'),
         UNCHANGED <<bridgePhase, bridgeBoot, bridgeGuard>>,
         bridgePhase \in {"starting", "failed"} => q.step = "idle",
         bridgePhase = "closed" => q.step \in {"idle", "refused", "replied"},
         BooksFit(bridgeLedger', bridgeRequest'),
         Bridge!Open => (Working(q, r \in bridgeLive') => RecordOf(bridgeLedger', r)),
         \A c \in Callers \ {r} : RecordOf(bridgeLedger, c) => RecordOf(bridgeLedger', c)
  PROVE  BridgeInv'
<1>1. /\ bridgeRequest \in [Callers -> BridgeRequests] /\ PhasesFit
      /\ \A c \in Callers :
           Placed(bridgeRequest[c], c \in bridgeActive, c \in bridgeLive, c \in bridgeDraining)
      /\ Bridge!Open => \A c \in Callers :
           /\ Counted(bridgeRequest[c], c \in bridgeActive, c \in bridgeLive, c \in bridgeDraining)
           /\ Working(bridgeRequest[c], c \in bridgeLive) => RecordOf(bridgeLedger, c)
  BY DEF BridgeInv
<1>2. /\ bridgeRequest' \in [Callers -> BridgeRequests]
      /\ bridgeRequest'[r] = q
      /\ \A c \in Callers \ {r} : bridgeRequest'[c] = bridgeRequest[c]
  BY <1>1
<1>3. ASSUME NEW c \in Callers
      PROVE  Placed(bridgeRequest[c], c \in bridgeActive, c \in bridgeLive, c \in bridgeDraining)'
  <2>1. Placed(bridgeRequest'[c], c \in bridgeActive', c \in bridgeLive', c \in bridgeDraining')
    <3>1. CASE c = r
      BY <3>1, <1>2
    <3>2. CASE c # r
      BY <3>2, <1>1, <1>2 DEF Placed
    <3>. QED
      BY <3>1, <3>2
  <2>. QED
    BY <2>1 DEF Placed
<1>4. Bridge!Open' <=> Bridge!Open
  BY DEF Bridge!Open
<1>5. ASSUME Bridge!Open', NEW c \in Callers
      PROVE  /\ Counted(bridgeRequest[c], c \in bridgeActive, c \in bridgeLive,
                    c \in bridgeDraining)'
             /\ (Working(bridgeRequest[c], c \in bridgeLive) => RecordOf(bridgeLedger, c))'
  <2>1. /\ Counted(bridgeRequest'[c], c \in bridgeActive', c \in bridgeLive', c \in bridgeDraining')
        /\ Working(bridgeRequest'[c], c \in bridgeLive') => RecordOf(bridgeLedger', c)
    <3>1. CASE c = r
      BY <3>1, <1>2, <1>4, <1>5
    <3>2. CASE c # r
      <4>1. bridgeRequest'[c] = bridgeRequest[c] /\ c \in Callers \ {r}
        BY <3>2, <1>2
      <4>2. /\ Counted(bridgeRequest[c], c \in bridgeActive, c \in bridgeLive, c \in bridgeDraining)
            /\ Working(bridgeRequest[c], c \in bridgeLive) => RecordOf(bridgeLedger, c)
        BY <1>1, <1>4, <1>5
      <4>3. RecordOf(bridgeLedger, c) => RecordOf(bridgeLedger', c)
        BY <4>1
      <4>4. Counted(bridgeRequest'[c], c \in bridgeActive', c \in bridgeLive',
           c \in bridgeDraining')
        BY <4>1, <4>2 DEF Counted
      <4>5. Working(bridgeRequest'[c],
           c \in bridgeLive') <=> Working(bridgeRequest[c], c \in bridgeLive)
        BY <4>1 DEF Working
      <4>. QED
        BY <4>2, <4>3, <4>4, <4>5
    <3>. QED
      BY <3>1, <3>2
  <2>. QED
    BY <2>1 DEF Counted, Working, RecordOf
<1>6. PhasesFit'
  <2>1. ASSUME NEW c \in Callers
        PROVE  /\ bridgePhase \in {"starting", "failed"} => bridgeRequest'[c].step = "idle"
               /\ bridgePhase = "closed" => bridgeRequest'[c].step \in {"idle",
                      "refused", "replied"}
    BY <1>1, <1>2 DEF PhasesFit, Bridge!Handled, Bridge!Ended
  <2>. QED
    BY <2>1, <1>1 DEF PhasesFit, Bridge!Handled, Bridge!Ended
<1>7. BooksFit(bridgeLedger, bridgeRequest)'
  BY DEF BooksFit, Distinct
<1>. QED
  BY <1>2, <1>3, <1>5, <1>6, <1>7 DEF BridgeInv

(* What the invariant says of one request, and of the phase it is served in. *)
LEMMA RequestNow ==
  ASSUME BridgeInv, NEW r \in Callers
  PROVE  /\ bridgeRequest[r] \in BridgeRequests
         /\ bridgeRequest \in [Callers -> BridgeRequests]
         /\ bridgeActive \subseteq Callers /\ bridgeLive \subseteq Callers
         /\ bridgeDraining \subseteq Callers
         /\ BooksFit(bridgeLedger, bridgeRequest)
         /\ Placed(bridgeRequest[r], r \in bridgeActive, r \in bridgeLive, r \in bridgeDraining)
         /\ Bridge!Open =>
              /\ Counted(bridgeRequest[r], r \in bridgeActive, r \in bridgeLive,
                     r \in bridgeDraining)
              /\ Working(bridgeRequest[r], r \in bridgeLive) => RecordOf(bridgeLedger, r)
         /\ Bridge!Handled(r) <=> bridgeRequest[r].step \in {"reading", "stage",
                "provider", "waiting"}
         /\ Bridge!Handled(r) => bridgePhase \in {"listening", "closing"} /\ Bridge!Open
BY DEF BridgeInv, PhasesFit, BridgeRequests, Bridge!Handled, Bridge!Ended, Bridge!Open

(* The records are records, one per turn.                                  *)
LEMMA RecordsTyped ==
  ASSUME NEW s \in Seq(TurnRecords), NEW i \in 1..Len(s)
  PROVE  /\ s[i] \in TurnRecords
         /\ s[i].by \in Callers \cup {None} /\ s[i].turn \in Turns /\ s[i].turn # None
<1>1. s[i] \in TurnRecords
  OBVIOUS
<1>. QED
  BY <1>1, BridgeAssumption DEF TurnRecords

(* It leaves the records alone.                                            *)
LEMMA BridgeStays ==
  ASSUME BridgeInv, NEW r \in Callers, NEW q \in BridgeRequests,
         bridgeRequest' = [bridgeRequest EXCEPT ![r] = q],
         q.turn = bridgeRequest[r].turn,
         Working(q, r \in bridgeLive') => Working(bridgeRequest[r], r \in bridgeLive),
         bridgeActive' \subseteq Callers, bridgeLive' \subseteq Callers,
         bridgeDraining' \subseteq Callers,
         \A c \in Callers \ {r} : /\ c \in bridgeActive' <=> c \in bridgeActive
                                  /\ c \in bridgeLive' <=> c \in bridgeLive
                                  /\ c \in bridgeDraining' <=> c \in bridgeDraining,
         Placed(q, r \in bridgeActive', r \in bridgeLive', r \in bridgeDraining'),
         Bridge!Open => Counted(q, r \in bridgeActive', r \in bridgeLive', r \in bridgeDraining'),
         UNCHANGED <<bridgePhase, bridgeBoot, bridgeGuard, bridgeLedger>>,
         bridgePhase \in {"starting", "failed"} => q.step = "idle",
         bridgePhase = "closed" => q.step \in {"idle", "refused", "replied"}
  PROVE  BridgeInv'
<1>1. \A c \in Callers : bridgeRequest'[c].turn = bridgeRequest[c].turn
  BY RequestNow
<1>2. BooksFit(bridgeLedger, bridgeRequest)
  BY RequestNow
<1>3. \A i \in 1..Len(bridgeLedger) : bridgeLedger[i].by \in Callers \cup {None}
  BY <1>2, RecordsTyped DEF BooksFit
<1>4. BooksFit(bridgeLedger', bridgeRequest')
  BY <1>1, <1>2, <1>3 DEF BooksFit
<1>5. Bridge!Open => (Working(q, r \in bridgeLive') => RecordOf(bridgeLedger', r))
  BY RequestNow
<1>. QED
  BY <1>4, <1>5, BridgeGoes

(* A handler without a live execution leaves.                              *)
LEMMA BridgeLeaves ==
  ASSUME BridgeInv, NEW r \in Callers, Bridge!Handled(r), r \notin bridgeLive,
         NEW step \in {"refused", "replied"}, Bridge!Leave(r, step),
         UNCHANGED <<bridgePhase, bridgeBoot, bridgeGuard, bridgeLive, bridgeDraining>>
  PROVE  BridgeInv'
<1> DEFINE q == [bridgeRequest[r] EXCEPT !.step = step]
<1>1. /\ bridgeRequest' = [bridgeRequest EXCEPT ![r].step = step]
      /\ bridgeActive' = bridgeActive \ {r}
      /\ bridgeLedger' = Bridge!Terminal(r)
  BY DEF Bridge!Leave
<1>2. /\ bridgeRequest[r] \in BridgeRequests /\ bridgeRequest \in [Callers -> BridgeRequests]
      /\ bridgeActive \subseteq Callers /\ bridgeLive \subseteq Callers
      /\ bridgeDraining \subseteq Callers
      /\ BooksFit(bridgeLedger, bridgeRequest)
      /\ Placed(bridgeRequest[r], r \in bridgeActive, r \in bridgeLive, r \in bridgeDraining)
      /\ bridgePhase \in {"listening", "closing"}
  BY RequestNow
<1>3. /\ bridgeRequest' = [bridgeRequest EXCEPT ![r] = q]
      /\ q \in BridgeRequests
      /\ q.step = step /\ q.kind = bridgeRequest[r].kind /\ q.at = bridgeRequest[r].at
      /\ q.turn = bridgeRequest[r].turn
  BY <1>1, <1>2 DEF BridgeRequests
<1> HIDE DEF q
<1>4. /\ Placed(q, r \in bridgeActive', r \in bridgeLive', r \in bridgeDraining')
      /\ Counted(q, r \in bridgeActive', r \in bridgeLive', r \in bridgeDraining')
      /\ ~Working(q, r \in bridgeLive')
  BY <1>1, <1>2, <1>3 DEF Placed, Counted, Drains, Working
<1>5. /\ Rewritten(bridgeLedger', bridgeLedger)
      /\ \A c \in Callers \ {r} : RecordOf(bridgeLedger, c) => RecordOf(bridgeLedger', c)
  BY <1>1, <1>2, TerminalRewrites
<1>6. BooksFit(bridgeLedger', bridgeRequest')
  <2>1. \A c \in Callers : bridgeRequest'[c].turn = bridgeRequest[c].turn
    BY <1>2, <1>3
  <2>2. \A i \in 1..Len(bridgeLedger') : bridgeLedger'[i].by \in Callers \cup {None}
    BY <1>5, RecordsTyped DEF Rewritten
  <2>. QED
    BY <2>1, <2>2, <1>2, <1>5, RewrittenFit
<1>7. /\ bridgeActive' \subseteq Callers /\ bridgeLive' \subseteq Callers
      /\ bridgeDraining' \subseteq Callers
      /\ \A c \in Callers \ {r} : /\ c \in bridgeActive' <=> c \in bridgeActive
                                  /\ c \in bridgeLive' <=> c \in bridgeLive
                                  /\ c \in bridgeDraining' <=> c \in bridgeDraining
  BY <1>1, <1>2
<1>. QED
  BY <1>2, <1>3, <1>4, <1>5, <1>6, <1>7, BridgeGoes

(* One lemma for each step of a request.                                   *)
LEMMA EnterKeeps ==
  ASSUME BridgeInv, NEW r \in Callers, Bridge!Enter(r)
  PROVE  BridgeInv'
<1>1. PICK kind \in Kinds :
        /\ bridgeRequest' = [bridgeRequest EXCEPT
             ![r].kind = kind, ![r].step = IF kind = "status" THEN "stage" ELSE "reading"]
        /\ bridgeActive' = IF kind = "status" THEN bridgeActive \cup {r} ELSE bridgeActive
  BY DEF Bridge!Enter
<1>2. /\ bridgePhase = "listening" /\ bridgeRequest[r].step = "idle"
      /\ UNCHANGED <<bridgePhase, bridgeBoot, bridgeGuard, bridgeLive,
             bridgeDraining, bridgeLedger>>
  BY DEF Bridge!Enter
<1>3. kind \in {"status", "model", "search"}
  BY <1>1, BridgeAssumption
<1> DEFINE step == IF kind = "status" THEN "stage" ELSE "reading"
           q == [bridgeRequest[r] EXCEPT !.kind = kind, !.step = step]
<1>4. /\ bridgeRequest' = [bridgeRequest EXCEPT ![r] = q]
      /\ q \in BridgeRequests
      /\ q.step = step /\ q.kind = kind /\ q.at = bridgeRequest[r].at
      /\ q.turn = bridgeRequest[r].turn /\ q.aborted = bridgeRequest[r].aborted
  BY <1>1, <1>3, RequestNow DEF BridgeRequests
<1> HIDE DEF q
<1>5. /\ ~q.aborted /\ q.turn = None /\ q.at = 1
      /\ r \notin bridgeActive /\ r \notin bridgeLive /\ r \notin bridgeDraining
  BY <1>2, <1>4, RequestNow DEF Placed, Drains
<1>6. /\ Placed(q, r \in bridgeActive', r \in bridgeLive', r \in bridgeDraining')
      /\ Counted(q, r \in bridgeActive', r \in bridgeLive', r \in bridgeDraining')
      /\ ~Working(q, r \in bridgeLive')
  <2>1. q.at \in 1..Len(Bridge!Plan(q.kind))
    BY <1>3, <1>4, <1>5, PlansAre
  <2>2. r \in bridgeActive' <=> kind = "status"
    BY <1>1, <1>5
  <2>3. r \notin bridgeLive' /\ r \notin bridgeDraining'
    BY <1>2, <1>5
  <2>. QED
    BY <1>3, <1>4, <1>5, <2>1, <2>2, <2>3 DEF Placed, Counted, Drains, Working
<1>7. /\ bridgeActive' \subseteq Callers /\ bridgeLive' \subseteq Callers
      /\ bridgeDraining' \subseteq Callers
      /\ \A c \in Callers \ {r} : /\ c \in bridgeActive' <=> c \in bridgeActive
                                  /\ c \in bridgeLive' <=> c \in bridgeLive
                                  /\ c \in bridgeDraining' <=> c \in bridgeDraining
  BY <1>1, <1>2, RequestNow
<1>. QED
  BY <1>2, <1>4, <1>6, <1>7, BridgeStays

LEMMA ReadModelKeeps ==
  ASSUME BridgeInv, NEW r \in Callers, NEW turn \in Turns \cup {None}, Bridge!ReadModel(r, turn)
  PROVE  BridgeInv'
<1>1. /\ bridgeRequest[r].step = "reading" /\ bridgeRequest[r].kind = "model"
      /\ UNCHANGED <<bridgePhase, bridgeBoot, bridgeGuard, bridgeLive, bridgeDraining>>
  BY DEF Bridge!ReadModel
<1>2. /\ bridgePhase \in {"listening", "closing"}
      /\ bridgeRequest[r] \in BridgeRequests /\ bridgeRequest \in [Callers -> BridgeRequests]
      /\ bridgeActive \subseteq Callers /\ bridgeLive \subseteq Callers
      /\ bridgeDraining \subseteq Callers
      /\ BooksFit(bridgeLedger, bridgeRequest)
      /\ ~bridgeRequest[r].aborted /\ bridgeRequest[r].turn = None
      /\ r \notin bridgeActive /\ r \notin bridgeLive /\ r \notin bridgeDraining
      /\ bridgeRequest[r].at \in 1..Len(Bridge!Plan("model"))
  BY <1>1, RequestNow DEF Placed, Drains
<1>3. CASE ~Bridge!Admits(turn)
  <2> DEFINE q == [bridgeRequest[r] EXCEPT !.step = "refused"]
  <2>1. /\ bridgeRequest' = [bridgeRequest EXCEPT ![r] = q]
        /\ UNCHANGED <<bridgeActive, bridgeLedger>>
    BY <1>3 DEF Bridge!ReadModel
  <2>2. /\ q \in BridgeRequests /\ q.step = "refused" /\ q.kind = "model"
        /\ q.at = bridgeRequest[r].at /\ q.turn = None
    BY <1>1, <1>2 DEF BridgeRequests
  <2> HIDE DEF q
  <2>3. /\ Placed(q, r \in bridgeActive', r \in bridgeLive', r \in bridgeDraining')
        /\ Counted(q, r \in bridgeActive', r \in bridgeLive', r \in bridgeDraining')
        /\ ~Working(q, r \in bridgeLive')
    BY <1>1, <1>2, <2>1, <2>2 DEF Placed, Counted, Drains, Working
  <2>. QED
    BY <1>1, <1>2, <2>1, <2>2, <2>3, BridgeStays
<1>4. CASE Bridge!Admits(turn)
  <2> DEFINE q == [bridgeRequest[r] EXCEPT !.step = "stage", !.turn = turn]
  <2>1. /\ bridgeRequest' = [bridgeRequest EXCEPT ![r] = q]
        /\ bridgeActive' = bridgeActive \cup {r}
        /\ bridgeLedger' = Bridge!Reserved(r, turn)
    BY <1>2, <1>4 DEF Bridge!ReadModel
  <2>2. /\ q \in BridgeRequests /\ q.step = "stage" /\ q.kind = "model"
        /\ q.at = bridgeRequest[r].at /\ q.turn = turn
    BY <1>1, <1>2 DEF BridgeRequests
  <2> HIDE DEF q
  <2>3. /\ Placed(q, r \in bridgeActive', r \in bridgeLive', r \in bridgeDraining')
        /\ Counted(q, r \in bridgeActive', r \in bridgeLive', r \in bridgeDraining')
    BY <1>1, <1>2, <2>1, <2>2 DEF Placed, Counted, Drains
  <2>4. /\ bridgeActive' \subseteq Callers /\ bridgeLive' \subseteq Callers
        /\ bridgeDraining' \subseteq Callers
        /\ \A c \in Callers \ {r} : /\ c \in bridgeActive' <=> c \in bridgeActive
                                    /\ c \in bridgeLive' <=> c \in bridgeLive
                                    /\ c \in bridgeDraining' <=> c \in bridgeDraining
    BY <1>1, <1>2, <2>1
  <2>5. CASE turn = None
    <3>1. bridgeLedger' = bridgeLedger /\ ~Working(q, r \in bridgeLive')
      BY <2>1, <2>2, <2>5 DEF Bridge!Reserved, Working
    <3>. QED
      BY <1>1, <1>2, <2>1, <2>2, <2>3, <2>4, <2>5, <3>1, BridgeStays
  <2>6. CASE turn # None
    <3>1. turn \in Turns /\ ~Bridge!Known(Bridge!Fresh, turn) /\ Bridge!HasRoom(Bridge!Fresh)
      BY <2>6, <1>4 DEF Bridge!Admits
    <3>2. \A i \in 1..Len(bridgeLedger) : bridgeLedger[i].by # r
      <4>1. ASSUME NEW i \in 1..Len(bridgeLedger), bridgeLedger[i].by = r
            PROVE  FALSE
        <5>1. bridgeLedger \in Seq(TurnRecords) /\ r # None
          BY <1>2, BridgeAssumption DEF BooksFit
        <5>2. bridgeLedger[i].turn # None
          BY <5>1, RecordsTyped
        <5>. QED
          BY <4>1, <5>1, <5>2, <1>2 DEF BooksFit
      <4>. QED
        BY <4>1
    <3>3. bridgeRequest'[r].turn = turn
          /\ \A c \in Callers \ {r} : bridgeRequest'[c].turn = bridgeRequest[c].turn
      BY <1>2, <2>1, <2>2
    <3>4. /\ BooksFit(bridgeLedger', bridgeRequest')
          /\ RecordOf(bridgeLedger', r)
          /\ \A c \in Callers : RecordOf(bridgeLedger, c) => RecordOf(bridgeLedger', c)
      BY <1>2, <2>1, <3>1, <3>2, <3>3, ReservedFits
    <3>. QED
      BY <1>1, <1>2, <2>1, <2>2, <2>3, <2>4, <3>4, BridgeGoes
  <2>. QED
    BY <2>5, <2>6
<1>. QED
  BY <1>3, <1>4

LEMMA ReadFailsKeeps ==
  ASSUME BridgeInv, NEW r \in Callers, Bridge!ReadFails(r)
  PROVE  BridgeInv'
<1> DEFINE q == [bridgeRequest[r] EXCEPT !.step = "refused"]
<1>1. /\ bridgeRequest[r].step = "reading"
      /\ bridgeRequest' = [bridgeRequest EXCEPT ![r] = q]
      /\ UNCHANGED <<bridgePhase, bridgeBoot, bridgeGuard, bridgeActive, bridgeLive,
                     bridgeDraining, bridgeLedger>>
  BY DEF Bridge!ReadFails
<1>2. /\ bridgePhase \in {"listening", "closing"}
      /\ ~bridgeRequest[r].aborted /\ bridgeRequest[r].turn = None
      /\ r \notin bridgeActive /\ r \notin bridgeLive /\ r \notin bridgeDraining
      /\ bridgeRequest[r].at \in 1..Len(Bridge!Plan(bridgeRequest[r].kind))
  BY <1>1, RequestNow DEF Placed, Drains
<1>3. /\ q \in BridgeRequests /\ q.step = "refused" /\ q.kind = bridgeRequest[r].kind
      /\ q.at = bridgeRequest[r].at /\ q.turn = None
  BY <1>2, RequestNow DEF BridgeRequests
<1> HIDE DEF q
<1>4. /\ Placed(q, r \in bridgeActive', r \in bridgeLive', r \in bridgeDraining')
      /\ Counted(q, r \in bridgeActive', r \in bridgeLive', r \in bridgeDraining')
      /\ ~Working(q, r \in bridgeLive')
  BY <1>1, <1>2, <1>3 DEF Placed, Counted, Drains, Working
<1>. QED
  BY <1>1, <1>2, <1>3, <1>4, RequestNow, BridgeStays

LEMMA ReadSearchKeeps ==
  ASSUME BridgeInv, NEW r \in Callers, Bridge!ReadSearch(r)
  PROVE  BridgeInv'
<1> DEFINE q == [bridgeRequest[r] EXCEPT !.step = "stage"]
<1>1. /\ bridgeRequest[r].step = "reading" /\ bridgeRequest[r].kind = "search"
      /\ bridgeRequest' = [bridgeRequest EXCEPT ![r] = q]
      /\ bridgeActive' = bridgeActive \cup {r}
      /\ UNCHANGED <<bridgePhase, bridgeBoot, bridgeGuard, bridgeLive,
             bridgeDraining, bridgeLedger>>
  BY DEF Bridge!ReadSearch
<1>2. /\ bridgePhase \in {"listening", "closing"}
      /\ ~bridgeRequest[r].aborted /\ bridgeRequest[r].turn = None
      /\ r \notin bridgeActive /\ r \notin bridgeLive /\ r \notin bridgeDraining
      /\ bridgeRequest[r].at \in 1..Len(Bridge!Plan("search"))
  BY <1>1, RequestNow DEF Placed, Drains
<1>3. /\ q \in BridgeRequests /\ q.step = "stage" /\ q.kind = "search"
      /\ q.at = bridgeRequest[r].at /\ q.turn = None
  BY <1>1, <1>2, RequestNow DEF BridgeRequests
<1> HIDE DEF q
<1>4. /\ Placed(q, r \in bridgeActive', r \in bridgeLive', r \in bridgeDraining')
      /\ Counted(q, r \in bridgeActive', r \in bridgeLive', r \in bridgeDraining')
      /\ ~Working(q, r \in bridgeLive')
  BY <1>1, <1>2, <1>3 DEF Placed, Counted, Drains, Working
<1>5. /\ bridgeActive' \subseteq Callers
      /\ \A c \in Callers \ {r} : c \in bridgeActive' <=> c \in bridgeActive
  BY <1>1, RequestNow
<1>. QED
  BY <1>1, <1>2, <1>3, <1>4, <1>5, RequestNow, BridgeStays

(* A stage succeeds, fails, is refused, or is left by its aborted handler. *)
LEMMA StageKeeps ==
  ASSUME BridgeInv, NEW r \in Callers, Bridge!Stage(r) \/ Bridge!StageFails(r)
  PROVE  BridgeInv'
<1>1. /\ bridgeRequest[r].step = "stage" /\ r \notin bridgeLive
      /\ UNCHANGED <<bridgePhase, bridgeBoot, bridgeGuard, bridgeLive, bridgeDraining>>
  BY DEF Bridge!Stage, Bridge!StageFails
<1>2. /\ Bridge!Handled(r) /\ bridgePhase \in {"listening", "closing"} /\ r \in bridgeActive
      /\ bridgeRequest[r] \in BridgeRequests
      /\ bridgeRequest[r].at \in 1..Len(Bridge!Plan(bridgeRequest[r].kind))
      /\ r \notin bridgeDraining
  BY <1>1, RequestNow DEF Placed, Drains
<1>3. CASE \E step \in {"refused", "replied"} : Bridge!Leave(r, step)
  BY <1>1, <1>2, <1>3, BridgeLeaves
<1>4. CASE /\ bridgeRequest[r].at < Len(Bridge!Plan(bridgeRequest[r].kind))
           /\ bridgeRequest' = [bridgeRequest EXCEPT ![r].at = @ + 1]
           /\ UNCHANGED <<bridgeActive, bridgeLedger>>
  <2> DEFINE q == [bridgeRequest[r] EXCEPT !.at = @ + 1]
  <2>1. /\ bridgeRequest' = [bridgeRequest EXCEPT ![r] = q]
        /\ q \in BridgeRequests /\ q.step = "stage" /\ q.kind = bridgeRequest[r].kind
        /\ q.at = bridgeRequest[r].at + 1 /\ q.turn = bridgeRequest[r].turn
    BY <1>1, <1>2, <1>4, RequestNow DEF BridgeRequests
  <2> HIDE DEF q
  <2>2. q.at \in 1..Len(Bridge!Plan(q.kind))
    <3>1. bridgeRequest[r].kind \in {"status", "model", "search"}
      BY <1>2 DEF BridgeRequests
    <3>2. Len(Bridge!Plan(q.kind)) \in Nat
      BY <2>1, <3>1, PlansAre
    <3>. QED
      BY <1>2, <1>4, <2>1, <3>2
  <2>3. /\ Placed(q, r \in bridgeActive', r \in bridgeLive', r \in bridgeDraining')
        /\ Counted(q, r \in bridgeActive', r \in bridgeLive', r \in bridgeDraining')
        /\ Working(q, r \in bridgeLive') => Working(bridgeRequest[r], r \in bridgeLive)
    BY <1>1, <1>2, <1>4, <2>1, <2>2 DEF Placed, Counted, Drains, Working
  <2>. QED
    BY <1>1, <1>2, <1>4, <2>1, <2>3, RequestNow, BridgeStays
<1>. QED
  BY <1>3, <1>4 DEF Bridge!Stage, Bridge!StageFails

LEMMA DetachKeeps ==
  ASSUME BridgeInv, NEW r \in Callers, Bridge!Detach(r)
  PROVE  BridgeInv'
<1> DEFINE q == bridgeRequest[r]
<1>1. /\ q.kind = "status" /\ q.step = "stage" /\ ~q.aborted
      /\ bridgeLive' = bridgeLive \cup {r}
      /\ UNCHANGED <<bridgePhase, bridgeBoot, bridgeGuard, bridgeRequest, bridgeActive,
                     bridgeDraining, bridgeLedger>>
  BY DEF Bridge!Detach
<1>2. /\ bridgePhase \in {"listening", "closing"} /\ r \in bridgeActive
      /\ q \in BridgeRequests /\ q.at \in 1..Len(Bridge!Plan(q.kind))
      /\ r \notin bridgeDraining
      /\ bridgeRequest' = [bridgeRequest EXCEPT ![r] = q]
  BY <1>1, RequestNow DEF Placed, Drains
<1>3. /\ Placed(q, r \in bridgeActive', r \in bridgeLive', r \in bridgeDraining')
      /\ Counted(q, r \in bridgeActive', r \in bridgeLive', r \in bridgeDraining')
      /\ ~Working(q, r \in bridgeLive')
  BY <1>1, <1>2 DEF Placed, Counted, Drains, Working
<1>4. /\ bridgeLive' \subseteq Callers
      /\ \A c \in Callers \ {r} : c \in bridgeLive' <=> c \in bridgeLive
  BY <1>1, RequestNow
<1>5. q.turn = bridgeRequest[r].turn
  OBVIOUS
<1> HIDE DEF q
<1>. QED
  BY <1>1, <1>2, <1>3, <1>4, <1>5, RequestNow, BridgeStays

LEMMA DispatchKeeps ==
  ASSUME BridgeInv, NEW r \in Callers, Bridge!Dispatch(r)
  PROVE  BridgeInv'
<1>1. /\ bridgeRequest[r].step = "stage" /\ Bridge!At(r).act = "run" /\ ~bridgeRequest[r].aborted
      /\ UNCHANGED <<bridgePhase, bridgeBoot, bridgeGuard, bridgeDraining>>
  BY DEF Bridge!Dispatch
<1>2. /\ Bridge!Handled(r) /\ bridgePhase \in {"listening", "closing"} /\ r \in bridgeActive
      /\ bridgeRequest[r] \in BridgeRequests
      /\ bridgeRequest[r].at \in 1..Len(Bridge!Plan(bridgeRequest[r].kind))
      /\ bridgeRequest[r].kind # "status" => r \notin bridgeLive
      /\ r \in bridgeDraining => r \in bridgeLive
  BY <1>1, RequestNow DEF Placed, Drains
<1>3. bridgeRequest[r].kind = "model" /\ bridgeRequest[r].at = 5
  BY <1>1, <1>2, PlansAre DEF Bridge!At, BridgeRequests
<1>4. r \notin bridgeLive /\ r \notin bridgeDraining
  BY <1>2, <1>3
<1>5. CASE bridgeDraining # {}
  <2>1. Bridge!Leave(r, "refused") /\ bridgeLive' = bridgeLive
    BY <1>5 DEF Bridge!Dispatch
  <2>. QED
    BY <1>1, <1>2, <1>4, <2>1, BridgeLeaves
<1>6. CASE bridgeDraining = {}
  <2> DEFINE q == [bridgeRequest[r] EXCEPT !.step = "provider"]
  <2>1. /\ bridgeRequest' = [bridgeRequest EXCEPT ![r] = q]
        /\ bridgeLive' = bridgeLive \cup {r}
        /\ UNCHANGED <<bridgeActive, bridgeLedger>>
    BY <1>6 DEF Bridge!Dispatch
  <2>2. /\ q \in BridgeRequests /\ q.step = "provider" /\ q.kind = "model" /\ q.at = 5
        /\ q.turn = bridgeRequest[r].turn /\ ~q.aborted
    BY <1>1, <1>2, <1>3 DEF BridgeRequests
  <2> HIDE DEF q
  <2>3. /\ Placed(q, r \in bridgeActive', r \in bridgeLive', r \in bridgeDraining')
        /\ Counted(q, r \in bridgeActive', r \in bridgeLive', r \in bridgeDraining')
        /\ Working(q, r \in bridgeLive') => Working(bridgeRequest[r], r \in bridgeLive)
    BY <1>1, <1>2, <1>3, <1>4, <2>1, <2>2 DEF Placed, Counted, Drains, Working
  <2>4. /\ bridgeLive' \subseteq Callers
        /\ \A c \in Callers \ {r} : c \in bridgeLive' <=> c \in bridgeLive
    BY <2>1, RequestNow
  <2>. QED
    BY <1>1, <1>2, <2>1, <2>2, <2>3, <2>4, RequestNow, BridgeStays
<1>. QED
  BY <1>5, <1>6

LEMMA CancelledKeeps ==
  ASSUME BridgeInv, NEW r \in Callers, Bridge!Cancelled(r)
  PROVE  BridgeInv'
<1>1. /\ bridgeRequest[r].step = "stage" /\ bridgeRequest[r].aborted
      /\ UNCHANGED <<bridgePhase, bridgeBoot, bridgeGuard, bridgeLive, bridgeDraining>>
  BY DEF Bridge!Cancelled
<1>2. /\ Bridge!Handled(r) /\ bridgePhase \in {"listening", "closing"} /\ r \in bridgeActive
      /\ bridgeRequest[r] \in BridgeRequests
      /\ bridgeRequest[r].at \in 1..Len(Bridge!Plan(bridgeRequest[r].kind))
      /\ r \in bridgeLive => bridgeRequest[r].kind = "status"
      /\ r \notin bridgeDraining
  BY <1>1, RequestNow DEF Placed, Drains
<1>3. CASE r \notin bridgeLive
  BY <1>1, <1>2, <1>3, BridgeLeaves DEF Bridge!Cancelled
<1>4. CASE r \in bridgeLive
  <2> DEFINE q == [bridgeRequest[r] EXCEPT !.step = "refused"]
  <2>1. /\ bridgeRequest' = [bridgeRequest EXCEPT ![r] = q]
        /\ UNCHANGED <<bridgeActive, bridgeLedger>>
    BY <1>4 DEF Bridge!Cancelled
  <2>2. /\ q \in BridgeRequests /\ q.step = "refused" /\ q.kind = "status"
        /\ q.at = bridgeRequest[r].at /\ q.turn = bridgeRequest[r].turn
    BY <1>2, <1>4 DEF BridgeRequests
  <2> HIDE DEF q
  <2>3. /\ Placed(q, r \in bridgeActive', r \in bridgeLive', r \in bridgeDraining')
        /\ Counted(q, r \in bridgeActive', r \in bridgeLive', r \in bridgeDraining')
        /\ ~Working(q, r \in bridgeLive')
    BY <1>1, <1>2, <1>4, <2>1, <2>2 DEF Placed, Counted, Drains, Working
  <2>. QED
    BY <1>1, <1>2, <2>1, <2>2, <2>3, RequestNow, BridgeStays
<1>. QED
  BY <1>3, <1>4

LEMMA DrainWaitKeeps ==
  ASSUME BridgeInv, NEW r \in Callers, Bridge!DrainWait(r)
  PROVE  BridgeInv'
<1> DEFINE q == [bridgeRequest[r] EXCEPT !.step = "waiting"]
<1>1. /\ bridgeRequest[r].step = "provider" /\ bridgeRequest[r].aborted
      /\ bridgeRequest' = [bridgeRequest EXCEPT ![r] = q]
      /\ UNCHANGED <<bridgePhase, bridgeBoot, bridgeGuard, bridgeActive, bridgeLive,
                     bridgeDraining, bridgeLedger>>
  BY DEF Bridge!DrainWait
<1>2. /\ bridgePhase \in {"listening", "closing"} /\ bridgeRequest[r].kind = "model"
      /\ bridgeRequest[r] \in BridgeRequests
      /\ bridgeRequest[r].at \in 1..Len(Bridge!Plan(bridgeRequest[r].kind))
      /\ r \in bridgeDraining => r \in bridgeLive
      /\ Counted(bridgeRequest[r], r \in bridgeActive, r \in bridgeLive, r \in bridgeDraining)
  BY <1>1, RequestNow DEF Placed, Drains
<1>3. /\ q \in BridgeRequests /\ q.step = "waiting" /\ q.kind = "model"
      /\ q.at = bridgeRequest[r].at /\ q.turn = bridgeRequest[r].turn /\ q.aborted
  BY <1>1, <1>2 DEF BridgeRequests
<1> HIDE DEF q
<1>4. /\ Placed(q, r \in bridgeActive', r \in bridgeLive', r \in bridgeDraining')
      /\ Counted(q, r \in bridgeActive', r \in bridgeLive', r \in bridgeDraining')
      /\ Working(q, r \in bridgeLive') => Working(bridgeRequest[r], r \in bridgeLive)
  BY <1>1, <1>2, <1>3 DEF Placed, Counted, Drains, Working
<1>. QED
  BY <1>1, <1>2, <1>3, <1>4, RequestNow, BridgeStays

LEMMA FinallyKeeps ==
  ASSUME BridgeInv, NEW r \in Callers, Bridge!Finally(r)
  PROVE  BridgeInv'
<1>1. /\ bridgeRequest[r].step = "waiting"
      /\ UNCHANGED <<bridgePhase, bridgeBoot, bridgeGuard, bridgeLive>>
  BY DEF Bridge!Finally
<1>2. /\ Bridge!Handled(r) /\ bridgePhase \in {"listening", "closing"} /\ Bridge!Open
      /\ bridgeRequest[r].kind = "model" /\ bridgeRequest[r].aborted
      /\ bridgeRequest[r] \in BridgeRequests /\ bridgeRequest \in [Callers -> BridgeRequests]
      /\ bridgeRequest[r].at \in 1..Len(Bridge!Plan(bridgeRequest[r].kind))
      /\ BooksFit(bridgeLedger, bridgeRequest)
      /\ Counted(bridgeRequest[r], r \in bridgeActive, r \in bridgeLive, r \in bridgeDraining)
      /\ Working(bridgeRequest[r], r \in bridgeLive) => RecordOf(bridgeLedger, r)
      /\ bridgeActive \subseteq Callers /\ bridgeLive \subseteq Callers
      /\ bridgeDraining \subseteq Callers
  BY <1>1, RequestNow DEF Placed, Drains
<1>3. CASE r \notin bridgeLive
  BY <1>1, <1>2, <1>3, BridgeLeaves DEF Bridge!Finally
<1>4. CASE r \in bridgeLive
  <2> DEFINE q == [bridgeRequest[r] EXCEPT !.step = "refused"]
  <2>1. /\ bridgeRequest' = [bridgeRequest EXCEPT ![r] = q]
        /\ bridgeActive' = bridgeActive
        /\ bridgeDraining' = bridgeDraining \cup {r}
        /\ bridgeLedger' = Bridge!Drained(bridgeLedger, {r})
    BY <1>4 DEF Bridge!Finally
  <2>2. /\ q \in BridgeRequests /\ q.step = "refused" /\ q.kind = "model"
        /\ q.at = bridgeRequest[r].at /\ q.turn = bridgeRequest[r].turn
    BY <1>2 DEF BridgeRequests
  <2> HIDE DEF q
  <2>3. /\ Placed(q, r \in bridgeActive', r \in bridgeLive', r \in bridgeDraining')
        /\ Counted(q, r \in bridgeActive', r \in bridgeLive', r \in bridgeDraining')
        /\ Working(q, r \in bridgeLive') => Working(bridgeRequest[r], r \in bridgeLive)
    BY <1>1, <1>2, <1>4, <2>1, <2>2 DEF Placed, Counted, Drains, Working
  <2>4. \A c \in {r} : bridgeRequest[c].turn # None => RecordOf(bridgeLedger, c)
    BY <1>2, <1>4 DEF Working
  <2>5. /\ Rewritten(bridgeLedger', bridgeLedger)
        /\ \A c \in Callers : RecordOf(bridgeLedger, c) => RecordOf(bridgeLedger', c)
    BY <1>2, <2>1, <2>4, DrainedRewrites
  <2>6. BooksFit(bridgeLedger', bridgeRequest')
    <3>1. \A c \in Callers : bridgeRequest'[c].turn = bridgeRequest[c].turn
      BY <1>2, <2>1, <2>2
    <3>2. \A i \in 1..Len(bridgeLedger') : bridgeLedger'[i].by \in Callers \cup {None}
      BY <2>5, RecordsTyped DEF Rewritten
    <3>. QED
      BY <3>1, <3>2, <1>2, <2>5, RewrittenFit
  <2>7. /\ bridgeDraining' \subseteq Callers
        /\ \A c \in Callers \ {r} : c \in bridgeDraining' <=> c \in bridgeDraining
    BY <2>1, <1>2
  <2>8. Working(q, r \in bridgeLive') => RecordOf(bridgeLedger', r)
    BY <1>2, <2>3, <2>5
  <2>. QED
    BY <1>1, <1>2, <2>1, <2>2, <2>3, <2>5, <2>6, <2>7, <2>8, BridgeGoes
<1>. QED
  BY <1>3, <1>4

(* An execution settles: whatever it left held is given up.                *)
LEMMA SettlesKeeps ==
  ASSUME BridgeInv, NEW r \in Callers, Bridge!Settles(r)
  PROVE  BridgeInv'
<1>1. /\ r \in bridgeLive
      /\ bridgeLive' = bridgeLive \ {r} /\ bridgeDraining' = bridgeDraining \ {r}
      /\ bridgeActive' = IF r \in bridgeDraining \/ ~Bridge!Handled(r) THEN bridgeActive \ {r}
                                                                       ELSE bridgeActive
      /\ bridgeLedger' = IF r \in bridgeDraining THEN Bridge!Terminal(r) ELSE bridgeLedger
      /\ UNCHANGED <<bridgePhase, bridgeBoot, bridgeGuard>>
  BY DEF Bridge!Settles
<1>2. /\ bridgeRequest[r] \in BridgeRequests /\ bridgeRequest \in [Callers -> BridgeRequests]
      /\ Placed(bridgeRequest[r], r \in bridgeActive, r \in bridgeLive, r \in bridgeDraining)
      /\ BooksFit(bridgeLedger, bridgeRequest)
      /\ Bridge!Open =>
           /\ Counted(bridgeRequest[r], r \in bridgeActive, r \in bridgeLive, r \in bridgeDraining)
           /\ Working(bridgeRequest[r], r \in bridgeLive) => RecordOf(bridgeLedger, r)
      /\ Bridge!Handled(r) <=> bridgeRequest[r].step \in {"reading", "stage", "provider", "waiting"}
      /\ Bridge!Handled(r) => bridgePhase \in {"listening", "closing"}
      /\ bridgeActive \subseteq Callers /\ bridgeLive \subseteq Callers
      /\ bridgeDraining \subseteq Callers
  BY RequestNow
<1>3. bridgeRequest[r].step \notin {"idle", "reading"}
  BY <1>1, <1>2 DEF Placed
<1>4. bridgePhase \notin {"starting", "failed"}
  BY <1>3 DEF BridgeInv, PhasesFit
<1>5. /\ bridgeActive' \subseteq Callers /\ bridgeLive' \subseteq Callers
      /\ bridgeDraining' \subseteq Callers
      /\ \A c \in Callers \ {r} : /\ c \in bridgeActive' <=> c \in bridgeActive
                                  /\ c \in bridgeLive' <=> c \in bridgeLive
                                  /\ c \in bridgeDraining' <=> c \in bridgeDraining
  BY <1>1, <1>2
<1>6. CASE bridgeRequest[r].step = "provider" /\ ~bridgeRequest[r].aborted
  <2> DEFINE q == [bridgeRequest[r] EXCEPT !.step = "stage", !.at = @ + 1]
  <2>1. bridgeRequest' = [bridgeRequest EXCEPT ![r] = q]
    BY <1>2, <1>6 DEF Bridge!Settles
  <2>2. /\ bridgeRequest[r].kind = "model" /\ bridgeRequest[r].at = 5 /\ r \in bridgeActive
        /\ bridgePhase \in {"listening", "closing"} /\ Bridge!Handled(r)
    BY <1>2, <1>6 DEF Placed
  <2>3. /\ q \in BridgeRequests /\ q.step = "stage" /\ q.kind = "model" /\ q.at = 6
        /\ q.turn = bridgeRequest[r].turn /\ ~q.aborted
    <3>1. 5 + 1 = 6 /\ 6 \in Nat
      OBVIOUS
    <3>. QED
      BY <1>2, <1>6, <2>2, <3>1 DEF BridgeRequests
  <2> HIDE DEF q
  <2>4. q.at \in 1..Len(Bridge!Plan(q.kind))
    BY <2>3, PlansAre
  <2>5. /\ r \notin bridgeDraining
        /\ bridgeLedger' = bridgeLedger /\ r \in bridgeActive'
        /\ r \notin bridgeLive' /\ r \notin bridgeDraining'
    BY <1>1, <1>2, <1>6, <2>2 DEF Placed, Drains
  <2>6. /\ Placed(q, r \in bridgeActive', r \in bridgeLive', r \in bridgeDraining')
        /\ Counted(q, r \in bridgeActive', r \in bridgeLive', r \in bridgeDraining')
        /\ Working(q, r \in bridgeLive') => Working(bridgeRequest[r], r \in bridgeLive)
    BY <1>1, <2>2, <2>3, <2>4, <2>5 DEF Placed, Counted, Drains, Working
  <2>. QED
    BY <1>1, <1>2, <1>5, <2>1, <2>2, <2>3, <2>5, <2>6, BridgeStays
<1>7. CASE ~(bridgeRequest[r].step = "provider" /\ ~bridgeRequest[r].aborted)
  <2> DEFINE q == bridgeRequest[r]
  <2>1. /\ bridgeRequest' = bridgeRequest /\ bridgeRequest' = [bridgeRequest EXCEPT ![r] = q]
        /\ q \in BridgeRequests /\ q.turn = bridgeRequest[r].turn
    BY <1>2, <1>7 DEF Bridge!Settles
  <2>2. /\ Placed(q, r \in bridgeActive', r \in bridgeLive', r \in bridgeDraining')
        /\ Counted(q, r \in bridgeActive', r \in bridgeLive', r \in bridgeDraining')
    <3>1. r \notin bridgeLive' /\ r \notin bridgeDraining'
                                      /\ (r \in bridgeActive' => r \in bridgeActive)
      BY <1>1
    <3>2. q.step \in {"refused", "replied"} => r \notin bridgeActive'
      BY <1>1, <1>2
    <3>3. q.step = "stage" => r \in bridgeActive'
      BY <1>1, <1>2 DEF Placed, Drains
    <3>. QED
      BY <1>1, <1>2, <1>3, <1>7, <3>1, <3>2, <3>3 DEF Placed, Counted, Drains
  <2>3. bridgePhase = "closed" => q.step \in {"idle", "refused", "replied"}
    BY <1>2 DEF BridgeInv, PhasesFit, Bridge!Handled, Bridge!Ended
  <2>4. Working(q, r \in bridgeLive') => Working(bridgeRequest[r], r \in bridgeLive)
    BY <1>1 DEF Working
  <2>5. CASE r \notin bridgeDraining
    <3>1. bridgeLedger' = bridgeLedger
      BY <1>1, <2>5
    <3>. QED
      BY <1>1, <1>4, <1>5, <2>1, <2>2, <2>3, <2>4, <3>1, BridgeStays
  <2>6. CASE r \in bridgeDraining
    <3>1. bridgeLedger' = Bridge!Terminal(r) /\ r \notin bridgeLive'
      BY <1>1, <2>6
    <3>2. q.step # "stage"
      BY <1>2, <2>6 DEF Placed, Drains
    <3>3. ~Working(q, r \in bridgeLive')
      BY <3>1, <3>2 DEF Working
    <3>4. /\ Rewritten(bridgeLedger', bridgeLedger)
          /\ \A c \in Callers \ {r} : RecordOf(bridgeLedger, c) => RecordOf(bridgeLedger', c)
      BY <1>2, <3>1, TerminalRewrites
    <3>5. BooksFit(bridgeLedger', bridgeRequest')
      <4>1. \A i \in 1..Len(bridgeLedger') : bridgeRequest'[bridgeLedger'[i].by].turn
           = bridgeRequest[bridgeLedger'[i].by].turn
        BY <2>1
      <4>. QED
        BY <4>1, <1>2, <3>4, RewrittenFit
    <3>. QED
      BY <1>1, <1>4, <1>5, <2>1, <2>2, <2>3, <3>3, <3>4, <3>5, BridgeGoes
  <2>. QED
    BY <2>5, <2>6
<1>. QED
  BY <1>6, <1>7

(* The next request on a connection: the old one's record is nobody's now. *)
LEMMA AgainKeeps ==
  ASSUME BridgeInv, NEW r \in Callers, Bridge!Again(r)
  PROVE  BridgeInv'
<1> DEFINE q == [kind |-> "status", turn |-> None, step |-> "idle", at |-> 1, aborted |-> FALSE]
           E(i) == IF bridgeLedger[i].by = r THEN [bridgeLedger[i] EXCEPT !.by = None]
                                             ELSE bridgeLedger[i]
<1>1. /\ bridgeRequest[r].step \in {"refused", "replied"} /\ r \notin bridgeLive
      /\ bridgeRequest' = [bridgeRequest EXCEPT ![r] = q]
      /\ bridgeLedger' = [i \in DOMAIN bridgeLedger |-> E(i)]
      /\ UNCHANGED <<bridgePhase, bridgeBoot, bridgeGuard, bridgeActive, bridgeLive,
             bridgeDraining>>
  BY DEF Bridge!Again
<1>2. /\ q \in BridgeRequests /\ q.step = "idle" /\ q.kind = "status" /\ q.at = 1
      /\ q.turn = None /\ ~q.aborted
  BY DEF BridgeRequests
<1> HIDE DEF q
<1>3. /\ Placed(bridgeRequest[r], r \in bridgeActive, r \in bridgeLive, r \in bridgeDraining)
      /\ BooksFit(bridgeLedger, bridgeRequest) /\ bridgeRequest \in [Callers -> BridgeRequests]
      /\ bridgeLedger \in Seq(TurnRecords) /\ Len(bridgeLedger) \in Nat
      /\ DOMAIN bridgeLedger = 1..Len(bridgeLedger)
  BY RequestNow DEF BooksFit
<1>4. r \notin bridgeActive /\ r \notin bridgeLive /\ r \notin bridgeDraining
  BY <1>1, <1>3 DEF Placed
<1>5. q.at \in 1..Len(Bridge!Plan(q.kind))
  BY <1>2, PlansAre
<1>6. /\ Placed(q, r \in bridgeActive', r \in bridgeLive', r \in bridgeDraining')
      /\ Counted(q, r \in bridgeActive', r \in bridgeLive', r \in bridgeDraining')
      /\ ~Working(q, r \in bridgeLive')
  BY <1>1, <1>2, <1>4, <1>5 DEF Placed, Counted, Drains, Working
<1>7. ASSUME NEW i \in 1..Len(bridgeLedger)
      PROVE  /\ E(i) \in TurnRecords
             /\ E(i).turn = bridgeLedger[i].turn /\ E(i).state = bridgeLedger[i].state
             /\ E(i).old = bridgeLedger[i].old
             /\ E(i).by = IF bridgeLedger[i].by = r THEN None ELSE bridgeLedger[i].by
  <2>1. bridgeLedger[i] \in TurnRecords
    BY <1>3
  <2>. QED
    BY <2>1 DEF TurnRecords
<1> HIDE DEF E
<1>8. bridgeLedger' \in Seq(TurnRecords) /\ Len(bridgeLedger') = Len(bridgeLedger)
  BY <1>1, <1>3, <1>7
<1>9. \A i \in 1..Len(bridgeLedger) : bridgeLedger'[i] = E(i)
  BY <1>1, <1>3
<1>10. Rewritten(bridgeLedger', bridgeLedger)
  BY <1>3, <1>7, <1>8, <1>9 DEF Rewritten, BooksFit
<1>11. \A c \in Callers \ {r} : RecordOf(bridgeLedger, c) => RecordOf(bridgeLedger', c)
  BY <1>7, <1>8, <1>9 DEF RecordOf
<1>12. BooksFit(bridgeLedger', bridgeRequest')
  <2>1. ASSUME NEW i \in 1..Len(bridgeLedger'), bridgeLedger'[i].by # None
        PROVE  bridgeRequest'[bridgeLedger'[i].by].turn = bridgeRequest[bridgeLedger'[i].by].turn
    <3>1. bridgeLedger'[i].by # r /\ bridgeLedger'[i].by \in Callers
      <4>1. bridgeLedger'[i].by = (IF bridgeLedger[i].by = r THEN None ELSE bridgeLedger[i].by)
        BY <1>7, <1>8, <1>9
      <4>2. bridgeLedger'[i].by \in Callers \cup {None} /\ r # None
        BY <1>8, RecordsTyped, BridgeAssumption
      <4>. QED
        BY <4>1, <4>2, <2>1
    <3>. QED
      BY <3>1, <1>1, <1>3
  <2>. QED
    BY <2>1, <1>3, <1>10, RewrittenFit
<1>. QED
  BY <1>1, <1>2, <1>4, <1>6, <1>11, <1>12, RequestNow, BridgeGoes

(* A step that leaves every request where it is.                           *)
LEMMA BridgeHolds ==
  ASSUME BridgeInv, UNCHANGED <<bridgeRequest, bridgeActive, bridgeLive, bridgeDraining>>,
         PhasesFit', Bridge!Open' => Bridge!Open,
         BooksFit(bridgeLedger', bridgeRequest'),
         \A c \in Callers : RecordOf(bridgeLedger, c) => RecordOf(bridgeLedger', c)
  PROVE  BridgeInv'
<1>1. BooksFit(bridgeLedger, bridgeRequest)'
  BY DEF BooksFit, Distinct
<1>2. ASSUME NEW c \in Callers
      PROVE  Placed(bridgeRequest[c], c \in bridgeActive, c \in bridgeLive, c \in bridgeDraining)'
  <2>1. Placed(bridgeRequest'[c], c \in bridgeActive', c \in bridgeLive', c \in bridgeDraining')
    BY RequestNow
  <2>. QED
    BY <2>1 DEF Placed, Drains
<1>3. ASSUME Bridge!Open', NEW c \in Callers
      PROVE  /\ Counted(bridgeRequest[c], c \in bridgeActive, c \in bridgeLive,
                    c \in bridgeDraining)'
             /\ (Working(bridgeRequest[c], c \in bridgeLive) => RecordOf(bridgeLedger, c))'
  <2>1. /\ Counted(bridgeRequest'[c], c \in bridgeActive', c \in bridgeLive', c \in bridgeDraining')
        /\ Working(bridgeRequest'[c], c \in bridgeLive') => RecordOf(bridgeLedger', c)
    BY <1>3, RequestNow
  <2>. QED
    BY <2>1 DEF Counted, Drains, Working, RecordOf
<1>. QED
  BY <1>1, <1>2, <1>3 DEF BridgeInv

(* The tombstones there are expire.                                        *)
LEMMA AgeKeeps ==
  ASSUME BridgeInv, Bridge!Age
  PROVE  BridgeInv'
<1> DEFINE E(i) == [bridgeLedger[i] EXCEPT !.old = bridgeLedger[i].state = "terminal"]
<1>1. /\ bridgeLedger' = [i \in DOMAIN bridgeLedger |-> E(i)]
      /\ UNCHANGED <<bridgePhase, bridgeBoot, bridgeGuard, bridgeRequest, bridgeActive, bridgeLive,
                     bridgeDraining>>
  BY DEF Bridge!Age
<1>2. /\ BooksFit(bridgeLedger, bridgeRequest) /\ PhasesFit
      /\ bridgeLedger \in Seq(TurnRecords) /\ Len(bridgeLedger) \in Nat
      /\ DOMAIN bridgeLedger = 1..Len(bridgeLedger)
  BY DEF BridgeInv, BooksFit
<1>3. ASSUME NEW i \in 1..Len(bridgeLedger)
      PROVE  /\ E(i) \in TurnRecords
             /\ E(i).turn = bridgeLedger[i].turn /\ E(i).state = bridgeLedger[i].state
             /\ E(i).by = bridgeLedger[i].by
             /\ E(i).old => bridgeLedger[i].state = "terminal"
  <2>1. bridgeLedger[i] \in TurnRecords
    BY <1>2
  <2>2. (bridgeLedger[i].state = "terminal") \in BOOLEAN
    OBVIOUS
  <2>. QED
    BY <2>1, <2>2 DEF TurnRecords
<1> HIDE DEF E
<1>4. bridgeLedger' \in Seq(TurnRecords) /\ Len(bridgeLedger') = Len(bridgeLedger)
  BY <1>1, <1>2, <1>3
<1>5. \A i \in 1..Len(bridgeLedger) : bridgeLedger'[i] = E(i)
  BY <1>1, <1>2
<1>6. Rewritten(bridgeLedger', bridgeLedger)
  BY <1>2, <1>3, <1>4, <1>5 DEF Rewritten
<1>7. \A c \in Callers : RecordOf(bridgeLedger, c) => RecordOf(bridgeLedger', c)
  BY <1>3, <1>4, <1>5 DEF RecordOf
<1>8. BooksFit(bridgeLedger', bridgeRequest')
  BY <1>1, <1>2, <1>6, RewrittenFit
<1>9. PhasesFit' /\ (Bridge!Open' => Bridge!Open)
  BY <1>1, <1>2 DEF PhasesFit, Bridge!Open, Bridge!Handled
<1>. QED
  BY <1>1, <1>7, <1>8, <1>9, BridgeHolds

(* The start goes on, fails, and facts change.                             *)
LEMMA StartKeeps ==
  ASSUME BridgeInv, Bridge!StartStep \/ Bridge!StartFails \/ Bridge!Drift
  PROVE  BridgeInv'
<1>1. UNCHANGED <<bridgeRequest, bridgeActive, bridgeLive, bridgeDraining, bridgeLedger>>
  BY DEF Bridge!StartStep, Bridge!StartFails, Bridge!Drift
<1>2. PhasesFit /\ BooksFit(bridgeLedger, bridgeRequest)
  BY DEF BridgeInv
<1>3. PhasesFit' /\ (Bridge!Open' => Bridge!Open)
  <2>1. CASE Bridge!StartStep
    <3>1. /\ bridgePhase = "starting" /\ bridgeBoot' = bridgeBoot + 1
          /\ bridgeGuard' = (bridgeGuard \/ Bridge!Startup[bridgeBoot + 1].act = "guard")
          /\ bridgePhase' = IF Bridge!Startup[bridgeBoot + 1].act = "listen" THEN "listening"
                                                                             ELSE "starting"
      BY <2>1 DEF Bridge!StartStep
    <3>2. /\ bridgeBoot \in Nat /\ bridgeBoot < 12 /\ (bridgeBoot # 0 => bridgeGuard)
          /\ bridgeGuard \in BOOLEAN
          /\ \A r \in Callers : bridgeRequest[r].step = "idle"
      BY <3>1, <1>2 DEF PhasesFit
    <3>3. bridgeBoot + 1 \in 1..12
      BY <3>2
    <3>4. /\ Bridge!Startup[bridgeBoot + 1].act = "listen" <=> bridgeBoot + 1 = 12
          /\ bridgeBoot = 0 => Bridge!Startup[bridgeBoot + 1].act = "guard"
      BY <3>2, <3>3, StartupIs
    <3>5. bridgeGuard' /\ bridgeGuard' \in BOOLEAN
      BY <3>1, <3>2, <3>4
    <3>6. bridgePhase' = IF bridgeBoot' = 12 THEN "listening" ELSE "starting"
      BY <3>1, <3>4
    <3>7. bridgeBoot' \in Nat /\ bridgeBoot' <= 12
      BY <3>1, <3>2
    <3>. QED
      BY <1>1, <3>1, <3>2, <3>5, <3>6, <3>7 DEF PhasesFit, Bridge!Open
  <2>2. CASE Bridge!StartFails
    BY <1>1, <1>2, <2>2 DEF Bridge!StartFails, PhasesFit, Bridge!Open
  <2>3. CASE Bridge!Drift
    BY <1>1, <1>2, <2>3 DEF Bridge!Drift, PhasesFit, Bridge!Open, Bridge!Handled
  <2>. QED
    BY <2>1, <2>2, <2>3
<1>4. BooksFit(bridgeLedger', bridgeRequest')
  BY <1>1, <1>2
<1>. QED
  BY <1>1, <1>3, <1>4, BridgeHolds

(* Abort listeners run: what runs a model drains, and keeps its record.    *)
LEMMA AbortAllKeeps ==
  ASSUME BridgeInv, NEW set \in SUBSET bridgeActive, Bridge!AbortAll(set),
         bridgePhase \in {"listening", "closing"}, bridgePhase' \in {"listening", "closing"},
         UNCHANGED <<bridgeBoot, bridgeGuard, bridgeActive, bridgeLive>>
  PROVE  BridgeInv'
<1> DEFINE gone == {r \in set : Bridge!RunsModel(r)}
           Q(c) == IF c \in set THEN [bridgeRequest[c] EXCEPT !.aborted = TRUE]
                ELSE bridgeRequest[c]
<1>1. /\ bridgeRequest' = [c \in Callers |-> Q(c)]
      /\ bridgeDraining' = bridgeDraining \cup gone
      /\ bridgeLedger' = Bridge!Drained(bridgeLedger, gone)
  BY DEF Bridge!AbortAll
<1>2. /\ BooksFit(bridgeLedger, bridgeRequest) /\ PhasesFit /\ Bridge!Open
      /\ bridgeActive \subseteq Callers /\ bridgeLive \subseteq Callers
      /\ bridgeDraining \subseteq Callers
  BY DEF BridgeInv, Bridge!Open
<1>3. /\ gone \in SUBSET Callers
      /\ \A c \in gone : c \in set /\ c \in bridgeLive /\ bridgeRequest[c].kind = "model"
      /\ \A c \in set : c \in bridgeLive /\ bridgeRequest[c].kind = "model" => c \in gone
  BY <1>2 DEF Bridge!RunsModel
<1> HIDE DEF gone
<1>4. \A c \in gone : bridgeRequest[c].turn # None => RecordOf(bridgeLedger, c)
  BY <1>2, <1>3, RequestNow DEF Working
<1>5. /\ Rewritten(bridgeLedger', bridgeLedger)
      /\ \A c \in Callers : RecordOf(bridgeLedger, c) => RecordOf(bridgeLedger', c)
  BY <1>1, <1>2, <1>3, <1>4, DrainedRewrites
<1>6. ASSUME NEW c \in Callers
      PROVE  /\ Q(c) \in BridgeRequests
             /\ Q(c).kind = bridgeRequest[c].kind /\ Q(c).turn = bridgeRequest[c].turn
             /\ Q(c).step = bridgeRequest[c].step /\ Q(c).at = bridgeRequest[c].at
             /\ Q(c).aborted = (bridgeRequest[c].aborted \/ c \in set)
  <2>1. bridgeRequest[c] \in BridgeRequests
    BY RequestNow
  <2>. QED
    BY <2>1 DEF BridgeRequests
<1> HIDE DEF Q
<1>7. /\ bridgeRequest' \in [Callers -> BridgeRequests]
      /\ \A c \in Callers : bridgeRequest'[c] = Q(c)
  BY <1>1, <1>6
<1>8. BooksFit(bridgeLedger', bridgeRequest')
  <2>1. \A c \in Callers : bridgeRequest'[c].turn = bridgeRequest[c].turn
    BY <1>6, <1>7
  <2>2. \A i \in 1..Len(bridgeLedger') : bridgeLedger'[i].by \in Callers \cup {None}
    BY <1>5, RecordsTyped DEF Rewritten
  <2>. QED
    BY <2>1, <2>2, <1>2, <1>5, RewrittenFit
<1>9. ASSUME NEW c \in Callers
      PROVE  /\ Placed(Q(c), c \in bridgeActive, c \in bridgeLive, c \in bridgeDraining \cup gone)
             /\ Counted(Q(c), c \in bridgeActive, c \in bridgeLive, c \in bridgeDraining \cup gone)
             /\ Working(Q(c), c \in bridgeLive) => RecordOf(bridgeLedger', c)
  <2>1. /\ Placed(bridgeRequest[c], c \in bridgeActive, c \in bridgeLive, c \in bridgeDraining)
        /\ Counted(bridgeRequest[c], c \in bridgeActive, c \in bridgeLive, c \in bridgeDraining)
        /\ Working(bridgeRequest[c], c \in bridgeLive) => RecordOf(bridgeLedger, c)
    BY <1>2, RequestNow
  <2>2. Working(Q(c), c \in bridgeLive) <=> Working(bridgeRequest[c], c \in bridgeLive)
    BY <1>6 DEF Working
  <2>3. c \in gone => c \in set /\ c \in bridgeLive /\ bridgeRequest[c].kind = "model"
    BY <1>3
  <2>4. c \in set /\ c \in bridgeLive /\ bridgeRequest[c].kind = "model" => c \in gone
    BY <1>3
  <2>5. c \in set => c \in bridgeActive
    OBVIOUS
  <2>6. Placed(Q(c), c \in bridgeActive, c \in bridgeLive, c \in bridgeDraining \cup gone)
    BY <2>1, <2>3, <2>5, <1>6 DEF Placed, Drains
  <2>7. Counted(Q(c), c \in bridgeActive, c \in bridgeLive, c \in bridgeDraining \cup gone)
    BY <2>1, <2>4, <2>5, <1>6 DEF Counted, Drains
  <2>. QED
    BY <2>1, <2>2, <2>6, <2>7, <1>5
<1>10. ASSUME NEW c \in Callers
       PROVE  /\ Placed(bridgeRequest[c], c \in bridgeActive, c \in bridgeLive,
                     c \in bridgeDraining)'
              /\ Counted(bridgeRequest[c], c \in bridgeActive, c \in bridgeLive,
                     c \in bridgeDraining)'
              /\ (Working(bridgeRequest[c], c \in bridgeLive) => RecordOf(bridgeLedger, c))'
  <2>1. /\ Placed(bridgeRequest'[c], c \in bridgeActive', c \in bridgeLive', c \in bridgeDraining')
        /\ Counted(bridgeRequest'[c], c \in bridgeActive', c \in bridgeLive', c \in bridgeDraining')
        /\ Working(bridgeRequest'[c], c \in bridgeLive') => RecordOf(bridgeLedger', c)
    BY <1>1, <1>7, <1>9
  <2>. QED
    BY <2>1 DEF Placed, Counted, Drains, Working, RecordOf
<1>11. PhasesFit'
  BY <1>2 DEF PhasesFit
<1>12. BooksFit(bridgeLedger, bridgeRequest)'
  BY <1>8 DEF BooksFit, Distinct
<1>13. bridgeDraining' \subseteq Callers
  BY <1>1, <1>2, <1>3
<1>. QED
  BY <1>2, <1>7, <1>10, <1>11, <1>12, <1>13 DEF BridgeInv

LEMMA AbortKeeps ==
  ASSUME BridgeInv, NEW r \in Callers, Bridge!Abort(r)
  PROVE  BridgeInv'
<1>1. /\ r \in bridgeActive /\ Bridge!Handled(r) /\ Bridge!AbortAll({r})
      /\ UNCHANGED <<bridgePhase, bridgeBoot, bridgeGuard, bridgeActive, bridgeLive>>
  BY DEF Bridge!Abort
<1>2. bridgePhase \in {"listening", "closing"} /\ {r} \in SUBSET bridgeActive
  BY <1>1, RequestNow
<1>. QED
  BY <1>1, <1>2, AbortAllKeeps

LEMMA CloseKeeps ==
  ASSUME BridgeInv, Bridge!Close
  PROVE  BridgeInv'
<1>1. /\ bridgePhase = "listening" /\ bridgePhase' = "closing" /\ Bridge!AbortAll(bridgeActive)
      /\ UNCHANGED <<bridgeBoot, bridgeGuard, bridgeActive, bridgeLive>>
  BY DEF Bridge!Close
<1>2. bridgeActive \in SUBSET bridgeActive
  OBVIOUS
<1>. QED
  BY <1>1, <1>2, AbortAllKeeps

(* What still drains at the end is written off.                            *)
LEMMA ClosedKeeps ==
  ASSUME BridgeInv, Bridge!Closed
  PROVE  BridgeInv'
<1>1. /\ bridgePhase' = "closed" /\ bridgeGuard' = FALSE /\ bridgeDraining' = {}
      /\ bridgeActive' = {}
      /\ \A r \in Callers : ~Bridge!Handled(r)
      /\ UNCHANGED <<bridgeBoot, bridgeRequest, bridgeLive, bridgeLedger>>
  BY DEF Bridge!Closed
<1>2. PhasesFit' /\ ~Bridge!Open'
  BY <1>1 DEF BridgeInv, PhasesFit, Bridge!Open, Bridge!Handled
<1>3. ASSUME NEW c \in Callers
      PROVE  Placed(bridgeRequest[c], c \in bridgeActive, c \in bridgeLive, c \in bridgeDraining)'
  <2>1. /\ Placed(bridgeRequest[c], c \in bridgeActive, c \in bridgeLive, c \in bridgeDraining)
        /\ bridgeRequest[c].step \notin {"reading", "stage", "provider", "waiting"}
    BY <1>1, RequestNow
  <2>2. Placed(bridgeRequest'[c], c \in bridgeActive', c \in bridgeLive', c \in bridgeDraining')
    BY <1>1, <2>1 DEF Placed
  <2>. QED
    BY <2>2 DEF Placed, Drains
<1>4. BooksFit(bridgeLedger, bridgeRequest)'
  BY <1>1 DEF BridgeInv, BooksFit, Distinct
<1>. QED
  BY <1>1, <1>2, <1>3, <1>4 DEF BridgeInv

(* The bridge's invariant: where it begins, at each of its steps, and      *)
(* while another component steps.                                          *)
LEMMA BridgeBegins == Bridge!Init => BridgeInv
<1>. SUFFICES ASSUME Bridge!Init PROVE BridgeInv
  OBVIOUS
<1> DEFINE q == [kind |-> "status", turn |-> None, step |-> "idle", at |-> 1, aborted |-> FALSE]
<1>1. /\ bridgePhase = "starting" /\ bridgeBoot = 0 /\ bridgeGuard = FALSE
      /\ bridgeRequest = [r \in Callers |-> q]
      /\ bridgeActive = {} /\ bridgeLive = {} /\ bridgeDraining = {} /\ bridgeLedger = <<>>
  BY DEF Bridge!Init
<1>2. /\ q \in BridgeRequests /\ q.step = "idle" /\ q.kind = "status" /\ q.at = 1
      /\ q.turn = None /\ ~q.aborted
  BY DEF BridgeRequests
<1> HIDE DEF q
<1>3. q.at \in 1..Len(Bridge!Plan(q.kind))
  BY <1>2, PlansAre
<1>4. \A r \in Callers :
        /\ Placed(bridgeRequest[r], r \in bridgeActive, r \in bridgeLive, r \in bridgeDraining)
        /\ Counted(bridgeRequest[r], r \in bridgeActive, r \in bridgeLive, r \in bridgeDraining)
        /\ ~Working(bridgeRequest[r], r \in bridgeLive)
  BY <1>1, <1>2, <1>3 DEF Placed, Counted, Drains, Working
<1>5. BooksFit(bridgeLedger, bridgeRequest)
  BY <1>1, BridgeAssumption DEF BooksFit, Distinct
<1>6. PhasesFit
  <2>1. \A r \in Callers : bridgeRequest[r].step = "idle"
    BY <1>1, <1>2
  <2>2. bridgeBoot \in Nat /\ bridgeBoot < 12
    BY <1>1
  <2>3. ~bridgeGuard /\ bridgeGuard \in BOOLEAN
    BY <1>1
  <2>4. bridgeBoot = 0
    BY <1>1
  <2>5. bridgePhase = "starting"
    BY <1>1
  <2>. QED
    BY <2>1, <2>2, <2>3, <2>4, <2>5 DEF PhasesFit
<1>. QED
  BY <1>1, <1>2, <1>4, <1>5, <1>6 DEF BridgeInv

LEMMA BridgeSteps == BridgeInv /\ Bridge!Next => BridgeInv'
BY StartKeeps, CloseKeeps, ClosedKeeps, AgeKeeps, EnterKeeps, ReadModelKeeps, ReadFailsKeeps,
   ReadSearchKeeps, StageKeeps, DetachKeeps, DispatchKeeps, AbortKeeps, CancelledKeeps,
   DrainWaitKeeps, FinallyKeeps, SettlesKeeps, AgainKeeps DEF Bridge!Next

LEMMA BridgeRests == BridgeInv /\ UNCHANGED bridgeVars => BridgeInv'
BY DEF bridgeVars, BridgeInv, PhasesFit, BooksFit, Distinct, Placed, Counted, Drains, Working,
       RecordOf, Bridge!Open, Bridge!Handled

LEMMA BridgeShows == BridgeInv => Bridge!BridgeAccounts
<1>. SUFFICES ASSUME BridgeInv PROVE Bridge!BridgeAccounts
  OBVIOUS
<1>1. Len(bridgeLedger) <= MaxRecords
  BY DEF BridgeInv, BooksFit
<1>2. Bridge!OrphansAreCounted
  BY RequestNow DEF Bridge!OrphansAreCounted, Bridge!RunsModel, Counted, Drains,
       Placed, BridgeRequests, BridgeInv
<1>3. Bridge!SlotsAreOwned
  <2>1. ASSUME NEW r \in Callers
        PROVE  /\ r \in bridgeDraining => r \in bridgeLive
               /\ r \in bridgeActive => Bridge!Handled(r) \/ r \in bridgeLive
    <3>1. bridgeRequest[r].step \in {"idle", "reading", "stage", "provider", "waiting", "refused",
                                     "replied"}
      BY RequestNow DEF BridgeRequests
    <3>. QED
      BY <3>1, RequestNow DEF Placed
  <2>2. bridgeDraining \subseteq Callers /\ bridgeActive \subseteq Callers
    BY DEF BridgeInv
  <2>. QED
    BY <2>1, <2>2 DEF Bridge!SlotsAreOwned
<1>4. Bridge!TurnsRunOnce
  <2>. SUFFICES ASSUME NEW r \in Callers, Bridge!RunsModel(r), bridgeRequest[r].turn # None,
                       Bridge!Open
                PROVE  /\ \A other \in Callers \ {r} : Bridge!RunsModel(other) =>
                            bridgeRequest[other].turn # bridgeRequest[r].turn
                       /\ \E i \in DOMAIN bridgeLedger :
                            bridgeLedger[i].by = r /\ bridgeLedger[i].state # "terminal"
    BY DEF Bridge!TurnsRunOnce
  <2>1. /\ bridgeLedger \in Seq(TurnRecords) /\ Distinct(bridgeLedger)
        /\ DOMAIN bridgeLedger = 1..Len(bridgeLedger)
        /\ \A i \in 1..Len(bridgeLedger) :
             bridgeLedger[i].by # None
                  => bridgeLedger[i].turn = bridgeRequest[bridgeLedger[i].by].turn
    BY DEF BridgeInv, BooksFit
  <2>2. ASSUME NEW c \in Callers, Bridge!RunsModel(c), bridgeRequest[c].turn # None
        PROVE  \E i \in 1..Len(bridgeLedger) :
                 /\ bridgeLedger[i].by = c /\ bridgeLedger[i].state # "terminal"
                 /\ bridgeLedger[i].turn = bridgeRequest[c].turn
    <3>1. RecordOf(bridgeLedger, c)
      BY <2>2, RequestNow DEF Working, Bridge!RunsModel
    <3>2. c # None
      BY BridgeAssumption
    <3>. QED
      BY <2>1, <3>1, <3>2 DEF RecordOf
  <2>3. PICK i \in 1..Len(bridgeLedger) :
          /\ bridgeLedger[i].by = r /\ bridgeLedger[i].state # "terminal"
          /\ bridgeLedger[i].turn = bridgeRequest[r].turn
    BY <2>2
  <2>4. ASSUME NEW other \in Callers \ {r}, Bridge!RunsModel(other),
               bridgeRequest[other].turn = bridgeRequest[r].turn
        PROVE  FALSE
    <3>1. PICK j \in 1..Len(bridgeLedger) :
            bridgeLedger[j].by = other /\ bridgeLedger[j].turn = bridgeRequest[r].turn
      BY <2>2, <2>4
    <3>2. i # j
      BY <3>1, <2>3
    <3>. QED
      BY <3>1, <3>2, <2>1, <2>3 DEF Distinct
  <2>. QED
    BY <2>1, <2>3, <2>4
<1>5. Bridge!GuardBracketsService
  BY StartupIs DEF Bridge!GuardBracketsService, BridgeInv, PhasesFit, Bridge!Open,
       Bridge!Handled, Bridge!Ended
<1>. QED
  BY <1>1, <1>2, <1>3, <1>4, <1>5 DEF Bridge!BridgeAccounts

(* The bridge's invariant holds while it is the component under check.     *)
THEOREM BridgeInvariant == MCSpec => [](part = "bridge" => BridgeInv)
<1>. DEFINE Inv == part = "bridge" => BridgeInv
<1>1. MCInit => Inv
  BY BridgeBegins DEF MCInit
<1>2. Inv /\ [MCNext]_<<part, divisionVars, lineVars, facadeVars, pageVars, bridgeVars,
                        caseVars>> => Inv'
  <2>. SUFFICES ASSUME Inv, [MCNext]_<<part, divisionVars, lineVars, facadeVars, pageVars,
                                       bridgeVars, caseVars>>,
                       part' = "bridge"
                PROVE  BridgeInv'
    OBVIOUS
  <2>1. CASE BridgeStep
    BY <2>1, BridgeSteps DEF BridgeStep
  <2>2. CASE UNCHANGED bridgeVars /\ part' = part
    BY <2>2, BridgeRests
  <2>. QED
    BY <2>1, <2>2 DEF MCNext, DivisionStep, LineageStep, FacadeStep, PageStep, CaseStep
<1>. QED
  BY <1>1, <1>2, PTL DEF MCSpec

(* The bridge's slots, records and guard account for all work under way:   *)
(* BridgeTurns' property.                                                  *)
THEOREM BridgeAlwaysAccounts == MCSpec => []BridgeAccounts
<1>1. (part = "bridge" => BridgeInv) => BridgeAccounts
  BY BridgeShows DEF BridgeAccounts
<1>. QED
  BY <1>1, BridgeInvariant, PTL

(* Only a dispatch begins a turn, and it found nothing draining.           *)
LEMMA TurnsBegin ==
  ASSUME BridgeInv, Bridge!Next, NEW r \in Callers,
         bridgeRequest[r].step = "stage", bridgeRequest'[r].step = "provider"
  PROVE  bridgeDraining = {}
<1>1. bridgeRequest \in [Callers -> BridgeRequests]
  BY DEF BridgeInv
<1>2. ASSUME NEW c \in Callers, NEW q, bridgeRequest' = [bridgeRequest EXCEPT ![c] = q],
             q.step # "provider"
      PROVE  FALSE
  BY <1>1, <1>2
<1>3. bridgeRequest' # bridgeRequest
  OBVIOUS
<1>4. ASSUME NEW c \in Callers, NEW step \in {"refused", "replied"}, Bridge!Leave(c, step)
      PROVE  FALSE
  <2>1. bridgeRequest' = [bridgeRequest EXCEPT ![c].step = step]
    BY <1>4 DEF Bridge!Leave
  <2>2. bridgeRequest[c] \in BridgeRequests
    BY <1>1
  <2>. QED
    BY <1>1, <2>1, <2>2 DEF BridgeRequests
<1>5. ASSUME NEW set, Bridge!AbortAll(set)
      PROVE  FALSE
  <2>1. bridgeRequest' = [c \in Callers |-> IF c \in set THEN [bridgeRequest[c] EXCEPT !.aborted = TRUE]
                                                         ELSE bridgeRequest[c]]
    BY <1>5 DEF Bridge!AbortAll
  <2>2. bridgeRequest[r] \in BridgeRequests
    BY <1>1
  <2>. QED
    BY <2>1, <2>2 DEF BridgeRequests
<1>6. ASSUME NEW c \in Callers, NEW step \in {"stage", "reading", "refused", "waiting"},
             \/ bridgeRequest' = [bridgeRequest EXCEPT ![c].step = step]
             \/ \E kind : bridgeRequest' = [bridgeRequest EXCEPT ![c].kind = kind, ![c].step = step]
             \/ \E turn : bridgeRequest' = [bridgeRequest EXCEPT ![c].step = step, ![c].turn = turn]
             \/ bridgeRequest' = [bridgeRequest EXCEPT ![c].step = step, ![c].at = @ + 1]
      PROVE  FALSE
  <2>1. bridgeRequest[c] \in BridgeRequests
    BY <1>1
  <2>. QED
    BY <1>1, <1>6, <2>1 DEF BridgeRequests
<1>7. CASE Bridge!StartStep \/ Bridge!StartFails \/ Bridge!Drift \/ Bridge!Closed \/ Bridge!Age
  BY <1>3, <1>7 DEF Bridge!StartStep, Bridge!StartFails, Bridge!Drift, Bridge!Closed, Bridge!Age
<1>8. CASE Bridge!Close
  BY <1>5, <1>8 DEF Bridge!Close
<1>9. ASSUME NEW c \in Callers, Bridge!Enter(c)
      PROVE  FALSE
  BY <1>6, <1>9 DEF Bridge!Enter
<1>10. ASSUME NEW c \in Callers, NEW turn \in Turns \cup {None}, Bridge!ReadModel(c, turn)
       PROVE  FALSE
  BY <1>6, <1>10 DEF Bridge!ReadModel
<1>11. ASSUME NEW c \in Callers, Bridge!ReadFails(c) \/ Bridge!ReadSearch(c) \/ Bridge!DrainWait(c)
       PROVE  FALSE
  BY <1>6, <1>11 DEF Bridge!ReadFails, Bridge!ReadSearch, Bridge!DrainWait
<1>12. ASSUME NEW c \in Callers, Bridge!Stage(c) \/ Bridge!StageFails(c)
       PROVE  FALSE
  <2>1. CASE \E step \in {"refused", "replied"} : Bridge!Leave(c, step)
    BY <2>1, <1>4
  <2>2. CASE bridgeRequest' = [bridgeRequest EXCEPT ![c].at = @ + 1]
    <3>1. bridgeRequest[c] \in BridgeRequests
      BY <1>1
    <3>. QED
      BY <1>1, <2>2, <3>1 DEF BridgeRequests
  <2>. QED
    BY <2>1, <2>2, <1>12 DEF Bridge!Stage, Bridge!StageFails
<1>13. ASSUME NEW c \in Callers, Bridge!Detach(c)
       PROVE  FALSE
  BY <1>3, <1>13 DEF Bridge!Detach
<1>14. ASSUME NEW c \in Callers, Bridge!Dispatch(c)
       PROVE  bridgeDraining = {}
  BY <1>4, <1>14 DEF Bridge!Dispatch
<1>15. ASSUME NEW c \in Callers, Bridge!Abort(c)
       PROVE  FALSE
  BY <1>5, <1>15 DEF Bridge!Abort
<1>16. ASSUME NEW c \in Callers, Bridge!Cancelled(c) \/ Bridge!Finally(c)
       PROVE  FALSE
  BY <1>4, <1>6, <1>16 DEF Bridge!Cancelled, Bridge!Finally
<1>17. ASSUME NEW c \in Callers, Bridge!Settles(c)
       PROVE  FALSE
  BY <1>3, <1>6, <1>17 DEF Bridge!Settles
<1>18. ASSUME NEW c \in Callers, Bridge!Again(c)
       PROVE  FALSE
  <2> DEFINE q == [kind |-> "status", turn |-> None, step |-> "idle", at |-> 1, aborted |-> FALSE]
  <2>1. bridgeRequest' = [bridgeRequest EXCEPT ![c] = q] /\ q.step # "provider"
    BY <1>18 DEF Bridge!Again
  <2>. QED
    BY <2>1, <1>2
<1>. QED
  BY <1>7, <1>8, <1>9, <1>10, <1>11, <1>12, <1>13, <1>14, <1>15, <1>16, <1>17, <1>18
     DEF Bridge!Next

LEMMA TurnsBeginAlone == BridgeInv /\ Bridge!Next => Bridge!TurnStep
<1>. SUFFICES ASSUME BridgeInv, Bridge!Next, NEW r \in Callers,
                     bridgeRequest[r].step = "stage", bridgeRequest'[r].step = "provider",
                     NEW other \in bridgeLive \ {r}, Bridge!RunsModel(other)
              PROVE  ~bridgeRequest[other].aborted
  BY DEF Bridge!TurnStep
<1>1. bridgeDraining = {}
  BY TurnsBegin
<1>2. Bridge!Open
  BY RequestNow
<1>3. other \in Callers
  BY DEF BridgeInv
<1>4. Counted(bridgeRequest[other], other \in bridgeActive, other \in bridgeLive,
     other \in bridgeDraining)
  BY <1>2, <1>3, RequestNow
<1>. QED
  BY <1>1, <1>4 DEF Counted, Drains, Bridge!RunsModel

(* No turn begins while a cancelled one is still running: BridgeTurns'     *)
(* action property.                                                        *)
THEOREM NoTurnEverOverlapsCancelled == MCSpec => NoTurnOverlapsCancelled
<1> DEFINE Inv == part = "bridge" => BridgeInv
<1>1. Inv /\ [MCNext]_<<part, divisionVars, lineVars, facadeVars, pageVars, bridgeVars,
                        caseVars>> => [part = "bridge" => Bridge!TurnStep]_bridgeVars
  <2>. SUFFICES ASSUME Inv, MCNext, bridgeVars' # bridgeVars, part = "bridge"
                PROVE  Bridge!TurnStep
    OBVIOUS
  <2>1. Bridge!Next
    BY DEF MCNext, DivisionStep, LineageStep, FacadeStep, PageStep, BridgeStep, CaseStep
  <2>. QED
    BY <2>1, TurnsBeginAlone
<1>. QED
  BY <1>1, BridgeInvariant, PTL DEF MCSpec, NoTurnOverlapsCancelled

-----------------------------------------------------------------------------
(* The lineage.  RetryLineageProofs is about any handlers; here there is   *)
(* one, Retrier, so Retries are made one at a time.                        *)

Line == INSTANCE RetryLineageProofs WITH
  Root <- Origin,
  Handlers <- {Retrier}, Keys <- Members(KeyOrder),
  Fingerprints <- Members(EcologyOrder),
  Reviews <- {Permit, Replay, Broken}, MaxCrashes <- 1, runs <- lineRuns,
  child <- lineChild, handler <- lineHandler, crashes <- lineCrashes

LineageInv == Line!ChainInv

(* The lineage of MCPlay is one RetryLineageProofs is about.               *)
LEMMA LineageConstants == Line!ConstantsAssumption /\ Line!OneAtATime
<1>1. Line!ConstantsAssumption
  BY LineageAssumption
     DEF Line!ConstantsAssumption, Permit, Replay, Broken,
         Lineage!Games, Line!Games, Lineage!Exists, Line!Exists, Lineage!Run,
             Line!Run, Lineage!ChildGame, Line!ChildGame, Lineage!Idle, Line!Idle,
             Lineage!Modes, Line!Modes, Lineage!SameFieldReplays, Line!SameFieldReplays,
             Lineage!FieldRegenerations, Line!FieldRegenerations, Lineage!Review,
             Line!Review, Lineage!Decisions, Line!Decisions, Lineage!RunStates,
             Line!RunStates, Lineage!Passes, Line!Passes
<1>2. Line!OneAtATime
  BY DEF Line!OneAtATime
<1>. QED
  BY <1>1, <1>2

LEMMA LineageBegins == Lineage!Init => LineageInv
<1>1. Lineage!Init => Line!Init
  BY
     DEF Lineage!Games, Line!Games, Lineage!Run, Line!Run, Lineage!Idle, Line!Idle,
         Lineage!Fresh, Line!Fresh, Lineage!RootRuns, Line!RootRuns, Lineage!Init,
         Line!Init, Lineage!Passes, Line!Passes, Lineage!Review, Line!Review,
         Lineage!RunStates, Line!RunStates
<1>. QED
  BY <1>1, LineageConstants, Line!ChainBegins DEF LineageInv

LEMMA LineageIsLine == Lineage!Next => Line!Next
BY
   DEF Lineage!Games, Line!Games, Lineage!Exists, Line!Exists, Lineage!Failed,
       Line!Failed, Lineage!Idle, Line!Idle, Lineage!Step, Line!Step, Lineage!Parent,
       Line!Parent, Lineage!Finish, Line!Finish, Lineage!Goto, Line!Goto, Lineage!Gone,
       Line!Gone, Lineage!Move, Line!Move, Lineage!RecommendedFor, Line!RecommendedFor,
       Lineage!FinishGame, Line!FinishGame, Lineage!JudgeRun, Line!JudgeRun,
       Lineage!ConcludeGate, Line!ConcludeGate, Lineage!Retryable, Line!Retryable,
       Lineage!Open, Line!Open, Lineage!Duplicate, Line!Duplicate, Lineage!Decide,
       Line!Decide, Lineage!Stop, Line!Stop, Lineage!ChildOf, Line!ChildOf,
       Lineage!Grant, Line!Grant, Lineage!Refused, Line!Refused, Lineage!Weave,
       Line!Weave, Lineage!Settled, Line!Settled, Lineage!Found, Line!Found,
       Lineage!NextStep, Line!NextStep, Lineage!ReadParent, Line!ReadParent,
       Lineage!Advance, Line!Advance, Lineage!Authorize, Line!Authorize, Lineage!Start,
       Line!Start, Lineage!ChildRow, Line!ChildRow, Lineage!Insertable, Line!Insertable,
       Lineage!Insert, Line!Insert, Lineage!Crash, Line!Crash, Lineage!Advances,
       Line!Advances, Lineage!Next, Line!Next, Lineage!Passes, Line!Passes,
       Lineage!Recommend, Line!Recommend, Lineage!FieldOrStop, Line!FieldOrStop,
       Lineage!DecideRetry, Line!DecideRetry, Lineage!CanReopen, Line!CanReopen,
       Lineage!Modes, Line!Modes, Lineage!SameFieldReplays, Line!SameFieldReplays,
       Lineage!FieldRegenerations, Line!FieldRegenerations

LEMMA LineageSteps == LineageInv /\ Lineage!Next => LineageInv'
BY LineageIsLine, LineageConstants, Line!ChainSteps DEF LineageInv

LEMMA LineageRests == LineageInv /\ UNCHANGED lineVars => LineageInv'
<1>1. UNCHANGED lineVars => UNCHANGED Line!vars
  BY DEF lineVars, Line!vars
<1>. QED
  BY <1>1, LineageConstants, Line!ChainSteps DEF LineageInv

LEMMA LineageShows == LineageInv => Lineage!LineageIsSound
<1>1. Line!LineageIsSound => Lineage!LineageIsSound
  BY
     DEF Lineage!LineageIsSound, Line!LineageIsSound, Lineage!LineageIsBoundedChain,
         Line!LineageIsBoundedChain, Lineage!NoReplayOfDuplicates,
         Line!NoReplayOfDuplicates, Lineage!Children, Line!Children, Lineage!Made,
         Line!Made, Lineage!IsAncestor, Line!IsAncestor, Lineage!Games, Line!Games,
         Lineage!Exists, Line!Exists, Lineage!SameFieldReplays, Line!SameFieldReplays,
         Lineage!FieldRegenerations, Line!FieldRegenerations,
         Line!Cardinality, Lineage!Cardinality, Line!IsFiniteSet, Lineage!IsFiniteSet
<1>. QED
  BY <1>1, LineageConstants, Line!ChainIsSound DEF LineageInv

(* The lineage's invariant holds while it is the component under check.    *)
THEOREM LineageInvariant == MCSpec => [](part = "lineage" => LineageInv)
<1>. DEFINE Inv == part = "lineage" => LineageInv
<1>1. MCInit => Inv
  BY LineageBegins DEF MCInit
<1>2. Inv /\ [MCNext]_<<part, divisionVars, lineVars, facadeVars, pageVars, bridgeVars,
                        caseVars>> => Inv'
  <2>. SUFFICES ASSUME Inv, [MCNext]_<<part, divisionVars, lineVars, facadeVars, pageVars,
                                       bridgeVars, caseVars>>,
                       part' = "lineage"
                PROVE  LineageInv'
    OBVIOUS
  <2>1. CASE LineageStep
    BY <2>1, LineageSteps DEF LineageStep
  <2>2. CASE UNCHANGED lineVars /\ part' = part
    BY <2>2, LineageRests
  <2>. QED
    BY <2>1, <2>2 DEF MCNext, DivisionStep, FacadeStep, PageStep, BridgeStep, CaseStep
<1>. QED
  BY <1>1, <1>2, PTL DEF MCSpec

(* Retries made one at a time stay inside the budget of their lineage, a   *)
(* chain whose children have the mode its earlier ecologies call for:      *)
(* RetryLineage's property.                                                *)
THEOREM LineageAlwaysSound == MCSpec => []LineageIsSound
<1>1. (part = "lineage" => LineageInv) => LineageIsSound
  BY LineageShows DEF LineageIsSound
<1>. QED
  BY <1>1, LineageInvariant, PTL

LEMMA LineageStops == LineageInv /\ Lineage!Next => Lineage!StopStep
<1>. SUFFICES ASSUME LineageInv, Lineage!Next
              PROVE  Lineage!StopStep
  OBVIOUS
<1>1. Line!LineageInv /\ Line!Next
  BY LineageIsLine DEF LineageInv, Line!ChainInv
<1>2. Line!StopStep \/ lineRuns' = lineRuns
  BY <1>1, LineageConstants, Line!StopsExhaust
<1>3. Line!StopStep => Lineage!StopStep
  BY
     DEF Lineage!StopStep, Line!StopStep, Lineage!Children, Line!Children, Lineage!Games,
         Line!Games, Lineage!Exists, Line!Exists, Lineage!FieldRegenerations,
         Line!FieldRegenerations
<1>4. lineRuns' = lineRuns => Lineage!StopStep
  BY DEF Lineage!StopStep
<1>. QED
  BY <1>2, <1>3, <1>4

(* Neither a Gate nor a Retry gives a run up while anything is left to     *)
(* try: RetryLineage's action property.                                    *)
THEOREM StopsOnlyEverExhausted == MCSpec => StopsOnlyExhausted
<1>. DEFINE Inv == part = "lineage" => LineageInv
<1>1. Inv /\ [MCNext]_<<part, divisionVars, lineVars, facadeVars, pageVars, bridgeVars,
                        caseVars>>
        => [part = "lineage" => Lineage!StopStep]_lineVars
  <2>. SUFFICES ASSUME Inv, MCNext, part = "lineage", lineVars' # lineVars
                PROVE  Lineage!StopStep
    OBVIOUS
  <2>1. Lineage!Next
    BY DEF MCNext, DivisionStep, LineageStep, FacadeStep, PageStep, BridgeStep, CaseStep
  <2>. QED
    BY <2>1, LineageStops
<1>. QED
  BY <1>1, LineageInvariant, PTL DEF MCSpec, StopsOnlyExhausted
-----------------------------------------------------------------------------
(* The page.                                                               *)

Statuses == {"none", "mapped", "failed", "playing", "completed", "gated", "denied",
             "answered", "qualified"}
Unmapped == {"none", "failed"}
PageGames == [id : Nat, status : Statuses, rev : Nat]
PageRequests == [op : Page!Ops, key : Page!Keys, game : PageGames]

PageTyped ==
  /\ pageHosted \in PageGames
  /\ pageShown \in PageGames
  /\ pageKeyed \in [Page!Keys -> PageGames]
  /\ pageWire \subseteq PageRequests
  /\ pageIntent \in [Page!Ops -> [key : 0..MaxKeys, game : PageGames]]
  /\ pageCall \in [op : Page!Ops \cup {"none"}, key : 0..MaxKeys,
                   phase : {"idle", "sent", "recover"}, reply : {"none", "ok", "conflict"},
                   game : PageGames]
  /\ pageRead \in [silent : BOOLEAN, reply : PageGames, phase : {"idle", "sent", "answered"}]
  /\ pageSearch \in [phase : {"idle", "searching"}, live : BOOLEAN,
                     mode : {"auto", "manual"}, on : PageGames]
  /\ pageLocked \subseteq Page!Makers
  /\ pageMinted \in 0..MaxKeys

(* A key belongs to the operation that was asked for under it.             *)
Owns(op, k) ==
  \/ \E r \in pageWire : r.op = op /\ r.key = k
  \/ pageIntent[op].key = k
  \/ pageCall.op = op /\ pageCall.key = k

KeysOwned ==
  \A k \in Page!Keys :
    /\ \A op, other \in Page!Ops : Owns(op, k) /\ Owns(other, k) => op = other
    /\ (\E op \in Page!Ops : Owns(op, k)) \/ pageKeyed[k] # Page!Blank => k <= pageMinted

(* What the service did under a key is what its operation does.            *)
KeysFit ==
  /\ pageHosted.id \in Page!Keys => pageKeyed[pageHosted.id] # Page!Blank
  /\ \A k \in Page!Keys, op \in Page!Ops : pageKeyed[k] # Page!Blank /\ Owns(op, k) =>
       /\ pageKeyed[k].status = "none" => op = "reset"
       /\ pageKeyed[k].status = "failed" => op = "divide"

CallFits ==
  /\ pageCall.op = "none" => pageCall = Page!NoCall
  /\ pageCall.op # "none" => pageCall.key \in Page!Keys
  /\ pageCall.reply = "ok" => pageKeyed[pageCall.key] # Page!Blank /\ pageCall.game = pageKeyed[pageCall.key]
  /\ pageCall.phase = "recover" => pageCall.op \in Page!Recovering

(* An open key is the one its operation keeps.                             *)
IntentsHeld ==
  /\ pageIntent["move"].key = 0
  /\ \A r \in pageWire : r.op # "move" /\ r.key \notin pageClosed => pageIntent[r.op].key = r.key
  /\ pageCall.op \notin {"none", "move"} =>
       \/ pageIntent[pageCall.op].key = pageCall.key
       \/ pageIntent[pageCall.op].key = 0 /\ pageCall.key \in pageClosed
  /\ Page!GamesAreReached

(* An open division or replay is being asked for, or locks "new question". *)
PageOpen(op) == pageIntent[op].key \notin pageClosed \cup {0}
LocksHeld ==
  \A op \in Page!Makers : PageOpen(op) =>
    /\ pageCall.op # "reset"
    /\ pageCall.key = pageIntent[op].key \/ op \in pageLocked

(* While a division is open nothing else goes on.                          *)
DivisionsAlone ==
  /\ pageIntent["divide"].key # 0 =>
       /\ "divide" \in pageLocked
       /\ pageShown.status \in Unmapped
       /\ pageRead.phase = "idle"
       /\ pageCall.op \in {"none", "divide"}
  /\ pageCall.op = "divide" => pageIntent["divide"].key = pageCall.key
  /\ pageShown.status \in Unmapped \/ pageCall.op = "reset" => pageRead.phase = "idle" \/ ~pageRead.silent

SearchFits == pageSearch.live => pageSearch.on = pageShown /\ pageShown.status = "playing"

PageInv ==
  /\ PageTyped /\ KeysOwned /\ KeysFit /\ CallFits /\ IntentsHeld /\ LocksHeld
  /\ DivisionsAlone /\ SearchFits

(* A request leaves behind a game of its key, or the next revision of the  *)
(* one the service has.                                                    *)
LEMMA EffectsAre ==
  ASSUME PageTyped, NEW r \in PageRequests, NEW g \in Page!Effects(r)
  PROVE  /\ g \in PageGames /\ g # Page!Blank
         /\ \/ /\ r.op \in Page!Makers \cup {"retry"} /\ g.id = r.key
               /\ g.status # "none"
               /\ g.status = "failed" => r.op = "divide"
            \/ /\ g.id = pageHosted.id
               /\ g.status = "none" => r.op = "reset"
               /\ g.status # "failed"
<1>1. r.key \in Nat /\ r.op \in Page!Ops
  BY PageAssumption DEF PageRequests, Page!Keys
<1>2. CASE r.op = "divide"
  BY <1>1, <1>2 DEF Page!Effects, PageGames, Statuses, Page!Makers, Page!Blank
<1>3. CASE r.op = "replay" /\ r.game \in pageSources \cup {pageHosted}
  BY <1>1, <1>3 DEF Page!Effects, PageGames, Statuses, Page!Makers, Page!Blank
<1>4. CASE r.op # "divide" /\ ~(r.op = "replay" /\ r.game \in pageSources \cup {pageHosted})
  <2>1. pageHosted.status \in Page!Needs(r.op)
    BY <1>4 DEF Page!Effects
  <2>2. CASE r.op = "retry"
    BY <1>1, <1>4, <2>2 DEF Page!Effects, PageGames, Statuses, Page!Makers, Page!Blank
  <2>3. CASE r.op # "retry"
    <3>1. PICK s \in Page!Leads(r.op, pageHosted) :
             g = [pageHosted EXCEPT !.status = s, !.rev = @ + 1]
      BY <1>4, <2>3 DEF Page!Effects
    <3>2. s \in Statuses \ {"failed"} /\ (s = "none" => r.op = "reset")
      BY <1>1, <3>1 DEF Page!Leads, Statuses, Page!Ops, Page!Makers, Page!Stages
    <3>3. pageHosted.rev \in Nat /\ pageHosted.id \in Nat
      BY DEF PageTyped, PageGames
    <3>4. g = [id |-> pageHosted.id, status |-> s, rev |-> pageHosted.rev + 1]
      BY <3>1 DEF PageTyped, PageGames
    <3>. QED
      BY <3>2, <3>3, <3>4 DEF PageGames, Page!Blank
  <2>. QED
    BY <2>2, <2>3
<1>. QED
  BY <1>2, <1>3, <1>4

(* The service executes a request once.                                    *)
LEMMA ServesKeeps ==
  ASSUME PageInv, NEW r \in pageWire, Page!Serves(r)
  PROVE  PageInv'
<1>1. /\ r \in PageRequests /\ r.key \in Page!Keys /\ r.op \in Page!Ops
  BY DEF PageInv, PageTyped, PageRequests
<1>2. /\ pageWire' = pageWire \ {r}
      /\ UNCHANGED <<pageShown, pageIntent, pageLocked, pageAuto, pageRead, pageSearch,
                     pageMinted, pageClosed, pageFaults, pageReads>>
  BY DEF Page!Serves, Page!screen
<1>3. \/ UNCHANGED <<pageHosted, pageKeyed>>
      \/ /\ pageKeyed[r.key] = Page!Blank
         /\ \E g \in Page!Effects(r) :
              /\ pageHosted' = IF g.status = "none" THEN Page!Blank ELSE g
              /\ pageKeyed' = [pageKeyed EXCEPT ![r.key] = g]
  BY DEF Page!Serves, Page!service
<1>. DEFINE Replied(v, g) ==
       /\ pageCall'.op = pageCall.op /\ pageCall'.key = pageCall.key
       /\ pageCall'.phase = pageCall.phase
       /\ pageCall' # pageCall => /\ pageCall.key = r.key /\ pageCall.phase = "sent"
                                  /\ pageCall'.reply = v /\ pageCall'.game = g
<1>. DEFINE Told ==
       \/ Replied("conflict", Page!Blank)
       \/ pageKeyed'[r.key] # Page!Blank /\ Replied("ok", pageKeyed'[r.key])
<1>4. Told /\ pageCall' \in [op : Page!Ops \cup {"none"}, key : 0..MaxKeys,
                   phase : {"idle", "sent", "recover"}, reply : {"none", "ok", "conflict"},
                   game : PageGames]
  <2>1. PageTyped
    BY DEF PageInv
  <2>2. ASSUME NEW v \in {"ok", "conflict"}, NEW g \in PageGames, Page!Replies(r, v, g)
        PROVE  /\ Replied(v, g)
               /\ pageCall' \in [op : Page!Ops \cup {"none"}, key : 0..MaxKeys,
                   phase : {"idle", "sent", "recover"}, reply : {"none", "ok", "conflict"},
                   game : PageGames]
    BY <2>1, <2>2 DEF Page!Replies, PageTyped
  <2>3. Page!Blank \in PageGames
    BY DEF Page!Blank, PageGames, Statuses
  <2>. HIDE DEF Replied
  <2>4. CASE /\ pageKeyed[r.key] # Page!Blank /\ Page!Replies(r, "ok", pageKeyed[r.key])
             /\ UNCHANGED Page!service
    <3>1. pageKeyed[r.key] \in PageGames /\ pageKeyed' = pageKeyed
      BY <1>1, <2>1, <2>4 DEF PageTyped, Page!service
    <3>. QED
      BY <2>2, <2>4, <3>1
  <2>5. ASSUME NEW g \in Page!Effects(r),
               pageKeyed' = [pageKeyed EXCEPT ![r.key] = g], Page!Replies(r, "ok", g)
        PROVE  <1>4
    <3>1. g \in PageGames /\ g # Page!Blank
      BY <1>1, <2>1, EffectsAre
    <3>2. pageKeyed'[r.key] = g
      BY <1>1, <2>1, <2>5 DEF PageTyped
    <3>. QED
      BY <2>2, <2>5, <3>1, <3>2
  <2>6. CASE Page!Replies(r, "conflict", Page!Blank)
    BY <2>2, <2>3, <2>6
  <2>. QED
    BY <2>4, <2>5, <2>6 DEF Page!Serves
<1>. HIDE DEF Replied, Told
<1>5. /\ pageHosted' \in PageGames /\ pageKeyed' \in [Page!Keys -> PageGames]
      /\ pageHosted'.id \in Page!Keys => pageKeyed'[pageHosted'.id] # Page!Blank
      /\ \A k \in Page!Keys : pageKeyed'[k] = pageKeyed[k]
           \/ /\ k = r.key /\ pageKeyed[k] = Page!Blank /\ pageKeyed'[k] # Page!Blank
              /\ pageKeyed'[k].status = "none" => r.op = "reset"
              /\ pageKeyed'[k].status = "failed" => r.op = "divide"
              /\ pageKeyed'[k].id = k => r.op \in Page!Makers \cup {"retry"}
  <2>1. PageTyped /\ (pageHosted.id \in Page!Keys => pageKeyed[pageHosted.id] # Page!Blank)
    BY DEF PageInv, KeysFit
  <2>2. CASE UNCHANGED <<pageHosted, pageKeyed>>
    BY <2>1, <2>2 DEF PageTyped
  <2>3. ASSUME pageKeyed[r.key] = Page!Blank, NEW g \in Page!Effects(r),
               pageHosted' = IF g.status = "none" THEN Page!Blank ELSE g,
               pageKeyed' = [pageKeyed EXCEPT ![r.key] = g]
        PROVE  <1>5
    <3>1. /\ g \in PageGames /\ g # Page!Blank
          /\ \/ /\ r.op \in Page!Makers \cup {"retry"} /\ g.id = r.key
                /\ g.status # "none"
                /\ g.status = "failed" => r.op = "divide"
             \/ /\ g.id = pageHosted.id
                /\ g.status = "none" => r.op = "reset"
                /\ g.status # "failed"
      BY <1>1, <2>1, EffectsAre
    <3>2. Page!Blank \in PageGames /\ Page!Blank.id \notin Page!Keys
      BY PageAssumption DEF Page!Blank, PageGames, Statuses, Page!Keys
    <3>3. \A k \in Page!Keys : pageKeyed'[k] = IF k = r.key THEN g ELSE pageKeyed[k]
      BY <1>1, <2>1, <2>3 DEF PageTyped
    <3>4. pageKeyed' \in [Page!Keys -> PageGames]
      BY <1>1, <2>1, <2>3, <3>1 DEF PageTyped
    <3>5. pageHosted' \in PageGames
      BY <2>3, <3>1, <3>2
    <3>6. pageHosted'.id \in Page!Keys => pageKeyed'[pageHosted'.id] # Page!Blank
      BY <1>1, <2>1, <2>3, <3>1, <3>2, <3>3
    <3>7. g.id = r.key => r.op \in Page!Makers \cup {"retry"}
      BY <1>1, <2>1, <2>3, <3>1
    <3>. QED
      BY <1>1, <2>3, <3>1, <3>3, <3>4, <3>5, <3>6, <3>7
  <2>. QED
    BY <1>3, <2>2, <2>3
<1>6. \A op, k : Owns(op, k)' => Owns(op, k)
  BY <1>2, <1>4 DEF Owns, Told, Replied
<1>7. Owns(r.op, r.key)
  BY DEF Owns
<1>8. PageTyped'
  BY <1>2, <1>4, <1>5 DEF PageInv, PageTyped
<1>9. KeysOwned'
  BY <1>1, <1>2, <1>5, <1>6, <1>7 DEF PageInv, KeysOwned
<1>10. KeysFit'
  BY <1>1, <1>5, <1>6, <1>7 DEF PageInv, KeysOwned, KeysFit
<1>11. CallFits'
  <2>1. CASE pageCall' = pageCall
    BY <1>1, <1>5, <2>1 DEF PageInv, CallFits, Page!NoCall
  <2>2. CASE pageCall' # pageCall
    BY <1>1, <1>4, <2>2 DEF PageInv, CallFits, Told, Replied, Page!NoCall
  <2>. QED
    BY <2>1, <2>2
<1>12. IntentsHeld'
  <2>1. \A q \in pageWire' : q \in pageWire
    BY <1>2
  <2>2. Page!GamesAreReached'
    BY <1>1, <1>2, <1>5 DEF PageInv, IntentsHeld, Page!GamesAreReached, Page!Makers
  <2>. QED
    BY <1>2, <1>4, <2>1, <2>2 DEF PageInv, IntentsHeld, Told, Replied
<1>13. LocksHeld'
  BY <1>2, <1>4 DEF PageInv, LocksHeld, PageOpen, Told, Replied
<1>14. DivisionsAlone'
  BY <1>2, <1>4 DEF PageInv, DivisionsAlone, Told, Replied
<1>15. SearchFits'
  BY <1>2 DEF PageInv, SearchFits
<1>. QED
  BY <1>8, <1>9, <1>10, <1>11, <1>12, <1>13, <1>14, <1>15 DEF PageInv

(* The network loses one.                                                  *)
LEMMA LosesKeeps ==
  ASSUME PageInv, NEW r \in pageWire, Page!Loses(r)
  PROVE  PageInv'
<1>1. /\ pageWire' = pageWire \ {r}
      /\ UNCHANGED <<pageHosted, pageKeyed, pageShown, pageIntent, pageLocked, pageCall,
                     pageRead, pageSearch, pageMinted, pageClosed>>
  BY DEF Page!Loses, Page!service, Page!screen
<1>2. PageTyped' /\ CallFits' /\ LocksHeld' /\ DivisionsAlone' /\ SearchFits'
  BY <1>1 DEF PageInv, PageTyped, CallFits, LocksHeld, PageOpen, DivisionsAlone, SearchFits
<1>3. \A op, k : Owns(op, k)' => Owns(op, k)
  BY <1>1 DEF Owns
<1>4. KeysOwned' /\ KeysFit'
  BY <1>1, <1>3 DEF PageInv, KeysOwned, KeysFit
<1>5. IntentsHeld'
  BY <1>1 DEF PageInv, IntentsHeld, Page!GamesAreReached
<1>. QED
  BY <1>2, <1>4, <1>5 DEF PageInv

(* A mutation is sent, under its kept key or a fresh one.                  *)
LEMMA SendsKeeps ==
  ASSUME PageInv, NEW op \in Page!Ops, NEW g \in PageGames, Page!Sends(op, g),
         UNCHANGED <<pageHosted, pageKeyed, pageShown>>,
         IF op = "divide"
         THEN pageShown.status \in Unmapped /\ Page!Visible
              /\ pageLocked' = pageLocked \cup {"divide"}
         ELSE /\ pageShown.status \notin Unmapped \/ op = "reset"
              /\ pageLocked' = pageLocked,
         op = "reset" => pageLocked = {} /\ pageRead' = Page!NoRead,
         op # "reset" => pageRead' = pageRead,
         pageSearch' = Page!NoSearch \/ pageSearch' = pageSearch
           \/ pageSearch' = [pageSearch EXCEPT !.live = FALSE]
  PROVE  PageInv'
<1>. DEFINE key == Page!KeyFor(op, g)
            again == Page!Retries(op, g)
<1>1. /\ pageCall.op = "none" /\ pageCall = Page!NoCall
      /\ key <= MaxKeys
      /\ pageMinted' = IF key > pageMinted THEN key ELSE pageMinted
      /\ pageClosed' = IF again THEN pageClosed ELSE pageClosed \cup Page!Kept({op})
      /\ pageIntent' = IF op = "move" \/ again THEN pageIntent
                       ELSE [pageIntent EXCEPT ![op] = [key |-> key, game |-> g]]
      /\ pageCall' = [op |-> op, key |-> key, phase |-> "sent", reply |-> "none", game |-> g]
      /\ pageWire' = pageWire \cup {[op |-> op, key |-> key, game |-> g]}
  BY DEF Page!Sends, Page!Idle, PageInv, CallFits
<1>2. /\ key \in Page!Keys /\ key \in 0..MaxKeys
      /\ pageMinted' \in 0..MaxKeys /\ pageMinted <= pageMinted' /\ key <= pageMinted'
      /\ IF again THEN pageIntent[op].key = key /\ op # "move" ELSE key > pageMinted
  <2>1. pageIntent[op].key \in 0..MaxKeys /\ pageMinted \in 0..MaxKeys
    BY DEF PageInv, PageTyped
  <2>2. CASE again
    <3>1. key = pageIntent[op].key /\ key # 0
      BY <2>2 DEF Page!KeyFor, Page!Retries
    <3>2. op # "move"
      BY <3>1 DEF PageInv, IntentsHeld
    <3>. QED
      BY <1>1, <2>1, <2>2, <3>1, <3>2, PageAssumption DEF Page!Keys
  <2>3. CASE ~again
    <3>1. key = pageMinted + 1
      BY <2>3 DEF Page!KeyFor
    <3>. QED
      BY <1>1, <2>1, <2>3, <3>1, PageAssumption DEF Page!Keys
  <2>. QED
    BY <2>2, <2>3
<1>3. \A p \in Page!Ops : pageIntent'[p] =
        IF p = op /\ op # "move" /\ ~again THEN [key |-> key, game |-> g] ELSE pageIntent[p]
  BY <1>1 DEF PageInv, PageTyped
<1>4. pageIntent[op].key # 0 => again \/ pageIntent[op].key \in pageClosed'
  BY <1>1 DEF Page!Kept
<1>5. \A k : k \in pageClosed => k \in pageClosed'
  BY <1>1
<1>. DEFINE sent == [op |-> op, key |-> key, game |-> g]
<1>6. sent \in PageRequests /\ sent.op = op /\ sent.key = key
  BY <1>2 DEF PageRequests
<1>7. PageTyped'
  <2>1. pageIntent' \in [Page!Ops -> [key : 0..MaxKeys, game : PageGames]]
    BY <1>1, <1>2 DEF PageInv, PageTyped
  <2>2. pageWire' \subseteq PageRequests
    BY <1>1, <1>6 DEF PageInv, PageTyped
  <2>3. /\ Page!NoRead \in [silent : BOOLEAN, reply : PageGames,
                            phase : {"idle", "sent", "answered"}]
        /\ Page!NoSearch \in [phase : {"idle", "searching"}, live : BOOLEAN,
                              mode : {"auto", "manual"}, on : PageGames]
    BY DEF Page!NoRead, Page!NoSearch, Page!Blank, PageGames, Statuses
  <2>4. pageSearch' \in [phase : {"idle", "searching"}, live : BOOLEAN,
                         mode : {"auto", "manual"}, on : PageGames]
    BY <2>3 DEF PageInv, PageTyped
  <2>5. pageLocked' \subseteq Page!Makers
    BY DEF PageInv, PageTyped, Page!Makers
  <2>6. pageCall' \in [op : Page!Ops \cup {"none"}, key : 0..MaxKeys,
                   phase : {"idle", "sent", "recover"}, reply : {"none", "ok", "conflict"},
                   game : PageGames]
    BY <1>1, <1>2
  <2>. HIDE DEF key, again
  <2>. QED
    BY <1>2, <2>1, <2>2, <2>3, <2>4, <2>5, <2>6 DEF PageInv, PageTyped
<1>. HIDE DEF key, again
<1>8. \A p \in Page!Ops, k \in Page!Keys :
        Owns(p, k)' => Owns(p, k) \/ (p = op /\ k = key)
  <2>. SUFFICES ASSUME NEW p \in Page!Ops, NEW k \in Page!Keys, Owns(p, k)'
                PROVE  Owns(p, k) \/ (p = op /\ k = key)
    OBVIOUS
  <2>1. CASE \E r \in pageWire' : r.op = p /\ r.key = k
    BY <1>1, <1>6, <2>1 DEF Owns
  <2>2. CASE pageIntent'[p].key = k
    BY <1>3, <2>2 DEF Owns
  <2>3. CASE pageCall'.op = p /\ pageCall'.key = k
    BY <1>1, <2>3
  <2>. QED
    BY <2>1, <2>2, <2>3 DEF Owns
<1>9. again => Owns(op, key)
  BY <1>2 DEF Owns
<1>10. KeysOwned'
  <2>1. ASSUME NEW k \in Page!Keys, NEW p \in Page!Ops, NEW q \in Page!Ops, Owns(p, k)', Owns(q, k)'
        PROVE  p = q
    <3>1. CASE again
      BY <1>8, <1>9, <2>1, <3>1 DEF PageInv, KeysOwned
    <3>2. CASE ~again
      <4>1. \A o \in Page!Ops : ~Owns(o, key)
        BY <1>2, <3>2 DEF PageInv, KeysOwned, PageTyped, Page!Keys
      <4>. QED
        BY <1>8, <2>1, <4>1 DEF PageInv, KeysOwned
    <3>. QED
      BY <3>1, <3>2
  <2>2. ASSUME NEW k \in Page!Keys, (\E p \in Page!Ops : Owns(p, k)') \/ pageKeyed'[k] # Page!Blank
        PROVE  k <= pageMinted'
    <3>1. CASE k = key
      BY <1>2, <3>1
    <3>2. CASE k # key
      <4>1. k <= pageMinted
        BY <1>8, <2>2, <3>2 DEF PageInv, KeysOwned
      <4>. QED
        BY <1>2, <4>1 DEF PageInv, PageTyped, Page!Keys
    <3>. QED
      BY <3>1, <3>2
  <2>. QED
    BY <2>1, <2>2 DEF KeysOwned
<1>11. KeysFit'
  <2>1. ~again => pageKeyed[key] = Page!Blank
    BY <1>2 DEF PageInv, KeysOwned, PageTyped, Page!Keys
  <2>. QED
    BY <1>8, <1>9, <2>1 DEF PageInv, KeysFit
<1>12. CallFits'
  BY <1>1, <1>2 DEF CallFits, Page!Ops, Page!Makers, Page!Stages
<1>13. IntentsHeld'
  <2>1. pageIntent'["move"].key = 0
    BY <1>3 DEF PageInv, IntentsHeld, Page!Ops
  <2>2. ASSUME NEW r \in pageWire', r.op # "move", r.key \notin pageClosed'
        PROVE  pageIntent'[r.op].key = r.key
    <3>1. CASE r = sent
      BY <1>2, <1>3, <1>6, <2>2, <3>1
    <3>2. CASE r \in pageWire
      <4>1. pageIntent[r.op].key = r.key /\ r.op \in Page!Ops /\ r.key # 0
        BY <1>5, <2>2, <3>2 DEF PageInv, PageTyped, PageRequests, IntentsHeld, Page!Keys
      <4>. QED
        BY <1>3, <1>4, <2>2, <4>1
    <3>. QED
      BY <1>1, <2>2, <3>1, <3>2
  <2>3. pageCall'.op # "move" => pageIntent'[pageCall'.op].key = pageCall'.key
    BY <1>1, <1>2, <1>3
  <2>4. Page!GamesAreReached'
    <3>1. ASSUME NEW k \in Page!Keys, pageKeyed[k].id = k, k \notin pageClosed'
          PROVE  \E p \in Page!Makers \cup {"retry"} : pageIntent'[p].key = k
      <4>1. PICK p \in Page!Makers \cup {"retry"} : pageIntent[p].key = k
        BY <1>5, <3>1 DEF PageInv, IntentsHeld, Page!GamesAreReached
      <4>2. p \in Page!Ops /\ k # 0
        BY DEF Page!Ops, Page!Keys
      <4>. QED
        BY <1>3, <1>4, <3>1, <4>1, <4>2
    <3>. QED
      BY <3>1 DEF Page!GamesAreReached
  <2>. QED
    BY <2>1, <2>2, <2>3, <2>4 DEF IntentsHeld
<1>14. LocksHeld'
  <2>1. ASSUME NEW m \in Page!Makers, PageOpen(m)'
        PROVE  pageCall'.op # "reset" /\ (pageCall'.key = pageIntent'[m].key \/ m \in pageLocked')
    <3>1. m \in Page!Ops /\ m # "reset" /\ m # "move"
      BY DEF Page!Ops, Page!Makers
    <3>2. CASE m = op
      BY <1>1, <1>2, <1>3, <3>1, <3>2
    <3>3. CASE m # op
      <4>1. PageOpen(m) /\ pageIntent'[m] = pageIntent[m]
        BY <1>3, <1>5, <2>1, <3>1, <3>3 DEF PageOpen
      <4>2. pageCall.key # pageIntent[m].key
        BY <1>1, <4>1 DEF PageOpen, Page!NoCall
      <4>3. m \in pageLocked
        BY <4>1, <4>2 DEF PageInv, LocksHeld
      <4>. QED
        BY <1>1, <4>3
    <3>. QED
      BY <3>2, <3>3
  <2>. QED
    BY <2>1 DEF LocksHeld
<1>15. DivisionsAlone'
  <2>1. CASE op = "divide"
    <3>1. pageRead.phase = "idle" /\ pageRead' = pageRead
      BY <2>1 DEF PageInv, DivisionsAlone, Page!Visible
    <3>2. pageIntent'["divide"].key = key
      BY <1>2, <1>3, <2>1
    <3>. QED
      BY <1>1, <2>1, <3>1, <3>2 DEF DivisionsAlone
  <2>2. CASE op # "divide"
    <3>1. "divide" \in Page!Ops
      BY DEF Page!Ops, Page!Makers
    <3>2. pageIntent'["divide"].key = pageIntent["divide"].key
      BY <1>3, <2>2, <3>1
    <3>3. pageIntent["divide"].key = 0
      BY <2>2 DEF PageInv, DivisionsAlone
    <3>4. op = "reset" => pageRead'.phase = "idle"
      BY DEF Page!NoRead
    <3>. QED
      BY <1>1, <2>2, <3>2, <3>3, <3>4 DEF PageInv, DivisionsAlone
  <2>. QED
    BY <2>1, <2>2
<1>16. SearchFits'
  BY DEF PageInv, PageTyped, SearchFits, Page!NoSearch
<1>. QED
  BY <1>7, <1>10, <1>11, <1>12, <1>13, <1>14, <1>15, <1>16 DEF PageInv

(* Every operation that sends.                                             *)
LEMMA SendingKeeps ==
  ASSUME PageInv,
         \/ Page!AnalyzeProblem \/ Page!BeginPlay \/ Page!MovePiece
         \/ \E op \in Page!Stages : Page!Advance(op)
         \/ Page!ReplayProblem \/ Page!RetryLifecyclePath \/ Page!TrackWilbur \/ Page!Reset
  PROVE  PageInv'
<1>1. /\ pageShown \in PageGames /\ Page!Blank \in PageGames
      /\ {"divide", "start", "move", "replay", "retry", "wilbur", "reset"} \cup Page!Stages
           \subseteq Page!Ops
  BY DEF PageInv, PageTyped, Page!Blank, PageGames, Statuses, Page!Ops, Page!Makers
<1>2. CASE Page!AnalyzeProblem
  <2>1. /\ Page!Sends("divide", Page!Blank)
        /\ UNCHANGED <<pageHosted, pageKeyed, pageShown, pageRead, pageSearch>>
        /\ pageShown.status \in Unmapped /\ Page!Visible
        /\ pageLocked' = pageLocked \cup {"divide"}
    BY <1>2 DEF Page!AnalyzeProblem, Page!service, Unmapped
  <2>. QED
    BY <1>1, <2>1, SendsKeeps
<1>3. ASSUME NEW op \in {"start", "move", "replay", "retry", "wilbur"} \cup Page!Stages,
             Page!Sends(op, pageShown), pageShown.status \in Page!Needs(op),
             UNCHANGED <<pageHosted, pageKeyed, pageShown, pageLocked, pageRead, pageSearch>>
      PROVE  PageInv'
  <2>1. op \in Page!Ops /\ op # "divide" /\ op # "reset"
    BY <1>1 DEF Page!Stages
  <2>2. pageShown.status \notin Unmapped
    BY <1>3 DEF Page!Needs, Unmapped, Page!Stages
  <2>. QED
    BY <1>1, <1>3, <2>1, <2>2, SendsKeeps
<1>4. CASE Page!BeginPlay
  BY <1>3, <1>4 DEF Page!BeginPlay, Page!service
<1>5. CASE Page!MovePiece
  BY <1>3, <1>5 DEF Page!MovePiece, Page!service
<1>6. CASE \E op \in Page!Stages : Page!Advance(op)
  BY <1>3, <1>6 DEF Page!Advance, Page!service
<1>7. CASE Page!ReplayProblem
  BY <1>3, <1>7 DEF Page!ReplayProblem, Page!service
<1>8. CASE Page!RetryLifecyclePath
  BY <1>3, <1>8 DEF Page!RetryLifecyclePath, Page!service
<1>9. CASE Page!TrackWilbur
  BY <1>3, <1>9 DEF Page!TrackWilbur, Page!service
<1>10. CASE Page!Reset
  <2>1. /\ Page!Sends("reset", pageShown)
        /\ UNCHANGED <<pageHosted, pageKeyed, pageShown, pageLocked>>
        /\ pageLocked = {} /\ pageRead' = Page!NoRead
        /\ pageSearch' = [pageSearch EXCEPT !.live = FALSE]
    BY <1>10 DEF Page!Reset, Page!Resettable, Page!service
  <2>. QED
    BY <1>1, <2>1, SendsKeeps
<1>. QED
  BY <1>2, <1>4, <1>5, <1>6, <1>7, <1>8, <1>9, <1>10

(* The page lets go of keys whose fate it knows, and of no lock that an    *)
(* open one needs.                                                         *)
PageLetsGo ==
  /\ UNCHANGED <<pageHosted, pageKeyed, pageWire, pageMinted>>
  /\ \A k : k \in pageClosed => k \in pageClosed'
  /\ \A p \in Page!Ops :
       \/ pageIntent'[p] = pageIntent[p]
       \/ pageIntent'[p] = Page!NoIntent /\ pageIntent[p].key \in pageClosed' \cup {0}
  /\ \A m \in pageLocked :
       \/ m \in pageLocked'
       \/ pageIntent'[m].key = 0
       \/ pageIntent'[m].key \in pageClosed' /\ m # "divide"

PageCalls ==
  \/ pageCall' = pageCall
  \/ /\ pageCall.op \in Page!Recovering
     /\ pageCall' = [pageCall EXCEPT !.phase = "recover", !.reply = "none"]
  \/ /\ pageCall' = Page!NoCall
     /\ pageCall.op \in Page!Makers => pageCall.key \in pageClosed' \/ pageCall.op \in pageLocked'

LEMMA LettingGoKeeps ==
  ASSUME PageInv, PageLetsGo, PageCalls
  PROVE  KeysOwned' /\ KeysFit' /\ CallFits' /\ IntentsHeld' /\ LocksHeld'
<1>1. \/ pageCall'.op = pageCall.op /\ pageCall'.key = pageCall.key
      \/ pageCall' = Page!NoCall
  BY DEF PageCalls, PageInv, PageTyped
<1>2. \A p \in Page!Ops : pageIntent'[p].key \in {pageIntent[p].key, 0}
  BY DEF PageLetsGo, Page!NoIntent
<1>3. \A p \in Page!Ops, k \in Page!Keys : Owns(p, k)' => Owns(p, k)
  <2>. SUFFICES ASSUME NEW p \in Page!Ops, NEW k \in Page!Keys, Owns(p, k)'
                PROVE  Owns(p, k)
    OBVIOUS
  <2>1. k # 0
    BY DEF Page!Keys
  <2>. QED
    BY <1>1, <1>2, <2>1 DEF Owns, PageLetsGo, Page!NoCall
<1>4. KeysOwned'
  BY <1>3 DEF PageInv, KeysOwned, PageLetsGo
<1>5. KeysFit'
  BY <1>3 DEF PageInv, KeysFit, PageLetsGo
<1>6. CallFits'
  <2>1. CASE pageCall' = pageCall
    BY <2>1 DEF PageInv, CallFits, PageLetsGo
  <2>2. CASE pageCall' = Page!NoCall
    BY <2>2 DEF CallFits, Page!NoCall
  <2>3. CASE /\ pageCall.op \in Page!Recovering
             /\ pageCall' = [pageCall EXCEPT !.phase = "recover", !.reply = "none"]
    <3>1. /\ pageCall'.op = pageCall.op /\ pageCall'.key = pageCall.key
          /\ pageCall'.reply = "none" /\ pageCall.op # "none"
      BY <2>3 DEF PageInv, PageTyped, Page!Recovering, Page!Makers
    <3>. QED
      BY <2>3, <3>1 DEF PageInv, CallFits
  <2>. QED
    BY <2>1, <2>2, <2>3 DEF PageCalls
<1>7. IntentsHeld'
  <2>1. pageIntent'["move"].key = 0
    BY <1>2 DEF PageInv, IntentsHeld, Page!Ops
  <2>2. ASSUME NEW r \in pageWire', r.op # "move", r.key \notin pageClosed'
        PROVE  pageIntent'[r.op].key = r.key
    <3>1. pageIntent[r.op].key = r.key /\ r.op \in Page!Ops /\ r.key # 0
      BY <2>2 DEF PageInv, PageTyped, PageRequests, IntentsHeld, Page!Keys, PageLetsGo
    <3>. QED
      BY <2>2, <3>1 DEF PageLetsGo
  <2>3. ASSUME pageCall'.op \notin {"none", "move"}
        PROVE  \/ pageIntent'[pageCall'.op].key = pageCall'.key
               \/ pageIntent'[pageCall'.op].key = 0 /\ pageCall'.key \in pageClosed'
    <3>1. /\ pageCall'.op = pageCall.op /\ pageCall'.key = pageCall.key
          /\ pageCall.op \in Page!Ops /\ pageCall.key # 0
      BY <1>1, <2>3 DEF Page!NoCall, PageInv, PageTyped, CallFits, Page!Keys
    <3>2. \/ pageIntent[pageCall.op].key = pageCall.key
          \/ pageIntent[pageCall.op].key = 0 /\ pageCall.key \in pageClosed'
      BY <2>3, <3>1 DEF PageInv, IntentsHeld, PageLetsGo
    <3>. QED
      BY <1>2, <3>1, <3>2 DEF PageLetsGo
  <2>4. Page!GamesAreReached'
    <3>1. ASSUME NEW k \in Page!Keys, pageKeyed[k].id = k, k \notin pageClosed'
          PROVE  \E p \in Page!Makers \cup {"retry"} : pageIntent'[p].key = k
      <4>1. PICK p \in Page!Makers \cup {"retry"} : pageIntent[p].key = k
        BY <3>1 DEF PageInv, IntentsHeld, Page!GamesAreReached, PageLetsGo
      <4>2. p \in Page!Ops /\ k # 0
        BY DEF Page!Ops, Page!Keys
      <4>. QED
        BY <3>1, <4>1, <4>2 DEF PageLetsGo
    <3>. QED
      BY <3>1 DEF Page!GamesAreReached, PageLetsGo
  <2>. QED
    BY <2>1, <2>2, <2>3, <2>4 DEF IntentsHeld
<1>8. LocksHeld'
  <2>. SUFFICES ASSUME NEW m \in Page!Makers, PageOpen(m)'
                PROVE  pageCall'.op # "reset" /\ (pageCall'.key = pageIntent'[m].key \/ m \in pageLocked')
    BY DEF LocksHeld
  <2>1. m \in Page!Ops
    BY DEF Page!Ops
  <2>2. pageIntent'[m] = pageIntent[m] /\ PageOpen(m)
    BY <2>1 DEF PageLetsGo, PageOpen, Page!NoIntent
  <2>3. pageCall.op # "reset" /\ (pageCall.key = pageIntent[m].key \/ m \in pageLocked)
    BY <2>2 DEF PageInv, LocksHeld
  <2>4. m \in pageLocked => m \in pageLocked'
    BY DEF PageLetsGo, PageOpen
  <2>5. CASE pageCall'.op = pageCall.op /\ pageCall'.key = pageCall.key
    BY <2>2, <2>3, <2>4, <2>5
  <2>6. CASE pageCall' = Page!NoCall
    <3>1. pageCall'.op # "reset"
      BY <2>6 DEF Page!NoCall
    <3>2. CASE pageCall.key = pageIntent[m].key
      <4>1. pageCall.key \in Page!Keys
        BY <2>1, <2>2, <3>2 DEF PageInv, PageTyped, PageOpen, Page!Keys
      <4>2. pageCall.op \in Page!Ops
        BY <4>1 DEF PageInv, PageTyped, CallFits, Page!NoCall, Page!Keys
      <4>3. m = pageCall.op
        BY <2>1, <3>2, <4>1, <4>2 DEF PageInv, KeysOwned, Owns
      <4>4. pageCall.key \notin pageClosed'
        BY <2>2, <3>2 DEF PageOpen
      <4>5. CASE pageCall' = pageCall
        BY <2>6, <4>1, <4>5 DEF Page!NoCall, Page!Keys
      <4>6. CASE pageCall' = [pageCall EXCEPT !.phase = "recover", !.reply = "none"]
        <5>1. pageCall'.key = pageCall.key
          BY <4>6 DEF PageInv, PageTyped
        <5>. QED
          BY <2>6, <4>1, <5>1 DEF Page!NoCall, Page!Keys
      <4>. QED
        BY <3>1, <4>3, <4>4, <4>5, <4>6 DEF PageCalls
    <3>. QED
      BY <2>3, <2>4, <3>1, <3>2
  <2>. QED
    BY <1>1, <2>5, <2>6
<1>. QED
  BY <1>4, <1>5, <1>6, <1>7, <1>8

LEMMA PageTypes ==
  /\ Page!Blank \in PageGames
  /\ Page!NoIntent \in [key : 0..MaxKeys, game : PageGames] /\ Page!NoIntent.key = 0
  /\ Page!NoRead \in [silent : BOOLEAN, reply : PageGames, phase : {"idle", "sent", "answered"}]
  /\ Page!NoRead.phase = "idle"
  /\ [silent |-> FALSE, reply |-> Page!Blank, phase |-> "sent"]
       \in [silent : BOOLEAN, reply : PageGames, phase : {"idle", "sent", "answered"}]
  /\ Page!NoSearch \in [phase : {"idle", "searching"}, live : BOOLEAN,
                        mode : {"auto", "manual"}, on : PageGames]
  /\ ~Page!NoSearch.live
  /\ Page!NoCall \in [op : Page!Ops \cup {"none"}, key : 0..MaxKeys,
                   phase : {"idle", "sent", "recover"}, reply : {"none", "ok", "conflict"},
                   game : PageGames]
  BY PageAssumption DEF Page!Blank, Page!NoIntent, Page!NoRead, Page!NoSearch, Page!NoCall,
       PageGames, Statuses

LEMMA ForgetIs ==
  ASSUME PageTyped, NEW ops, Page!Forget(ops)
  PROVE  /\ pageIntent' \in [Page!Ops -> [key : 0..MaxKeys, game : PageGames]]
         /\ \A p \in Page!Ops :
              pageIntent'[p] = IF p \in ops THEN Page!NoIntent ELSE pageIntent[p]
  BY PageTypes DEF PageTyped, Page!Forget

LEMMA SearchDies ==
  ASSUME PageTyped, pageSearch' = [pageSearch EXCEPT !.live = FALSE]
  PROVE  /\ pageSearch' \in [phase : {"idle", "searching"}, live : BOOLEAN,
                             mode : {"auto", "manual"}, on : PageGames]
         /\ SearchFits'
  BY DEF PageTyped, SearchFits

LEMMA CallIs ==
  ASSUME PageInv, pageCall # Page!NoCall
  PROVE  /\ pageCall.op \in Page!Ops /\ pageCall.key \in Page!Keys /\ pageCall.key # 0
         /\ Owns(pageCall.op, pageCall.key)
         /\ pageIntent[pageCall.op].key \in {pageCall.key, 0}
<1>1. pageCall.op \in Page!Ops /\ pageCall.key \in Page!Keys /\ pageCall.key # 0
  BY DEF PageInv, PageTyped, CallFits, Page!Keys
<1>2. pageCall.op # "none"
  BY DEF PageInv, CallFits
<1>. QED
  BY <1>1, <1>2 DEF PageInv, IntentsHeld, Owns

(* A game the service made under the key of the request shows its end.     *)
LEMMA AppliesKeeps ==
  ASSUME PageInv, pageCall # Page!NoCall, NEW plays,
         pageKeyed[pageCall.key] # Page!Blank, pageKeyed[pageCall.key].status # "none",
         Page!Learns({pageCall.key}), Page!Forget({pageCall.op, "divide"}),
         pageLocked' = pageLocked \ {pageCall.op, "divide"},
         Page!Applies(pageKeyed[pageCall.key], plays), pageCall' = Page!NoCall,
         UNCHANGED <<pageHosted, pageKeyed, pageWire, pageRead, pageMinted>>
  PROVE  PageInv'
<1>. DEFINE op == pageCall.op  key == pageCall.key
<1>1. /\ op \in Page!Ops /\ key \in Page!Keys /\ key # 0 /\ Owns(op, key)
      /\ pageIntent[op].key \in {key, 0}
  BY CallIs
<1>2. /\ pageIntent' \in [Page!Ops -> [key : 0..MaxKeys, game : PageGames]]
      /\ \A p \in Page!Ops :
           pageIntent'[p] = IF p \in {op, "divide"} THEN Page!NoIntent ELSE pageIntent[p]
  BY ForgetIs DEF PageInv
<1>3. pageClosed' = pageClosed \cup {key}
  BY DEF Page!Learns
<1>4. /\ pageShown' = pageKeyed[key] /\ pageSearch' = [pageSearch EXCEPT !.live = FALSE]
      /\ pageShown' \in PageGames
  BY <1>1 DEF Page!Applies, PageInv, PageTyped
<1>5. op # "none" /\ (op # "divide" => pageIntent["divide"].key = 0)
  BY DEF PageInv, CallFits, DivisionsAlone
<1>6. PageLetsGo /\ PageCalls
  <2>1. ASSUME NEW p \in Page!Ops
        PROVE  \/ pageIntent'[p] = pageIntent[p]
               \/ /\ pageIntent'[p] = Page!NoIntent
                  /\ pageIntent[p].key \in pageClosed' \cup {0}
    BY <1>1, <1>2, <1>3, <1>5
  <2>2. ASSUME NEW m \in pageLocked
        PROVE  m \in pageLocked' \/ pageIntent'[m].key = 0
    <3>1. m \in Page!Ops
      BY DEF PageInv, PageTyped, Page!Ops
    <3>. QED
      BY <1>2, <3>1, PageTypes
  <2>3. PageLetsGo
    BY <1>3, <2>1, <2>2 DEF PageLetsGo
  <2>. QED
    BY <1>3, <2>3 DEF PageCalls
<1>7. PageTyped'
  BY <1>2, <1>4, PageTypes, SearchDies DEF PageInv, PageTyped
<1>8. SearchFits'
  BY <1>4, SearchDies DEF PageInv
<1>9. DivisionsAlone'
  <2>1. pageIntent'["divide"].key = 0
    BY <1>2, PageTypes DEF Page!Ops, Page!Makers
  <2>2. ASSUME pageShown'.status \in Unmapped
        PROVE  pageRead.phase = "idle"
    <3>1. op = "divide"
      BY <1>1, <1>4, <2>2 DEF PageInv, KeysFit, Unmapped
    <3>. QED
      BY <1>1, <3>1 DEF PageInv, DivisionsAlone
  <2>. QED
    BY <2>1, <2>2 DEF DivisionsAlone, Page!NoCall
<1>. QED
  BY <1>6, <1>7, <1>8, <1>9, LettingGoKeeps DEF PageInv

LEMMA SucceedsKeeps ==
  ASSUME PageInv, Page!Succeeds
  PROVE  PageInv'
<1>1. pageCall.reply = "ok" /\ pageCall # Page!NoCall
  BY DEF Page!Succeeds, Page!NoCall
<1>2. pageKeyed[pageCall.key] # Page!Blank /\ pageCall.game = pageKeyed[pageCall.key]
  BY <1>1 DEF PageInv, CallFits
<1>3. /\ pageCall.op \in Page!Ops /\ pageCall.key \in Page!Keys
      /\ Owns(pageCall.op, pageCall.key)
  BY <1>1, CallIs
<1>4. /\ pageCall' = Page!NoCall
      /\ UNCHANGED <<pageHosted, pageKeyed, pageWire, pageRead, pageMinted>>
  BY DEF Page!Succeeds, Page!service
<1>5. CASE pageCall.op = "reset" \/ pageCall.game.status = "none"
  <2>1. pageCall.op = "reset"
    BY <1>2, <1>3, <1>5 DEF PageInv, KeysFit
  <2>2. /\ Page!Forget(Page!Ops) /\ pageLocked' = {} /\ pageShown' = Page!Blank
        /\ pageSearch' = [pageSearch EXCEPT !.live = FALSE]
        /\ pageClosed' = pageClosed \cup ({pageCall.key} \cup Page!Kept(Page!Ops \ Page!Makers))
    BY <1>5 DEF Page!Succeeds, Page!StartsOver, Page!Learns
  <2>3. /\ pageIntent' \in [Page!Ops -> [key : 0..MaxKeys, game : PageGames]]
        /\ \A p \in Page!Ops : pageIntent'[p] = Page!NoIntent
    BY <2>2, ForgetIs DEF PageInv
  <2>4. \A p \in Page!Ops : pageIntent[p].key \in pageClosed' \cup {0}
    <3>1. ASSUME NEW p \in Page!Ops
          PROVE  pageIntent[p].key \in pageClosed' \cup {0}
      <4>1. CASE p \in Page!Makers
        BY <2>1, <2>2, <4>1 DEF PageInv, LocksHeld, PageOpen
      <4>2. CASE p \notin Page!Makers
        BY <2>2, <4>2 DEF Page!Kept
      <4>. QED
        BY <4>1, <4>2
    <3>. QED
      BY <3>1
  <2>5. PageLetsGo
    <3>1. \A m \in pageLocked : pageIntent'[m].key = 0
      BY <2>3, PageTypes DEF PageInv, PageTyped, Page!Ops
    <3>. QED
      BY <1>4, <2>2, <2>3, <2>4, <3>1 DEF PageLetsGo
  <2>6. PageCalls
    BY <1>4, <2>2 DEF PageCalls
  <2>7. PageTyped'
    BY <1>4, <2>2, <2>3, PageTypes, SearchDies DEF PageInv, PageTyped
  <2>8. SearchFits'
    BY <2>2, SearchDies DEF PageInv
  <2>9. DivisionsAlone'
    <3>1. pageIntent'["divide"].key = 0
      BY <2>3, PageTypes DEF Page!Ops, Page!Makers
    <3>. QED
      BY <1>4, <2>1, <3>1 DEF PageInv, DivisionsAlone, Page!NoCall
  <2>. QED
    BY <2>5, <2>6, <2>7, <2>8, <2>9, LettingGoKeeps DEF PageInv
<1>6. CASE ~(pageCall.op = "reset" \/ pageCall.game.status = "none")
  <2>1. /\ Page!Forget({pageCall.op, "divide"}) /\ Page!Learns({pageCall.key})
        /\ pageLocked' = pageLocked \ {pageCall.op, "divide"}
        /\ Page!Applies(pageCall.game, pageCall.op = "move")
    BY <1>6 DEF Page!Succeeds
  <2>. QED
    BY <1>1, <1>2, <1>4, <1>6, <2>1, AppliesKeeps
<1>. QED
  BY <1>5, <1>6

LEMMA RecoversFoundKeeps ==
  ASSUME PageInv, Page!RecoversFound
  PROVE  PageInv'
<1>1. pageCall.phase = "recover" /\ pageCall # Page!NoCall /\ pageCall.op \in Page!Recovering
  BY DEF PageInv, CallFits, Page!RecoversFound, Page!NoCall
<1>2. /\ pageKeyed[pageCall.key] # Page!Blank
      /\ Page!Learns({pageCall.key}) /\ Page!Forget({pageCall.op, "divide"})
      /\ pageLocked' = pageLocked \ {pageCall.op, "divide"}
      /\ Page!Applies(pageKeyed[pageCall.key], FALSE) /\ pageCall' = Page!NoCall
      /\ UNCHANGED <<pageHosted, pageKeyed, pageWire, pageRead, pageMinted>>
  BY DEF Page!RecoversFound, Page!service
<1>3. pageKeyed[pageCall.key].status # "none"
  <2>1. /\ pageCall.op \in Page!Ops /\ pageCall.key \in Page!Keys
        /\ Owns(pageCall.op, pageCall.key)
    BY <1>1, CallIs
  <2>2. pageCall.op # "reset"
    BY <1>1 DEF Page!Recovering, Page!Makers
  <2>. QED
    BY <1>2, <2>1, <2>2 DEF PageInv, KeysFit
<1>. QED
  BY <1>1, <1>2, <1>3, AppliesKeeps

LEMMA ConflictsKeeps ==
  ASSUME PageInv, Page!Conflicts
  PROVE  PageInv'
<1>. DEFINE op == pageCall.op  key == pageCall.key
<1>1. /\ pageCall # Page!NoCall /\ op # "divide" /\ pageCall' = Page!NoCall
      /\ pageClosed' = pageClosed \cup {key}
      /\ Page!Forget(IF op \in Page!Stages THEN {} ELSE {op})
      /\ pageLocked' = pageLocked \ {op}
      /\ UNCHANGED <<pageHosted, pageKeyed, pageWire, pageShown, pageSearch, pageMinted>>
      /\ \/ pageRead' = pageRead
         \/ pageRead' = [silent |-> FALSE, reply |-> Page!Blank, phase |-> "sent"]
  BY DEF Page!Conflicts, Page!NoCall, Page!service, Page!Learns, Page!Restores
<1>2. /\ op \in Page!Ops /\ key \in Page!Keys /\ key # 0
      /\ pageIntent[op].key \in {key, 0}
  BY <1>1, CallIs
<1>3. /\ pageIntent' \in [Page!Ops -> [key : 0..MaxKeys, game : PageGames]]
      /\ \A p \in Page!Ops :
           pageIntent'[p] = IF p = op /\ op \notin Page!Stages THEN Page!NoIntent ELSE pageIntent[p]
  BY <1>1, ForgetIs DEF PageInv
<1>4. pageIntent["divide"].key = 0 /\ "divide" \in Page!Ops
  BY <1>1, <1>2 DEF PageInv, CallFits, DivisionsAlone, Page!Ops, Page!Makers
<1>5. PageLetsGo /\ PageCalls
  <2>1. ASSUME NEW m \in pageLocked
        PROVE  m \in pageLocked' \/ pageIntent'[m].key = 0
    <3>1. CASE m = op
      <4>1. op \notin Page!Stages
        BY <3>1 DEF PageInv, PageTyped, Page!Makers, Page!Stages
      <4>. QED
        BY <1>2, <1>3, <3>1, <4>1, PageTypes
    <3>. QED
      BY <1>1, <3>1
  <2>2. PageLetsGo
    BY <1>1, <1>2, <1>3, <2>1 DEF PageLetsGo
  <2>. QED
    BY <1>1, <2>2 DEF PageCalls
<1>6. PageTyped'
  <2>1. pageRead' \in [silent : BOOLEAN, reply : PageGames, phase : {"idle", "sent", "answered"}]
    <3>1. pageRead \in [silent : BOOLEAN, reply : PageGames, phase : {"idle", "sent", "answered"}]
      BY DEF PageInv, PageTyped
    <3>. QED
      BY <1>1, <3>1, PageTypes, Zenon
  <2>. QED
    BY <1>1, <1>3, <2>1, PageTypes DEF PageInv, PageTyped
<1>7. SearchFits'
  BY <1>1 DEF PageInv, SearchFits
<1>8. DivisionsAlone'
  <2>1. pageIntent'["divide"].key = 0
    BY <1>1, <1>3, <1>4
  <2>. QED
    BY <1>1, <2>1 DEF PageInv, DivisionsAlone, Page!NoCall
<1>. QED
  BY <1>5, <1>6, <1>7, <1>8, LettingGoKeeps DEF PageInv

LEMMA FailsInTransportKeeps ==
  ASSUME PageInv, Page!FailsInTransport
  PROVE  PageInv'
<1>1. /\ pageCall # Page!NoCall
      /\ pageCall' = IF pageCall.op \in Page!Recovering
                     THEN [pageCall EXCEPT !.phase = "recover", !.reply = "none"]
                     ELSE Page!NoCall
      /\ UNCHANGED <<pageHosted, pageKeyed, pageWire, pageShown, pageIntent, pageLocked,
                     pageSearch, pageMinted, pageClosed>>
      /\ \/ pageRead' = pageRead
         \/ /\ pageCall.op = "move"
            /\ pageRead' = [silent |-> FALSE, reply |-> Page!Blank, phase |-> "sent"]
  BY DEF Page!FailsInTransport, Page!NoCall, Page!service, Page!Restores
<1>2. /\ pageCall'.op \in {pageCall.op, "none"}
      /\ pageCall'.op # "none" => pageCall'.key = pageCall.key
      /\ pageCall' \in [op : Page!Ops \cup {"none"}, key : 0..MaxKeys,
                   phase : {"idle", "sent", "recover"}, reply : {"none", "ok", "conflict"},
                   game : PageGames]
  BY <1>1, PageTypes DEF PageInv, PageTyped, Page!NoCall
<1>3. PageLetsGo /\ PageCalls
  BY <1>1 DEF PageLetsGo, PageCalls, Page!Recovering
<1>4. PageTyped'
  <2>1. pageRead' \in [silent : BOOLEAN, reply : PageGames, phase : {"idle", "sent", "answered"}]
    <3>1. pageRead \in [silent : BOOLEAN, reply : PageGames, phase : {"idle", "sent", "answered"}]
      BY DEF PageInv, PageTyped
    <3>. QED
      BY <1>1, <3>1, PageTypes, Zenon
  <2>. QED
    BY <1>1, <1>2, <2>1 DEF PageInv, PageTyped
<1>5. SearchFits'
  BY <1>1 DEF PageInv, SearchFits
<1>6. DivisionsAlone'
  <2>1. pageCall.op # "none"
    BY <1>1 DEF PageInv, CallFits
  <2>. QED
    BY <1>1, <1>2, <2>1 DEF PageInv, DivisionsAlone
<1>. QED
  BY <1>3, <1>4, <1>5, <1>6, LettingGoKeeps DEF PageInv

LEMMA FailsInServiceKeeps ==
  ASSUME PageInv, Page!FailsInService
  PROVE  PageInv'
<1>. DEFINE op == pageCall.op  key == pageCall.key
<1>1. /\ pageCall # Page!NoCall
      /\ UNCHANGED <<pageHosted, pageKeyed, pageWire, pageShown, pageRead,
                     pageSearch, pageMinted>>
  BY DEF Page!FailsInService, Page!NoCall, Page!service
<1>2. /\ op \in Page!Ops /\ key \in Page!Keys /\ key # 0
      /\ pageIntent[op].key \in {key, 0}
  BY <1>1, CallIs
<1>3. CASE op \in Page!Recovering \ {"replay"}
  <2>1. /\ pageCall' = [pageCall EXCEPT !.phase = "recover", !.reply = "none"]
        /\ UNCHANGED <<pageIntent, pageClosed, pageLocked>>
    BY <1>3 DEF Page!FailsInService
  <2>2. /\ pageCall'.op = op /\ pageCall'.key = key
        /\ pageCall' \in [op : Page!Ops \cup {"none"}, key : 0..MaxKeys,
                   phase : {"idle", "sent", "recover"}, reply : {"none", "ok", "conflict"},
                   game : PageGames]
    BY <2>1 DEF PageInv, PageTyped
  <2>3. PageLetsGo /\ PageCalls
    BY <1>1, <1>3, <2>1 DEF PageLetsGo, PageCalls
  <2>4. PageTyped' /\ SearchFits' /\ DivisionsAlone'
    BY <1>1, <2>1, <2>2 DEF PageInv, PageTyped, SearchFits, DivisionsAlone
  <2>. QED
    BY <2>3, <2>4, LettingGoKeeps DEF PageInv
<1>4. CASE op \notin Page!Recovering \ {"replay"}
  <2>1. /\ pageCall' = Page!NoCall
        /\ Page!Forget({op}) \/ (op \in Page!Stages /\ UNCHANGED pageIntent)
        /\ pageLocked' = pageLocked \ {op}
        /\ pageClosed' = pageClosed \cup {key}
    BY <1>4 DEF Page!FailsInService, Page!Learns
  <2>2. /\ pageIntent' \in [Page!Ops -> [key : 0..MaxKeys, game : PageGames]]
        /\ \A p \in Page!Ops :
             \/ pageIntent'[p] = pageIntent[p] /\ (p = op => op \in Page!Stages)
             \/ p = op /\ pageIntent'[p] = Page!NoIntent
    <3>1. CASE Page!Forget({op})
      BY <3>1, ForgetIs DEF PageInv
    <3>2. CASE op \in Page!Stages /\ UNCHANGED pageIntent
      BY <3>2 DEF PageInv, PageTyped
    <3>. QED
      BY <2>1, <3>1, <3>2
  <2>3. PageLetsGo
    <3>1. ASSUME NEW m \in pageLocked
          PROVE  m \in pageLocked' \/ pageIntent'[m].key = 0
      <4>1. CASE m = op
        <5>1. op \notin Page!Stages
          BY <4>1 DEF PageInv, PageTyped, Page!Makers, Page!Stages
        <5>. QED
          BY <1>2, <2>2, <4>1, <5>1, PageTypes
      <4>. QED
        BY <2>1, <4>1
    <3>. QED
      BY <1>1, <1>2, <2>1, <2>2, <3>1 DEF PageLetsGo
  <2>4. PageCalls
    BY <2>1 DEF PageCalls
  <2>5. PageTyped' /\ SearchFits'
    BY <1>1, <2>1, <2>2, PageTypes DEF PageInv, PageTyped, SearchFits
  <2>6. DivisionsAlone'
    <3>1. op # "divide" /\ op # "none"
      BY <1>1, <1>4 DEF Page!Recovering, Page!Makers, PageInv, CallFits
    <3>2. pageIntent["divide"].key = 0 /\ "divide" \in Page!Ops
      BY <3>1 DEF PageInv, DivisionsAlone, Page!Ops, Page!Makers
    <3>3. pageIntent'["divide"].key = 0
      BY <2>2, <3>2, PageTypes
    <3>. QED
      BY <1>1, <2>1, <3>3 DEF PageInv, DivisionsAlone, Page!NoCall
  <2>. QED
    BY <2>3, <2>4, <2>5, <2>6, LettingGoKeeps DEF PageInv
<1>. QED
  BY <1>3, <1>4

LEMMA RecoversNothingKeeps ==
  ASSUME PageInv, Page!RecoversNothing
  PROVE  PageInv'
<1>1. /\ pageCall' = Page!NoCall
      /\ pageLocked' = pageLocked \cup (Page!Makers \cap {pageCall.op})
      /\ UNCHANGED <<pageHosted, pageKeyed, pageWire, pageShown, pageIntent, pageRead,
                     pageSearch, pageMinted, pageClosed>>
  BY DEF Page!RecoversNothing, Page!KeepsDoubt, Page!service
<1>2. PageLetsGo /\ PageCalls
  BY <1>1 DEF PageLetsGo, PageCalls
<1>3. PageTyped' /\ SearchFits'
  BY <1>1, PageTypes DEF PageInv, PageTyped, SearchFits
<1>4. DivisionsAlone'
  BY <1>1 DEF PageInv, DivisionsAlone, Page!NoCall
<1>. QED
  BY <1>2, <1>3, <1>4, LettingGoKeeps DEF PageInv

(* A read is asked for, answered or lost.                                  *)
LEMMA ReadingKeeps ==
  ASSUME PageInv, Page!Poll \/ Page!ServesRead \/ Page!FailsToRead
  PROVE  PageInv'
<1>1. UNCHANGED <<pageHosted, pageKeyed, pageWire, pageShown, pageIntent, pageLocked, pageCall,
                  pageSearch, pageMinted, pageClosed>>
  BY DEF Page!Poll, Page!ServesRead, Page!FailsToRead, Page!service, Page!screen
<1>2. PageLetsGo /\ PageCalls
  BY <1>1 DEF PageLetsGo, PageCalls
<1>3. SearchFits'
  BY <1>1 DEF PageInv, SearchFits
<1>4. /\ pageRead' \in [silent : BOOLEAN, reply : PageGames, phase : {"idle", "sent", "answered"}]
      /\ \/ pageRead'.phase = "idle"
         \/ pageRead.phase # "idle" /\ pageRead'.silent = pageRead.silent
         \/ pageShown.status = "gated" /\ pageCall.op = "answer"
  <2>1. CASE Page!Poll
    BY <2>1, PageTypes DEF Page!Poll
  <2>2. CASE Page!ServesRead
    BY <2>2 DEF Page!ServesRead, PageInv, PageTyped
  <2>3. CASE Page!FailsToRead
    BY <2>3, PageTypes DEF Page!FailsToRead
  <2>. QED
    BY <2>1, <2>2, <2>3
<1>5. PageTyped'
  BY <1>1, <1>4 DEF PageInv, PageTyped
<1>6. DivisionsAlone'
  BY <1>1, <1>4 DEF PageInv, DivisionsAlone, Unmapped
<1>. QED
  BY <1>2, <1>3, <1>5, <1>6, LettingGoKeeps DEF PageInv

(* The latest read shows the game the service has, or that there is none.  *)
LEMMA RestoresGameKeeps ==
  ASSUME PageInv, Page!RestoresGame
  PROVE  PageInv'
<1>1. /\ pageRead.phase = "answered" /\ pageRead' = Page!NoRead
      /\ UNCHANGED <<pageHosted, pageKeyed, pageWire, pageCall, pageMinted>>
      /\ pageSearch' = [pageSearch EXCEPT !.live = FALSE]
      /\ pageShown' \in PageGames
  BY PageTypes DEF Page!RestoresGame, Page!StartsOver, Page!Applies, Page!service, PageInv, PageTyped
<1>2. pageIntent["divide"].key = 0 /\ pageCall.op # "divide"
  <2>1. pageIntent["divide"].key = 0
    BY <1>1 DEF PageInv, DivisionsAlone
  <2>2. pageCall.op = "divide" => pageCall.key # 0
    BY DEF PageInv, CallFits, Page!Keys
  <2>. QED
    BY <2>1, <2>2 DEF PageInv, DivisionsAlone
<1>3. /\ pageIntent' \in [Page!Ops -> [key : 0..MaxKeys, game : PageGames]]
      /\ \A k : k \in pageClosed => k \in pageClosed'
      /\ \A p \in Page!Ops :
           \/ pageIntent'[p] = pageIntent[p]
           \/ pageIntent'[p] = Page!NoIntent /\ pageIntent[p].key \in pageClosed' \cup {0}
      /\ pageLocked' \subseteq pageLocked
      /\ \A m \in pageLocked : m \in pageLocked' \/ pageIntent'[m].key = 0
      /\ pageIntent'["divide"].key = 0
  <2>0. "divide" \in Page!Ops /\ \A m \in pageLocked : m \in Page!Ops
    BY DEF PageInv, PageTyped, Page!Ops, Page!Makers
  <2>1. CASE pageRead.reply = Page!Blank
    <3>1. /\ Page!Forget(Page!Ops) /\ pageLocked' = {}
          /\ pageClosed' = pageClosed \cup Page!Kept(Page!Ops)
      BY <2>1 DEF Page!RestoresGame, Page!StartsOver, Page!Learns
    <3>2. /\ pageIntent' \in [Page!Ops -> [key : 0..MaxKeys, game : PageGames]]
          /\ \A p \in Page!Ops : pageIntent'[p] = Page!NoIntent
      BY <3>1, ForgetIs DEF PageInv
    <3>3. \A p \in Page!Ops : pageIntent[p].key \in pageClosed' \cup {0}
      BY <3>1 DEF Page!Kept
    <3>. QED
      BY <2>0, <3>1, <3>2, <3>3, PageTypes
  <2>2. CASE pageRead.reply # Page!Blank
    <3>1. /\ Page!Forget({"divide"}) /\ pageLocked' = pageLocked \ {"divide"}
          /\ pageClosed' = pageClosed \cup {pageRead.reply.id}
      BY <2>2 DEF Page!RestoresGame, Page!Learns
    <3>2. /\ pageIntent' \in [Page!Ops -> [key : 0..MaxKeys, game : PageGames]]
          /\ \A p \in Page!Ops :
               pageIntent'[p] = IF p \in {"divide"} THEN Page!NoIntent ELSE pageIntent[p]
      BY <3>1, ForgetIs DEF PageInv
    <3>. QED
      BY <1>2, <2>0, <3>1, <3>2, PageTypes
  <2>. QED
    BY <2>1, <2>2
<1>4. PageLetsGo /\ PageCalls
  BY <1>1, <1>3 DEF PageLetsGo, PageCalls
<1>5. PageTyped'
  BY <1>1, <1>3, PageTypes, SearchDies DEF PageInv, PageTyped
<1>6. SearchFits'
  BY <1>1, SearchDies DEF PageInv
<1>7. DivisionsAlone'
  BY <1>1, <1>2, <1>3, PageTypes DEF DivisionsAlone
<1>. QED
  BY <1>4, <1>5, <1>6, <1>7, LettingGoKeeps DEF PageInv

(* A search begins on the game that is shown, and only auto-play ends one. *)
LEMMA PlayingKeeps ==
  ASSUME PageInv, Page!PlayOneTurn \/ Page!ToggleAutoPlay
  PROVE  PageInv'
<1>1. UNCHANGED <<pageHosted, pageKeyed, pageWire, pageShown, pageIntent, pageLocked, pageCall,
                  pageRead, pageMinted, pageClosed>>
  BY DEF Page!PlayOneTurn, Page!ToggleAutoPlay, Page!service, Page!screen
<1>2. PageLetsGo /\ PageCalls
  BY <1>1 DEF PageLetsGo, PageCalls
<1>3. /\ pageSearch' \in [phase : {"idle", "searching"}, live : BOOLEAN,
                          mode : {"auto", "manual"}, on : PageGames]
      /\ SearchFits'
  <2>1. CASE Page!PlayOneTurn
    BY <2>1 DEF Page!PlayOneTurn, Page!screen, PageInv, PageTyped, SearchFits
  <2>2. CASE Page!ToggleAutoPlay
    BY <1>1, <2>2 DEF Page!ToggleAutoPlay, PageInv, PageTyped, SearchFits
  <2>. QED
    BY <2>1, <2>2
<1>4. PageTyped' /\ DivisionsAlone'
  BY <1>1, <1>3 DEF PageInv, PageTyped, DivisionsAlone
<1>. QED
  BY <1>2, <1>3, <1>4, LettingGoKeeps DEF PageInv

LEMMA SearchSettlesKeeps ==
  ASSUME PageInv, Page!SearchSettles
  PROVE  PageInv'
<1>1. /\ pageSearch' = Page!NoSearch
      /\ UNCHANGED <<pageHosted, pageKeyed, pageSources, pageShown, pageLocked, pageRead>>
  BY DEF Page!SearchSettles, Page!service
<1>2. CASE UNCHANGED <<pageCall, pageWire, pageIntent, pageMinted, pageClosed>>
  <2>1. PageLetsGo /\ PageCalls
    BY <1>1, <1>2 DEF PageLetsGo, PageCalls
  <2>2. PageTyped' /\ DivisionsAlone' /\ SearchFits'
    BY <1>1, <1>2, PageTypes DEF PageInv, PageTyped, DivisionsAlone, SearchFits
  <2>. QED
    BY <2>1, <2>2, LettingGoKeeps DEF PageInv
<1>3. CASE Page!Current /\ Page!Sends("move", pageSearch.on)
  <2>1. pageSearch.on \in PageGames /\ pageShown.status \notin Unmapped
    BY <1>3 DEF Page!Current, PageInv, PageTyped, SearchFits, Unmapped
  <2>2. "move" \in Page!Ops
    BY DEF Page!Ops
  <2>. QED
    BY <1>1, <1>3, <2>1, <2>2, SendsKeeps
<1>. QED
  BY <1>2, <1>3 DEF Page!SearchSettles

LEMMA PageBegins == Page!Init => PageInv
<1>. SUFFICES ASSUME Page!Init
              PROVE  PageInv
  OBVIOUS
<1>1. /\ pageKeyed = [k \in Page!Keys |-> Page!Blank] /\ pageWire = {}
      /\ pageShown = Page!Blank /\ pageIntent = [op \in Page!Ops |-> Page!NoIntent]
      /\ pageLocked = {} /\ pageCall = Page!NoCall
      /\ pageRead = [Page!NoRead EXCEPT !.phase = "sent"] /\ pageSearch = Page!NoSearch
      /\ pageMinted = 0 /\ pageClosed = {}
  BY DEF Page!Init
<1>2. pageHosted \in PageGames /\ pageHosted.id \notin Page!Keys
  BY PageAssumption DEF Page!Init, Page!Saved, Page!Blank, PageGames, Statuses, Page!Keys
<1>3. \A op \in Page!Ops : pageIntent[op].key = 0
  BY <1>1, PageTypes
<1>4. /\ pageRead \in [silent : BOOLEAN, reply : PageGames, phase : {"idle", "sent", "answered"}]
      /\ ~pageRead.silent
  BY <1>1, PageTypes DEF Page!NoRead
<1>5. PageTyped
  BY <1>1, <1>2, <1>4, PageTypes, PageAssumption DEF PageTyped
<1>6. \A op \in Page!Ops, k \in Page!Keys : ~Owns(op, k)
  BY <1>1, <1>3 DEF Owns, Page!NoCall, Page!Keys
<1>7. \A k \in Page!Keys : pageKeyed[k] = Page!Blank /\ Page!Blank.id # k
  BY <1>1 DEF Page!Blank, Page!Keys
<1>8. KeysOwned /\ KeysFit
  BY <1>2, <1>6, <1>7 DEF KeysOwned, KeysFit
<1>9. CallFits /\ SearchFits
  BY <1>1, PageTypes DEF CallFits, SearchFits, Page!NoCall
<1>10. IntentsHeld /\ LocksHeld
  BY <1>1, <1>3, <1>7 DEF IntentsHeld, LocksHeld, PageOpen, Page!GamesAreReached, Page!NoCall,
       Page!Ops, Page!Makers
<1>11. DivisionsAlone
  BY <1>1, <1>3, <1>4 DEF DivisionsAlone, Page!NoCall, Page!Ops, Page!Makers
<1>. QED
  BY <1>5, <1>8, <1>9, <1>10, <1>11 DEF PageInv

LEMMA PageSteps == PageInv /\ Page!Next => PageInv'
  BY ServesKeeps, LosesKeeps, SendingKeeps, SucceedsKeeps, ConflictsKeeps,
     FailsInTransportKeeps, FailsInServiceKeeps, RecoversFoundKeeps, RecoversNothingKeeps,
     ReadingKeeps, RestoresGameKeeps, PlayingKeeps, SearchSettlesKeeps DEF Page!Next

LEMMA PageRests == PageInv /\ UNCHANGED pageVars => PageInv'
<1>. SUFFICES ASSUME PageInv, UNCHANGED pageVars
              PROVE  PageInv'
  OBVIOUS
<1>1. PageLetsGo /\ PageCalls
  BY DEF PageLetsGo, PageCalls, pageVars
<1>2. PageTyped' /\ DivisionsAlone' /\ SearchFits'
  BY DEF PageInv, PageTyped, DivisionsAlone, SearchFits, pageVars
<1>. QED
  BY <1>1, <1>2, LettingGoKeeps DEF PageInv

LEMMA PageShows == PageInv => Page!ClientIsCareful
<1>. SUFFICES ASSUME PageInv
              PROVE  Page!ClientIsCareful
  OBVIOUS
<1>1. ASSUME NEW r \in pageWire, r.op # "move", r.key \notin pageClosed
      PROVE  /\ pageIntent[r.op].key = r.key
             /\ r.op \in Page!Makers => pageCall.key = r.key \/ r.op \in pageLocked
  <2>1. pageIntent[r.op].key = r.key /\ r.key # 0
    BY <1>1 DEF PageInv, PageTyped, PageRequests, IntentsHeld, Page!Keys
  <2>. QED
    BY <1>1, <2>1 DEF PageInv, LocksHeld, PageOpen
<1>2. Page!DoubtsAreHeld
  BY <1>1 DEF Page!DoubtsAreHeld
<1>3. Page!GamesAreReached /\ Page!EngineMovesFit
  BY DEF PageInv, IntentsHeld, SearchFits, Page!EngineMovesFit
<1>. QED
  BY <1>2, <1>3 DEF Page!ClientIsCareful

(* The page's invariant holds while it is the component under check.       *)
THEOREM PageInvariant == MCSpec => [](part = "page" => PageInv)
<1>. DEFINE Inv == part = "page" => PageInv
<1>1. MCInit => Inv
  BY PageBegins DEF MCInit
<1>2. Inv /\ [MCNext]_<<part, divisionVars, lineVars, facadeVars, pageVars, bridgeVars,
                        caseVars>> => Inv'
  <2>. SUFFICES ASSUME Inv, [MCNext]_<<part, divisionVars, lineVars, facadeVars, pageVars,
                                       bridgeVars, caseVars>>,
                       part' = "page"
                PROVE  PageInv'
    OBVIOUS
  <2>1. CASE PageStep
    BY <2>1, PageSteps DEF PageStep
  <2>2. CASE UNCHANGED pageVars /\ part' = part
    BY <2>2, PageRests
  <2>. QED
    BY <2>1, <2>2 DEF MCNext, DivisionStep, LineageStep, FacadeStep, BridgeStep, CaseStep
<1>. QED
  BY <1>1, <1>2, PTL DEF MCSpec


(* The page keeps the key of every request whose fate it does not know,    *)
(* locks "new question" while that is a division or a replay, loses no     *)
(* game the service made for it, and searches only for the game it shows.  *)
THEOREM PageAlwaysCareful == MCSpec => []ClientIsCareful
<1>1. (part = "page" => PageInv) => ClientIsCareful
  BY PageShows DEF ClientIsCareful
<1>. QED
  BY <1>1, PageInvariant, PTL

-----------------------------------------------------------------------------
(* The case.                                                               *)

CaseRequests == Members(CaseOrder)
CaseStates == {"mapped", "playing", "completed", "answering", "answer_failed", "answered", "abandoned"}
CaseMove == [revision : Nat, source : {"client", "server"}]
CaseGames == [child : BOOLEAN, consent : BOOLEAN, status : CaseStates, revision : Nat,
              events : Seq(CaseMove)]
CaseRuns == [state : Case!LifecycleStates \cup {None}, child : BOOLEAN, record : BOOLEAN,
             active : CaseRequests \cup {None}, failed : [Case!Stages -> 0..FailureLimit]]
CaseResearch == [status : {"absent", "not_needed", "searching", "completed", "failed"},
                 sources : Seq(Nat), facts : SUBSET Nat, failures : SUBSET Nat]
CaseArtifacts == [review : CaseRequests \cup {None}, gate : {None, "passed", "failed"},
                  result : CaseRequests \cup {None}, actions : Nat, notes : Seq(Nat),
                  research : CaseResearch]
CaseCalls == [stage : Case!Stages \cup {None},
              status : {"absent", "in_progress", "succeeded", "failed", "indeterminate"}]

CaseTyped ==
  /\ caseGame \in CaseGames /\ caseRun \in CaseRuns
  /\ caseLog \in Seq((Case!LifecycleStates \cup {None}) \X Case!LifecycleStates)
  /\ caseArtifacts \in CaseArtifacts
  /\ caseRequests \in [CaseRequests -> CaseCalls]
  /\ caseAnswers \in Nat

EndedStates == {"completed", "answering", "answer_failed", "answered"}

(* A game's events are revisions that follow one another, none of them     *)
(* past the row's; the row stands at its last move until the game is over  *)
(* and answered, or given up.                                              *)
MovesFit(g) ==
  /\ Case!GroupsVerify(g.events)
  /\ Len(g.events) <= LastPly
  /\ g.status = "mapped" => g.events = <<>>
  /\ g.status \in EndedStates => Case!Over(g.events)
  /\ g.status = "playing" => ~Case!Over(g.events)
  /\ \A n \in DOMAIN g.events : g.events[n].revision <= g.revision
  /\ g.events # <<>> =>
       LET last == g.events[Len(g.events)].revision
       IN  IF g.status \in {"playing", "completed"} THEN g.revision = last
                                                       ELSE g.revision > last

(* The activities are one legal history up to the run's state, unless the  *)
(* run was made for a game given up.                                       *)
Begins(child) == IF child THEN <<None, "chess_ready">> ELSE <<"anansi_pending", "anansi_running">>
HistoryFits(run, log) ==
  IF run.state = None THEN log = <<>>
  ELSE IF run.state = "abandoned" THEN log = SubSeq(Case!Bootstrap, 1, 3) /\ ~run.child
  ELSE /\ log # <<>>
       /\ log[1] = Begins(run.child)
       /\ \A n \in DOMAIN log : n > 1 => log[n][1] = log[n - 1][2] /\ Case!Legal(log[n][1], log[n][2])
       /\ log[Len(log)][2] = run.state

(* A run past its game has a finished one, and its record from the moment  *)
(* it moves on.                                                            *)
RunFits(run, events) ==
  /\ run.state \in Case!TerminalEvidence => Case!Over(events)
  /\ run.state \in Case!TerminalEvidence \ {"chess_terminal"} => run.record
  /\ run.record => run.state \in Case!TerminalEvidence
  /\ \A s \in Case!Stages : run.state = Case!Unavailable[s] => run.failed[s] = FailureLimit

Succeeded(calls, r, s) == calls[r] = [stage |-> s, status |-> "succeeded"]

(* What a state calls for is stored, and was paid for; a stage that runs,  *)
(* and no other, has its request.                                          *)
WorkFits(run, artifacts, calls) ==
  /\ run.state \in Case!PortiaEvidence => artifacts.review # None
  /\ run.state \in Case!GateEvidence => artifacts.gate # None
  /\ run.state \in Case!GateEvidence => (artifacts.gate = "failed" <=> run.state \in Case!GateRefused)
  /\ run.state \in Case!Executable => artifacts.result # None
  /\ artifacts.actions # 0 => run.state \in Case!Executable \ {"charlotte_complete"}
  /\ artifacts.review # None => Succeeded(calls, artifacts.review, "portia")
  /\ artifacts.result # None => Succeeded(calls, artifacts.result, "charlotte")
  /\ \A r \in CaseRequests : calls[r].stage = None <=> calls[r].status = "absent"
  /\ \A s \in Case!Stages :
       run.state = Case!Running[s] => run.active # None /\ calls[run.active].stage = s
  /\ run.state \notin {Case!Running[s] : s \in Case!Stages} => run.active = None

(* Sources are numbered as they were found, a few of them with their page  *)
(* or the failure to read it, and all for a player who consented.          *)
ResearchFits(r, consent, k) ==
  /\ r.sources = [i \in 1..k |-> i]
  /\ r.facts \cup r.failures \subseteq 1..k
  /\ Cardinality(r.facts \cup r.failures) <= FetchLimit
  /\ r.facts \cap r.failures = {}
  /\ consent \/ (k = 0 /\ r.status \in {"absent", "not_needed"})

(* Observations are of Wilbur's actions, and the research fits.            *)
NotesFit(artifacts, consent) ==
  /\ \A n \in DOMAIN artifacts.notes : artifacts.notes[n] \in 1..artifacts.actions
  /\ \E k \in 0..SourceLimit : ResearchFits(artifacts.research, consent, k)

CaseInv ==
  /\ CaseTyped
  /\ MovesFit(caseGame)
  /\ HistoryFits(caseRun, caseLog)
  /\ RunFits(caseRun, caseGame.events)
  /\ WorkFits(caseRun, caseArtifacts, caseRequests)
  /\ NotesFit(caseArtifacts, caseGame.consent)

(* The state a run advances to, by the table of legal transitions.         *)
LEMMA CaseLegal ==
  /\ Case!Legal("anansi_running", "field_ready") /\ Case!Legal("field_ready", "chess_ready")
  /\ Case!Legal("anansi_pending", "anansi_running")
  /\ Case!Legal("chess_ready", "chess_playing") /\ Case!Legal("chess_playing", "chess_terminal")
  /\ Case!Legal("chess_terminal", "portia_pending")
  /\ Case!Legal("portia_pending", "portia_pending")
  /\ \A s \in Case!Stages :
       /\ Case!Legal(Case!Pending[s], Case!Running[s])
       /\ Case!Legal(Case!Running[s], Case!Complete[s])
       /\ Case!Legal(Case!Running[s], Case!Pending[s])
       /\ Case!Legal(Case!Running[s], Case!Unavailable[s])
  /\ Case!Legal("portia_complete", "gate_passed") /\ Case!Legal("portia_complete", "gate_failed")
  /\ Case!Legal("gate_passed", "charlotte_pending")
  /\ Case!Legal("gate_failed", "insufficient_basis") /\ Case!Legal("gate_failed", "retry_ready")
  /\ Case!Legal("insufficient_basis", "retry_ready") /\ Case!Legal("retry_ready", "retry_running")
  /\ Case!Legal("charlotte_complete", "wilbur_planning")
  /\ Case!Legal("charlotte_complete", "charlotte_complete")
  /\ \A w \in {"wilbur_planning", "wilbur_in_progress", "wilbur_observed"} :
       Case!Legal(w, w) /\ Case!Legal(w, "wilbur_observed")
  /\ Case!Legal("wilbur_planning", "wilbur_in_progress")
  /\ Case!Legal("wilbur_observed", "wilbur_in_progress")
BY DEF Case!Legal, Case!CanTransition, Case!LifecycleStates, Case!Transitions, Case!Stages,
  Case!Pending, Case!Running, Case!Complete, Case!Unavailable

(* A run that advances keeps one legal history.                            *)
LEMMA HistoryGrows ==
  ASSUME CaseInv, caseRun.state \notin {None, "abandoned"},
         NEW row \in CaseRuns, row.state = caseRun.state, row.child = caseRun.child,
         NEW to, Case!Legal(caseRun.state, to), to \notin {None, "abandoned"},
         Case!Advances(row, to)
  PROVE  /\ caseRun' = [row EXCEPT !.state = to] /\ caseRun' \in CaseRuns
         /\ caseLog' \in Seq((Case!LifecycleStates \cup {None}) \X Case!LifecycleStates)
         /\ HistoryFits(caseRun, caseLog)'
<1> DEFINE L == Len(caseLog)
<1>1. /\ caseRun' = [row EXCEPT !.state = to]
      /\ caseLog' = Append(caseLog, <<caseRun.state, to>>)
      /\ to \in Case!LifecycleStates /\ caseRun.state \in Case!LifecycleStates
  BY DEF Case!Advances, Case!Legal
<1>2. caseRun' \in CaseRuns
  BY <1>1 DEF CaseRuns
<1>3. caseLog \in Seq((Case!LifecycleStates \cup {None}) \X Case!LifecycleStates)
  BY DEF CaseInv, CaseTyped
<1>4. caseLog' \in Seq((Case!LifecycleStates \cup {None}) \X Case!LifecycleStates)
  <2>1. <<caseRun.state, to>> \in (Case!LifecycleStates \cup {None}) \X Case!LifecycleStates
    BY <1>1
  <2>. QED  BY <1>1, <1>3, <2>1
<1>5. /\ caseLog # <<>> /\ caseLog[1] = Begins(caseRun.child)
      /\ \A n \in DOMAIN caseLog : n > 1 =>
           caseLog[n][1] = caseLog[n - 1][2] /\ Case!Legal(caseLog[n][1], caseLog[n][2])
      /\ caseLog[L][2] = caseRun.state
  BY DEF CaseInv, HistoryFits
<1>6. /\ L \in Nat \ {0} /\ DOMAIN caseLog = 1..L /\ DOMAIN caseLog' = 1..(L + 1)
      /\ Len(caseLog') = L + 1
      /\ \A n \in 1..L : caseLog'[n] = caseLog[n]
      /\ caseLog'[L + 1] = <<caseRun.state, to>>
  BY <1>1, <1>3, <1>5
<1>7. caseRun'.state = to /\ caseRun'.child = caseRun.child
  BY <1>1 DEF CaseRuns
<1>8. caseLog' # <<>> /\ caseLog'[1] = Begins(caseRun'.child)
  BY <1>5, <1>6, <1>7
<1>9. ASSUME NEW n \in DOMAIN caseLog', n > 1
      PROVE  caseLog'[n][1] = caseLog'[n - 1][2] /\ Case!Legal(caseLog'[n][1], caseLog'[n][2])
  <2>1. CASE n = L + 1
    BY <2>1, <1>5, <1>6, <1>9
  <2>2. CASE n \in 1..L
    <3>1. n - 1 \in 1..L  BY <2>2, <1>6, <1>9
    <3>. QED  BY <2>2, <3>1, <1>5, <1>6, <1>9
  <2>. QED  BY <2>1, <2>2, <1>6
<1>10. caseLog'[Len(caseLog')][2] = caseRun'.state
  BY <1>6, <1>7
<1>11. HistoryFits(caseRun, caseLog)'
  BY <1>7, <1>8, <1>9, <1>10 DEF HistoryFits
<1>. QED  BY <1>1, <1>2, <1>4, <1>11

(* What an action on the run starts from.                                  *)
LEMMA CaseFacts ==
  ASSUME CaseInv
  PROVE  /\ caseGame \in CaseGames /\ caseRun \in CaseRuns /\ caseArtifacts \in CaseArtifacts
         /\ caseRequests \in [CaseRequests -> CaseCalls]
         /\ MovesFit(caseGame) /\ RunFits(caseRun, caseGame.events)
         /\ WorkFits(caseRun, caseArtifacts, caseRequests)
         /\ NotesFit(caseArtifacts, caseGame.consent)
         /\ None \notin Case!LifecycleStates /\ None \notin CaseRequests
         /\ None \notin {"passed", "failed"}
BY CaseAssumption DEF CaseInv, CaseTyped, CaseRequests

(* A statement of the game keeps the rest of its case: a finished game     *)
(* stays finished.                                                         *)
LEMMA GameStatementKept ==
  ASSUME CaseInv, caseGame' \in CaseGames, MovesFit(caseGame'),
         caseGame'.consent = caseGame.consent,
         Case!Over(caseGame.events) => Case!Over(caseGame'.events),
         UNCHANGED <<caseRun, caseLog, caseArtifacts, caseRequests>>, caseAnswers' \in Nat
  PROVE  CaseInv'
<1>1. CaseTyped'
  BY DEF CaseInv, CaseTyped
<1>2. MovesFit(caseGame)' /\ HistoryFits(caseRun, caseLog)'
  BY DEF CaseInv
<1>3. RunFits(caseRun, caseGame.events)'
  BY DEF CaseInv, RunFits
<1>4. WorkFits(caseRun, caseArtifacts, caseRequests)' /\ NotesFit(caseArtifacts, caseGame.consent)'
  BY DEF CaseInv
<1>. QED  BY <1>1, <1>2, <1>3, <1>4 DEF CaseInv

(* One that leaves the events alone keeps them behind the row.             *)
LEMMA StatusKept ==
  ASSUME CaseInv, NEW status \in CaseStates \ {"mapped"},
         Case!GameMoves(status, caseGame.events), caseAnswers' \in Nat,
         \/ caseGame.events = <<>> /\ caseGame.status = "mapped" /\ status = "playing"
         \/ caseGame.status \in EndedStates /\ status \in EndedStates \ {"completed"}
         \/ status = "abandoned"
  PROVE  CaseInv'
<1> DEFINE next == [caseGame EXCEPT !.status = status, !.revision = @ + 1]
<1>1. caseGame \in CaseGames /\ MovesFit(caseGame)
  BY DEF CaseInv, CaseTyped
<1>2. /\ caseGame' \in CaseGames /\ caseGame'.status = status
      /\ caseGame'.revision = caseGame.revision + 1 /\ caseGame'.events = caseGame.events
      /\ caseGame'.consent = caseGame.consent
      /\ UNCHANGED <<caseRun, caseLog, caseArtifacts, caseRequests>>
  <2>1. /\ caseGame' = [caseGame EXCEPT !.status = status, !.revision = @ + 1,
                                       !.events = caseGame.events]
        /\ UNCHANGED <<caseRun, caseLog, caseArtifacts, caseRequests>>
    BY DEF Case!GameMoves
  <2>2. /\ caseGame.revision \in Nat /\ caseGame.events \in Seq(CaseMove)
        /\ caseGame.child \in BOOLEAN /\ caseGame.consent \in BOOLEAN
    BY <1>1 DEF CaseGames
  <2>3. caseGame' = [child |-> caseGame.child, consent |-> caseGame.consent, status |-> status,
                     revision |-> caseGame.revision + 1, events |-> caseGame.events]
    BY <1>1, <2>1 DEF CaseGames
  <2>. QED  BY <2>1, <2>2, <2>3 DEF CaseGames
<1>3. /\ caseGame.revision \in Nat /\ caseGame.events \in Seq(CaseMove)
      /\ \A n \in DOMAIN caseGame.events : caseGame.events[n].revision \in Nat
  <2>1. caseGame.revision \in Nat /\ caseGame.events \in Seq(CaseMove)
    BY <1>1 DEF CaseGames
  <2>2. \A n \in DOMAIN caseGame.events : caseGame.events[n] \in CaseMove
    BY <2>1
  <2>. QED  BY <2>1, <2>2 DEF CaseMove
<1>4. MovesFit(caseGame')
  <2>1. /\ Case!GroupsVerify(caseGame'.events)
        /\ Len(caseGame'.events) <= LastPly
        /\ caseGame'.status # "mapped"
    BY <1>1, <1>2 DEF MovesFit
  <2>2. caseGame'.status \in EndedStates => Case!Over(caseGame'.events)
    BY <1>1, <1>2 DEF MovesFit, EndedStates
  <2>3. caseGame'.status = "playing" => ~Case!Over(caseGame'.events)
    BY <1>1, <1>2, CaseAssumption DEF MovesFit, EndedStates, Case!Over
  <2>4. \A n \in DOMAIN caseGame'.events : caseGame'.events[n].revision <= caseGame'.revision
    BY <1>1, <1>2, <1>3 DEF MovesFit
  <2>5. ASSUME caseGame'.events # <<>>
        PROVE  LET last == caseGame'.events[Len(caseGame'.events)].revision
               IN  IF caseGame'.status \in {"playing", "completed"} THEN caseGame'.revision = last
                                                                   ELSE caseGame'.revision > last
    <3>1. Len(caseGame.events) \in DOMAIN caseGame.events
      BY <2>5, <1>2, <1>3
    <3>2. caseGame'.status \notin {"playing", "completed"}
      BY <2>5, <1>2 DEF EndedStates
    <3>. QED  BY <3>1, <3>2, <1>1, <1>2, <1>3 DEF MovesFit
  <2>. QED  BY <2>1, <2>2, <2>3, <2>4, <2>5 DEF MovesFit
<1>. QED  BY <1>2, <1>4, GameStatementKept

(* A move is made at the next revision, and the passes it forces with it.  *)
LEMMA MoveKept ==
  ASSUME CaseInv, Case!AppendMove
  PROVE  CaseInv'
<1>1. PICK passed \in 0..1 :
        LET of(source) == [revision |-> caseGame.revision + 1, source |-> source]
            moved == Append(caseGame.events, of("client"))
            events == IF passed = 1 /\ ~Case!Over(moved) THEN Append(moved, of("server")) ELSE moved
        IN  Case!GameMoves(IF Case!Over(events) THEN "completed" ELSE "playing", events)
  BY DEF Case!AppendMove
<1> DEFINE old == caseGame.events
           rev == caseGame.revision + 1
           L == Len(old)
           move == [revision |-> rev, source |-> "client"]
           pass == [revision |-> rev, source |-> "server"]
           moved == Append(old, move)
           new == IF passed = 1 /\ ~Case!Over(moved) THEN Append(moved, pass) ELSE moved
<1>2. /\ caseGame \in CaseGames /\ MovesFit(caseGame) /\ caseGame.status = "playing"
      /\ caseAnswers' \in Nat
  BY DEF CaseInv, CaseTyped, Case!AppendMove
<1>3. /\ rev \in Nat \ {0} /\ old \in Seq(CaseMove) /\ L \in Nat /\ L < LastPly /\ DOMAIN old = 1..L
      /\ \A n \in 1..L :
           old[n] \in CaseMove /\ old[n].revision \in Nat /\ old[n].revision < rev
      /\ L > 0 => old[L].revision = rev - 1
      /\ move \in CaseMove /\ pass \in CaseMove
  <2>1. old \in Seq(CaseMove) /\ caseGame.revision \in Nat
    BY <1>2 DEF CaseGames
  <2>2. ~Case!Over(old)
    BY <1>2 DEF MovesFit
  <2>3. L \in Nat /\ L < LastPly /\ DOMAIN old = 1..L
    BY <2>1, <2>2, CaseAssumption DEF Case!Over
  <2>4. \A n \in 1..L : old[n] \in CaseMove /\ old[n].revision <= caseGame.revision
    BY <2>1, <2>3, <1>2 DEF MovesFit
  <2>5. L > 0 => old[L].revision = caseGame.revision
    BY <2>1, <2>3, <1>2 DEF MovesFit
  <2>6. move \in CaseMove /\ pass \in CaseMove
    BY <2>1 DEF CaseMove
  <2>. QED  BY <2>1, <2>3, <2>4, <2>5, <2>6 DEF CaseMove
<1>4. /\ moved \in Seq(CaseMove) /\ Len(moved) = L + 1 /\ DOMAIN moved = 1..(L + 1)
      /\ \A n \in 1..L : moved[n] = old[n]
      /\ moved[L + 1] = move
  BY <1>3
<1>5. Case!GroupsVerify(old)
  BY <1>2 DEF MovesFit
<1>6. Case!GroupsVerify(moved)
  <2>1. ASSUME NEW n \in 1..(L + 1)
        PROVE  /\ IF n = 1 \/ moved[n].revision # moved[n - 1].revision
                  THEN /\ moved[n].source = "client"
                       /\ n > 1 => moved[n].revision = moved[n - 1].revision + 1
                  ELSE moved[n].source = "server"
               /\ moved[n].revision > 0
    <3>1. CASE n = L + 1
      <4>1. moved[n] = move
        BY <3>1, <1>4
      <4>2. n > 1 => moved[n - 1] = old[L] /\ old[L].revision = rev - 1
        BY <3>1, <1>3, <1>4
      <4>. QED  BY <4>1, <4>2, <1>3
    <3>2. CASE n \in 1..L
      <4>1. moved[n] = old[n] /\ (n > 1 => moved[n - 1] = old[n - 1])
        BY <3>2, <1>3, <1>4
      <4>2. /\ IF n = 1 \/ old[n].revision # old[n - 1].revision
               THEN /\ old[n].source = "client"
                    /\ n > 1 => old[n].revision = old[n - 1].revision + 1
               ELSE old[n].source = "server"
            /\ old[n].revision > 0
        BY <3>2, <1>3, <1>5 DEF Case!GroupsVerify
      <4>. QED  BY <3>2, <4>1, <4>2
    <3>. QED  BY <3>1, <3>2, <2>1, <1>3
  <2>. QED  BY <2>1, <1>4 DEF Case!GroupsVerify
<1>m. /\ move \in CaseMove /\ pass \in CaseMove /\ move.revision = rev /\ pass.revision = rev
      /\ pass.source = "server"
  BY <1>3
<1> HIDE DEF move, pass, moved
<1>7. /\ new \in Seq(CaseMove) /\ Len(new) \in {L + 1, L + 2} /\ Len(new) <= LastPly
      /\ DOMAIN new = 1..Len(new) /\ Case!GroupsVerify(new)
      /\ \A n \in 1..Len(new) : new[n].revision <= rev
      /\ new[Len(new)].revision = rev
  <2>1. CASE passed = 1 /\ ~Case!Over(moved)
    <3>1. /\ new = Append(moved, pass) /\ new \in Seq(CaseMove) /\ Len(new) = L + 2
          /\ DOMAIN new = 1..(L + 2) /\ new[L + 2] = pass
          /\ \A n \in 1..(L + 1) : new[n] = moved[n]
      BY <2>1, <1>m, <1>4
    <3> HIDE DEF new
    <3>2. L + 2 <= LastPly
      BY <2>1, <1>3, <1>4, CaseAssumption DEF Case!Over
    <3>3. ASSUME NEW n \in 1..(L + 2)
          PROVE  /\ IF n = 1 \/ new[n].revision # new[n - 1].revision
                    THEN /\ new[n].source = "client"
                         /\ n > 1 => new[n].revision = new[n - 1].revision + 1
                    ELSE new[n].source = "server"
                 /\ new[n].revision > 0
      <4>1. CASE n = L + 2
        <5>1. new[n] = pass /\ new[n - 1] = move /\ n # 1
          BY <4>1, <3>1, <1>3, <1>4
        <5>. QED  BY <5>1, <1>3, <1>m
      <4>2. CASE n \in 1..(L + 1)
        <5>1. new[n] = moved[n] /\ (n > 1 => new[n - 1] = moved[n - 1])
          BY <4>2, <3>1, <1>3
        <5>. QED  BY <4>2, <5>1, <1>4, <1>6 DEF Case!GroupsVerify
      <4>. QED  BY <4>1, <4>2, <3>3, <1>3
    <3>4. Case!GroupsVerify(new)
      BY <3>1, <3>3 DEF Case!GroupsVerify
    <3>5. \A n \in 1..(L + 1) : moved[n].revision <= rev
      BY <1>3, <1>4, <1>m
    <3>. QED  BY <3>1, <3>2, <3>4, <3>5, <1>3, <1>m
  <2>2. CASE ~(passed = 1 /\ ~Case!Over(moved))
    <3>1. new = moved
      BY <2>2
    <3>2. \A n \in 1..(L + 1) : moved[n].revision <= rev
      BY <1>3, <1>4, <1>m
    <3>3. Len(moved) \in {L + 1, L + 2} /\ Len(moved) <= LastPly
      BY <1>3, <1>4, CaseAssumption
    <3>4. moved[Len(moved)].revision = rev
      BY <1>4, <1>m
    <3> HIDE DEF new
    <3>. QED  BY <3>1, <3>2, <3>3, <3>4, <1>4, <1>6
  <2>. QED  BY <2>1, <2>2
<1> HIDE DEF new
<1>8. Case!GameMoves(IF Case!Over(new) THEN "completed" ELSE "playing", new)
  BY <1>1 DEF new, moved, move, pass
<1>9. /\ caseGame' \in CaseGames /\ caseGame'.events = new /\ caseGame'.revision = rev
      /\ caseGame'.status = (IF Case!Over(new) THEN "completed" ELSE "playing")
      /\ caseGame'.consent = caseGame.consent
      /\ UNCHANGED <<caseRun, caseLog, caseArtifacts, caseRequests>>
  BY <1>2, <1>3, <1>7, <1>8 DEF Case!GameMoves, CaseGames, CaseStates
<1>10. MovesFit(caseGame')
  BY <1>7, <1>9 DEF MovesFit, EndedStates
<1>11. Case!Over(old) => Case!Over(new)
  BY <1>2 DEF MovesFit
<1>. QED  BY <1>2, <1>9, <1>10, <1>11, GameStatementKept

(* Every statement of the game.                                            *)
LEMMA GameStatementsKept ==
  ASSUME CaseInv, Case!Start \/ Case!AppendMove \/ Case!BeginAnswer \/ Case!EndAnswer \/ Case!Abandon
  PROVE  CaseInv'
<1>1. caseAnswers \in Nat /\ MovesFit(caseGame)
  BY DEF CaseInv, CaseTyped
<1>2. CASE Case!Start
  <2>1. caseGame.events = <<>>
    BY <1>1, <1>2 DEF MovesFit, Case!Start
  <2>. QED  BY <1>1, <1>2, <2>1, StatusKept DEF Case!Start, CaseStates
<1>3. CASE Case!AppendMove
  BY <1>3, MoveKept
<1>4. CASE Case!BeginAnswer
  BY <1>1, <1>4, StatusKept DEF Case!BeginAnswer, CaseStates, EndedStates
<1>5. CASE Case!EndAnswer
  BY <1>1, <1>5, StatusKept DEF Case!EndAnswer, CaseStates, EndedStates
<1>6. CASE Case!Abandon
  BY <1>1, <1>6, StatusKept DEF Case!Abandon, CaseStates
<1>. QED  BY <1>2, <1>3, <1>4, <1>5, <1>6

(* The first statement of a run.                                           *)
LEMMA RunMadeKept ==
  ASSUME CaseInv, Case!EnsureRun \/ Case!CreateRetryRun
  PROVE  CaseInv'
<1>1. /\ caseGame \in CaseGames /\ caseRun.state = None /\ Case!NoRun \in CaseRuns
      /\ ~Case!NoRun.child /\ ~Case!NoRun.record /\ Case!NoRun.active = None
      /\ UNCHANGED <<caseGame, caseArtifacts, caseRequests, caseAnswers>>
      /\ MovesFit(caseGame)
  <2>1. /\ Case!NoRun \in CaseRuns
        /\ ~Case!NoRun.child /\ ~Case!NoRun.record /\ Case!NoRun.active = None
    BY CaseAssumption DEF Case!NoRun, CaseRuns
  <2>. QED  BY <2>1 DEF CaseInv, CaseTyped, Case!EnsureRun, Case!CreateRetryRun
<1>2. PICK state \in {"chess_ready", "chess_playing", "chess_terminal", "abandoned"},
           child \in BOOLEAN :
        /\ caseRun' \in CaseRuns /\ caseRun'.state = state /\ caseRun'.child = child
        /\ ~caseRun'.record /\ caseRun'.active = None
        /\ child => state = "chess_ready"
        /\ child => caseLog' = <<<<None, "chess_ready">>>>
        /\ ~child => caseLog' = SubSeq(Case!Bootstrap, 1, Case!Booted[state])
        /\ state = "chess_terminal" => Case!Over(caseGame.events)
  <2>1. CASE Case!CreateRetryRun
    <3>1. /\ caseRun' = [Case!NoRun EXCEPT !.state = "chess_ready", !.child = TRUE]
          /\ caseLog' = <<<<None, "chess_ready">>>>
      BY <2>1 DEF Case!CreateRetryRun
    <3>2. "chess_ready" \in Case!LifecycleStates
      BY DEF Case!LifecycleStates, Case!Transitions
    <3>3. /\ caseRun' \in CaseRuns /\ caseRun'.state = "chess_ready" /\ caseRun'.child = TRUE
          /\ ~caseRun'.record /\ caseRun'.active = None
      BY <3>1, <3>2, <1>1 DEF CaseRuns
    <3>. QED  BY <3>1, <3>3
  <2>2. CASE Case!EnsureRun
    <3>1. /\ Case!BootState \in {"chess_ready", "chess_playing", "chess_terminal", "abandoned"}
          /\ Case!BootState = "chess_terminal" => caseGame.status \in EndedStates
      BY <1>1 DEF Case!BootState, CaseGames, CaseStates, EndedStates
    <3>2. /\ caseRun' = [Case!NoRun EXCEPT !.state = Case!BootState]
          /\ caseLog' = SubSeq(Case!Bootstrap, 1, Case!Booted[Case!BootState])
      BY <2>2 DEF Case!EnsureRun
    <3>3. Case!BootState \in Case!LifecycleStates
      BY <3>1 DEF Case!LifecycleStates, Case!Transitions
    <3>4. /\ caseRun' \in CaseRuns /\ caseRun'.state = Case!BootState /\ caseRun'.child = FALSE
          /\ ~caseRun'.record /\ caseRun'.active = None
      BY <3>2, <3>3, <1>1 DEF CaseRuns
    <3>. QED  BY <3>1, <3>2, <3>4, <1>1 DEF MovesFit
  <2>. QED  BY <2>1, <2>2
<1>3. /\ caseRun'.state = state /\ caseRun'.child = child /\ ~caseRun'.record
      /\ caseRun'.active = None /\ caseRun' \in CaseRuns
      /\ state # None
  BY <1>2, CaseAssumption DEF Case!LifecycleStates, Case!Transitions
<1>4. /\ caseLog' \in Seq((Case!LifecycleStates \cup {None}) \X Case!LifecycleStates)
      /\ HistoryFits(caseRun, caseLog)'
  <2> DEFINE steps == Case!Bootstrap
  <2>1. /\ steps \in Seq((Case!LifecycleStates \cup {None}) \X Case!LifecycleStates)
        /\ Len(steps) = 5
        /\ steps[1] = <<"anansi_pending", "anansi_running">>
        /\ steps[2] = <<"anansi_running", "field_ready">>
        /\ steps[3] = <<"field_ready", "chess_ready">>
        /\ steps[4] = <<"chess_ready", "chess_playing">>
        /\ steps[5] = <<"chess_playing", "chess_terminal">>
    BY DEF Case!Bootstrap, Case!LifecycleStates, Case!Transitions
  <2>2. CASE child
    <3>1. /\ caseLog' = <<<<None, "chess_ready">>>>
          /\ state = "chess_ready"
          /\ "chess_ready" \in Case!LifecycleStates
      BY <2>2, <1>2 DEF Case!LifecycleStates, Case!Transitions
    <3>2. /\ caseLog' \in Seq((Case!LifecycleStates \cup {None}) \X Case!LifecycleStates)
          /\ Len(caseLog') = 1 /\ DOMAIN caseLog' = 1..1 /\ caseLog'[1] = <<None, "chess_ready">>
      BY <3>1
    <3>. QED  BY <2>2, <3>1, <3>2, <1>3 DEF HistoryFits, Begins
  <2>3. CASE ~child
    <3>1. PICK k \in 3..5 :
            /\ caseLog' = SubSeq(steps, 1, k)
            /\ state \in {"chess_ready", "abandoned"} => k = 3
            /\ state = "chess_playing" => k = 4
            /\ state = "chess_terminal" => k = 5
      BY <2>3, <1>2 DEF Case!Booted
    <3> HIDE DEF steps
    <3>2. /\ caseLog' \in Seq((Case!LifecycleStates \cup {None}) \X Case!LifecycleStates)
          /\ Len(caseLog') = k /\ DOMAIN caseLog' = 1..k
          /\ \A n \in 1..k : caseLog'[n] = steps[n]
      BY <2>1, <3>1
    <3>3. CASE state = "abandoned"
      BY <3>1, <3>2, <3>3, <2>3, <1>3 DEF HistoryFits, steps
    <3>4. CASE state # "abandoned"
      <4>1. caseLog' # <<>> /\ caseLog'[1] = Begins(caseRun'.child)
        BY <3>2, <2>1, <2>3, <1>3 DEF Begins
      <4>2. caseLog'[Len(caseLog')] = steps[k] /\ steps[k][2] = state
        BY <3>1, <3>2, <3>4, <2>1
      <4>3. caseLog'[Len(caseLog')][2] = caseRun'.state
        BY <4>2, <1>3
      <4>4. ASSUME NEW n \in DOMAIN caseLog', n > 1
            PROVE  /\ caseLog'[n][1] = caseLog'[n - 1][2]
                   /\ Case!Legal(caseLog'[n][1], caseLog'[n][2])
        <5>1. n \in {2, 3, 4, 5} /\ caseLog'[n] = steps[n] /\ caseLog'[n - 1] = steps[n - 1]
          BY <4>4, <3>2
        <5>. QED  BY <5>1, <2>1, CaseLegal
      <4>5. caseRun'.state # None /\ caseRun'.state # "abandoned"
        BY <3>4, <1>3
      <4>. QED  BY <4>1, <4>3, <4>4, <4>5, <3>2 DEF HistoryFits
    <3>. QED  BY <3>2, <3>3, <3>4
  <2>. QED  BY <2>2, <2>3
<1>5. RunFits(caseRun, caseGame.events)'
  BY <1>1, <1>2, <1>3 DEF RunFits, Case!TerminalEvidence, Case!PortiaEvidence, Case!Executable,
    Case!Stages, Case!Unavailable
<1>6. caseArtifacts.actions = 0
  <2>1. Case!Executable \subseteq Case!LifecycleStates
    BY DEF Case!Executable, Case!LifecycleStates, Case!Transitions
  <2>. QED  BY <2>1, <1>1, CaseAssumption DEF CaseInv, WorkFits
<1>7. WorkFits(caseRun, caseArtifacts, caseRequests)'
  BY <1>1, <1>3, <1>6 DEF CaseInv, WorkFits, Case!PortiaEvidence, Case!GateEvidence, Case!GateRefused,
    Case!Executable, Case!Stages, Case!Running
<1>. QED  BY <1>1, <1>3, <1>4, <1>5, <1>7 DEF CaseInv, CaseTyped

(* A statement of the run needs only that its new row fits.                *)
LEMMA RunStatementKept ==
  ASSUME CaseInv, caseRun.state \notin {None, "abandoned"},
         NEW row \in CaseRuns, row.state = caseRun.state, row.child = caseRun.child,
         NEW to, Case!Legal(caseRun.state, to), to \notin {None, "abandoned"},
         Case!Advances(row, to), UNCHANGED <<caseGame, caseAnswers>>,
         caseArtifacts' \in CaseArtifacts, caseRequests' \in [CaseRequests -> CaseCalls],
         RunFits([row EXCEPT !.state = to], caseGame.events),
         WorkFits([row EXCEPT !.state = to], caseArtifacts', caseRequests'),
         NotesFit(caseArtifacts', caseGame.consent)
  PROVE  CaseInv'
<1>1. /\ caseRun' = [row EXCEPT !.state = to] /\ caseRun' \in CaseRuns
      /\ caseLog' \in Seq((Case!LifecycleStates \cup {None}) \X Case!LifecycleStates)
      /\ HistoryFits(caseRun, caseLog)'
  BY HistoryGrows
<1>2. caseGame' = caseGame /\ caseAnswers' = caseAnswers
  OBVIOUS
<1>3. CaseTyped'
  BY <1>1, <1>2 DEF CaseInv, CaseTyped
<1>. QED  BY <1>1, <1>2, <1>3 DEF CaseInv

(* The game is known to be under way, or over.                             *)
LEMMA SyncKept ==
  ASSUME CaseInv, Case!SyncStart \/ Case!SyncTerminal \/ Case!Queue
  PROVE  CaseInv'
<1>1. CASE Case!SyncStart
  <2> DEFINE next == [caseRun EXCEPT !.state = "chess_playing"]
  <2>1. /\ next.state = "chess_playing" /\ next.active = caseRun.active
        /\ next.record = caseRun.record /\ next.failed = caseRun.failed
    BY CaseFacts DEF CaseRuns
  <2>2. caseRun.state = "chess_ready"
    BY <1>1 DEF Case!SyncStart
  <2> HIDE DEF next
  <2>3. RunFits(next, caseGame.events)
    BY <2>1, <2>2, CaseFacts DEF RunFits, Case!TerminalEvidence, Case!PortiaEvidence,
      Case!Executable, Case!Stages, Case!Unavailable
  <2>4. WorkFits(next, caseArtifacts, caseRequests)
    BY <2>1, <2>2, CaseFacts DEF WorkFits, Case!PortiaEvidence, Case!GateEvidence,
      Case!GateRefused, Case!Executable, Case!Stages, Case!Running
  <2>. QED
    BY <1>1, <2>2, <2>3, <2>4, CaseFacts, CaseLegal, CaseAssumption, RunStatementKept
    DEF next, Case!SyncStart, Case!RunMoves, Case!Legal
<1>2. CASE Case!SyncTerminal
  <2> DEFINE row == [caseRun EXCEPT !.record = TRUE]
             next == [row EXCEPT !.state = "chess_terminal"]
  <2>1. /\ row \in CaseRuns /\ row.state = caseRun.state /\ row.child = caseRun.child
        /\ next.state = "chess_terminal" /\ next.active = caseRun.active
        /\ next.record = TRUE /\ next.failed = caseRun.failed
    BY CaseFacts DEF CaseRuns
  <2>2. /\ caseRun.state = "chess_playing" /\ Case!Over(caseGame.events)
        /\ Case!Advances(row, "chess_terminal")
        /\ UNCHANGED <<caseGame, caseArtifacts, caseRequests, caseAnswers>>
    BY <1>2 DEF Case!SyncTerminal, Case!RunMoves
  <2> HIDE DEF next, row
  <2>3. RunFits(next, caseGame.events)
    BY <2>1, <2>2, CaseFacts DEF RunFits, Case!TerminalEvidence, Case!PortiaEvidence,
      Case!Executable, Case!Stages, Case!Unavailable
  <2>4. WorkFits(next, caseArtifacts, caseRequests)
    BY <2>1, <2>2, CaseFacts DEF WorkFits, Case!PortiaEvidence, Case!GateEvidence,
      Case!GateRefused, Case!Executable, Case!Stages, Case!Running
  <2>. QED
    BY <2>1, <2>2, <2>3, <2>4, CaseFacts, CaseLegal, RunStatementKept DEF next, Case!Legal
<1>3. CASE Case!Queue
  <2> DEFINE next == [caseRun EXCEPT !.state = "portia_pending"]
  <2>1. /\ next.state = "portia_pending" /\ next.active = caseRun.active
        /\ next.record = caseRun.record /\ next.failed = caseRun.failed
    BY CaseFacts DEF CaseRuns
  <2>2. /\ caseRun.state = "chess_terminal" /\ caseRun.record
        /\ Case!Advances(caseRun, "portia_pending")
        /\ UNCHANGED <<caseGame, caseArtifacts, caseRequests, caseAnswers>>
    BY <1>3 DEF Case!Queue, Case!RunMoves
  <2> HIDE DEF next
  <2>3. RunFits(next, caseGame.events)
    BY <2>1, <2>2, CaseFacts DEF RunFits, Case!TerminalEvidence, Case!PortiaEvidence,
      Case!Executable, Case!Stages, Case!Unavailable
  <2>4. WorkFits(next, caseArtifacts, caseRequests)
    BY <2>1, <2>2, CaseFacts DEF WorkFits, Case!PortiaEvidence, Case!GateEvidence,
      Case!GateRefused, Case!Executable, Case!Stages, Case!Running
  <2>. QED
    BY <2>2, <2>3, <2>4, CaseFacts, CaseLegal, RunStatementKept DEF next, Case!Legal
<1>. QED  BY <1>1, <1>2, <1>3

(* A run may move on to a state that calls for nothing new.                *)
LEMMA PlainMoveKept ==
  ASSUME CaseInv, NEW to, Case!Legal(caseRun.state, to), Case!RunMoves(caseRun, to),
         {caseRun.state, to} \subseteq Case!GateEvidence \ {"charlotte_unavailable"},
         to \in Case!Executable <=> caseRun.state \in Case!Executable, to # "charlotte_complete",
         to \in Case!GateRefused <=> caseRun.state \in Case!GateRefused,
         \A s \in Case!Stages : Case!Running[s] \notin {caseRun.state, to}
  PROVE  CaseInv'
<1> DEFINE next == [caseRun EXCEPT !.state = to]
<1>1. /\ next.state = to /\ next.active = caseRun.active
      /\ next.record = caseRun.record /\ next.failed = caseRun.failed
  BY CaseFacts DEF CaseRuns
<1>2. /\ caseRun.state \notin {None, "abandoned"} /\ to \notin {None, "abandoned"}
      /\ caseRun.state \in Case!TerminalEvidence \ {"chess_terminal"}
      /\ to \in Case!TerminalEvidence \ {"chess_terminal"}
      /\ {caseRun.state, to} \subseteq Case!PortiaEvidence
      /\ \A s \in Case!Stages : to # Case!Unavailable[s]
  BY CaseFacts DEF Case!Legal, Case!GateEvidence, Case!PortiaEvidence, Case!TerminalEvidence,
    Case!Executable, Case!Stages, Case!Unavailable
<1>3. /\ Case!Advances(caseRun, to)
      /\ UNCHANGED <<caseGame, caseArtifacts, caseRequests, caseAnswers>>
  BY DEF Case!RunMoves
<1> HIDE DEF next
<1>4. RunFits(next, caseGame.events)
  BY <1>1, <1>2, CaseFacts DEF RunFits
<1>5. WorkFits(next, caseArtifacts, caseRequests)
  BY <1>1, <1>2, CaseFacts DEF WorkFits
<1>. QED  BY <1>2, <1>3, <1>4, <1>5, CaseFacts, RunStatementKept DEF next

(* Authorization, the ends of a failed Gate, and Wilbur at work.           *)
LEMMA PlainMovesKept ==
  ASSUME CaseInv, Case!Authorize \/ Case!Resolve \/ Case!Progress
  PROVE  CaseInv'
<1>1. PICK to :
        /\ Case!RunMoves(caseRun, to)
        /\ \/ caseRun.state = "gate_passed" /\ to = "charlotte_pending"
           \/ caseRun.state = "gate_failed" /\ to = "insufficient_basis"
           \/ caseRun.state = "insufficient_basis" /\ to = "retry_ready"
           \/ caseRun.state = "gate_failed" /\ to = "retry_ready"
           \/ caseRun.state = "retry_ready" /\ to = "retry_running"
           \/ /\ caseRun.state \in {"wilbur_planning", "wilbur_observed"}
              /\ to = "wilbur_in_progress"
  BY DEF Case!Authorize, Case!Resolve, Case!Progress, Case!Executable
<1>2. Case!Legal(caseRun.state, to)
  BY <1>1, CaseLegal
<1>3. /\ {caseRun.state, to} \subseteq Case!GateEvidence \ {"charlotte_unavailable"}
      /\ to \in Case!Executable <=> caseRun.state \in Case!Executable
      /\ to # "charlotte_complete"
      /\ to \in Case!GateRefused <=> caseRun.state \in Case!GateRefused
      /\ \A s \in Case!Stages : Case!Running[s] \notin {caseRun.state, to}
  BY <1>1 DEF Case!GateEvidence, Case!PortiaEvidence, Case!GateRefused, Case!Executable,
    Case!Stages, Case!Running
<1>. QED  BY <1>1, <1>2, <1>3, PlainMoveKept

(* A stage starts on a request of its own.                                 *)
LEMMA AttemptKept ==
  ASSUME CaseInv, NEW r \in CaseRequests, Case!Attempt(r)
  PROVE  CaseInv'
<1>1. PICK s \in Case!Stages :
        /\ caseRun.state = Case!Pending[s] /\ caseRequests[r].stage = s
        /\ Case!RunMoves([caseRun EXCEPT !.active = r], Case!Running[s])
  BY DEF Case!Attempt
<1> DEFINE row == [caseRun EXCEPT !.active = r]
           next == [row EXCEPT !.state = Case!Running[s]]
<1>2. /\ row \in CaseRuns /\ row.state = caseRun.state /\ row.child = caseRun.child
      /\ next.state = Case!Running[s] /\ next.active = r
      /\ next.record = caseRun.record /\ next.failed = caseRun.failed
  BY CaseFacts DEF CaseRuns
<1>3. /\ Case!Advances(row, Case!Running[s])
      /\ UNCHANGED <<caseGame, caseArtifacts, caseRequests, caseAnswers>>
  BY <1>1 DEF Case!RunMoves
<1>4. \/ /\ s = "portia" /\ caseRun.state = "portia_pending"
         /\ Case!Running[s] = "portia_running"
      \/ /\ s = "charlotte" /\ caseRun.state = "charlotte_pending"
         /\ Case!Running[s] = "charlotte_running"
  <2>1. caseRun.state = Case!Pending[s]
    BY <1>1
  <2>. QED  BY <2>1 DEF Case!Stages, Case!Pending, Case!Running
<1>5. r # None
  BY CaseFacts
<1> HIDE DEF next, row
<1>6. RunFits(next, caseGame.events)
  BY <1>2, <1>4, CaseFacts DEF RunFits, Case!TerminalEvidence, Case!PortiaEvidence,
    Case!Executable, Case!Stages, Case!Unavailable
<1>7. WorkFits(next, caseArtifacts, caseRequests)
  BY <1>1, <1>2, <1>4, <1>5, CaseFacts DEF WorkFits, Case!PortiaEvidence, Case!GateEvidence,
    Case!GateRefused, Case!Executable, Case!Stages, Case!Running
<1>8. Case!Legal(caseRun.state, Case!Running[s])
  BY <1>1, CaseLegal
<1>9. caseRun.state \notin {None, "abandoned"} /\ Case!Running[s] \notin {None, "abandoned"}
  BY <1>4, <1>8, CaseFacts DEF Case!Legal
<1>. QED  BY <1>2, <1>3, <1>6, <1>7, <1>8, <1>9, CaseFacts, RunStatementKept DEF next

(* An attempt that ended badly is charged.                                 *)
LEMMA FailKept ==
  ASSUME CaseInv, NEW r \in CaseRequests, Case!Fail(r)
  PROVE  CaseInv'
<1>1. PICK s \in Case!Stages :
        /\ Case!Fenced(r, s)
        /\ caseRun.failed[s] < FailureLimit
        /\ Case!RunMoves([Case!Unfenced(caseRun) EXCEPT !.failed[s] = @ + 1],
             IF caseRun.failed[s] + 1 >= FailureLimit THEN Case!Unavailable[s] ELSE Case!Pending[s])
  BY DEF Case!Fail
<1> DEFINE to == IF caseRun.failed[s] + 1 >= FailureLimit THEN Case!Unavailable[s]
                                                         ELSE Case!Pending[s]
           row == [Case!Unfenced(caseRun) EXCEPT !.failed[s] = @ + 1]
           next == [row EXCEPT !.state = to]
<1>2. caseRun.failed[s] \in 0..FailureLimit /\ caseRun.failed[s] + 1 \in 0..FailureLimit
  BY <1>1, CaseFacts, CaseAssumption DEF CaseRuns
<1>3. /\ row \in CaseRuns /\ row.state = caseRun.state /\ row.child = caseRun.child
      /\ row.active = None /\ row.record = caseRun.record
      /\ row.failed = [caseRun.failed EXCEPT ![s] = @ + 1]
  BY <1>2, CaseFacts DEF CaseRuns, Case!Unfenced
<1>4. /\ next.state = to /\ next.active = None /\ next.record = caseRun.record
      /\ next.failed = [caseRun.failed EXCEPT ![s] = @ + 1]
  BY <1>3 DEF CaseRuns
<1>5. /\ Case!Advances(row, to)
      /\ UNCHANGED <<caseGame, caseArtifacts, caseRequests, caseAnswers>>
  BY <1>1 DEF Case!RunMoves
<1>6. caseRun.state = Case!Running[s]
  BY <1>1 DEF Case!Fenced
<1>7. to = Case!Unavailable[s] => next.failed[s] = FailureLimit
  BY <1>2, <1>4, CaseFacts, CaseAssumption
    DEF CaseRuns, Case!Stages, Case!Unavailable, Case!Pending
<1>8. Case!Legal(caseRun.state, to)
  BY <1>6, CaseLegal
<1>9. \/ /\ s = "portia" /\ caseRun.state = "portia_running"
         /\ to \in {"portia_pending", "portia_unavailable"}
      \/ /\ s = "charlotte" /\ caseRun.state = "charlotte_running"
         /\ to \in {"charlotte_pending", "charlotte_unavailable"}
  BY <1>6 DEF Case!Stages, Case!Running, Case!Unavailable, Case!Pending
<1> HIDE DEF next, row, to
<1>10. RunFits(next, caseGame.events)
  BY <1>4, <1>7, <1>9, CaseFacts DEF RunFits, Case!TerminalEvidence, Case!PortiaEvidence,
    Case!Executable, Case!Stages, Case!Unavailable
<1>11. WorkFits(next, caseArtifacts, caseRequests)
  BY <1>4, <1>9, CaseFacts DEF WorkFits, Case!PortiaEvidence, Case!GateEvidence,
    Case!GateRefused, Case!Executable, Case!Stages, Case!Running
<1>12. caseRun.state \notin {None, "abandoned"} /\ to \notin {None, "abandoned"}
  BY <1>8, <1>9, CaseFacts DEF Case!Legal
<1>. QED  BY <1>3, <1>5, <1>8, <1>10, <1>11, <1>12, CaseFacts, RunStatementKept DEF next

(* A stage's result is stored by the request that fences it.               *)
LEMMA StoreKept ==
  ASSUME CaseInv, NEW r \in CaseRequests, Case!Store(r)
  PROVE  CaseInv'
<1>1. PICK s \in Case!Stages :
        /\ caseRun.state = Case!Running[s] /\ caseRequests[r].stage = s
        /\ caseRequests[r].status = "succeeded"
        /\ caseArtifacts' = IF s = "portia" THEN [caseArtifacts EXCEPT !.review = r]
                                            ELSE [caseArtifacts EXCEPT !.result = r]
        /\ Case!Advances(Case!Unfenced(caseRun), Case!Complete[s])
        /\ UNCHANGED <<caseGame, caseRequests, caseAnswers>>
  BY DEF Case!Store, Case!Fenced
<1> DEFINE row == Case!Unfenced(caseRun)
           next == [row EXCEPT !.state = Case!Complete[s]]
<1>2. /\ row \in CaseRuns /\ row.state = caseRun.state /\ row.child = caseRun.child
      /\ next.state = Case!Complete[s] /\ next.active = None
      /\ next.record = caseRun.record /\ next.failed = caseRun.failed
  BY CaseFacts DEF CaseRuns, Case!Unfenced
<1>3. \/ /\ s = "portia" /\ caseRun.state = "portia_running"
         /\ Case!Complete[s] = "portia_complete"
         /\ caseArtifacts' = [caseArtifacts EXCEPT !.review = r]
      \/ /\ s = "charlotte" /\ caseRun.state = "charlotte_running"
         /\ Case!Complete[s] = "charlotte_complete"
         /\ caseArtifacts' = [caseArtifacts EXCEPT !.result = r]
  <2>1. /\ caseRun.state = Case!Running[s]
        /\ caseArtifacts' = IF s = "portia" THEN [caseArtifacts EXCEPT !.review = r]
                                            ELSE [caseArtifacts EXCEPT !.result = r]
    BY <1>1
  <2>2. s \in {"portia", "charlotte"}
    BY DEF Case!Stages
  <2>3. CASE s = "portia"
    BY <2>1, <2>3 DEF Case!Stages, Case!Running, Case!Complete
  <2>4. CASE s = "charlotte"
    BY <2>1, <2>4 DEF Case!Stages, Case!Running, Case!Complete
  <2>. QED  BY <2>2, <2>3, <2>4
<1>4. /\ caseArtifacts' \in CaseArtifacts
      /\ caseArtifacts'.notes = caseArtifacts.notes /\ caseArtifacts'.actions = caseArtifacts.actions
      /\ caseArtifacts'.research = caseArtifacts.research
      /\ caseArtifacts'.gate = caseArtifacts.gate
      /\ s = "portia" => caseArtifacts'.review = r /\ caseArtifacts'.result = caseArtifacts.result
      /\ s = "charlotte" => caseArtifacts'.result = r /\ caseArtifacts'.review = caseArtifacts.review
  BY <1>3, CaseFacts DEF CaseArtifacts
<1>5. Succeeded(caseRequests, r, s) /\ r # None
  BY <1>1, CaseFacts DEF Succeeded, CaseCalls
<1> HIDE DEF next, row
<1>6. RunFits(next, caseGame.events)
  BY <1>2, <1>3, CaseFacts DEF RunFits, Case!TerminalEvidence, Case!PortiaEvidence,
    Case!Executable, Case!Stages, Case!Unavailable
<1>7. WorkFits(next, caseArtifacts', caseRequests)
  BY <1>2, <1>3, <1>4, <1>5, CaseFacts DEF WorkFits, Case!PortiaEvidence, Case!GateEvidence,
    Case!GateRefused, Case!Executable, Case!Stages, Case!Running
<1>8. NotesFit(caseArtifacts', caseGame.consent)
  BY <1>4, CaseFacts DEF NotesFit
<1>9. Case!Legal(caseRun.state, Case!Complete[s])
  BY <1>1, CaseLegal
<1>10. caseRun.state \notin {None, "abandoned"} /\ Case!Complete[s] \notin {None, "abandoned"}
  BY <1>3, <1>9, CaseFacts DEF Case!Legal
<1>11. Case!Advances(row, Case!Complete[s]) /\ UNCHANGED <<caseGame, caseRequests, caseAnswers>>
  BY <1>1 DEF row
<1>. QED
  BY <1>2, <1>4, <1>6, <1>7, <1>8, <1>9, <1>10, <1>11, CaseFacts, RunStatementKept DEF next

(* The Gate judges the review.                                             *)
LEMMA JudgeKept ==
  ASSUME CaseInv, Case!Judge
  PROVE  CaseInv'
<1>1. PICK passed \in BOOLEAN :
        /\ caseArtifacts' = [caseArtifacts EXCEPT !.gate = IF passed THEN "passed" ELSE "failed"]
        /\ Case!Advances(caseRun, IF passed THEN "gate_passed" ELSE "gate_failed")
  BY DEF Case!Judge
<1> DEFINE to == IF passed THEN "gate_passed" ELSE "gate_failed"
           next == [caseRun EXCEPT !.state = to]
<1>2. /\ caseRun.state = "portia_complete"
      /\ UNCHANGED <<caseGame, caseRequests, caseAnswers>>
  BY DEF Case!Judge
<1>3. /\ next.state = to /\ next.active = caseRun.active
      /\ next.record = caseRun.record /\ next.failed = caseRun.failed
  BY CaseFacts DEF CaseRuns
<1>4. /\ caseArtifacts' \in CaseArtifacts
      /\ caseArtifacts'.notes = caseArtifacts.notes /\ caseArtifacts'.actions = caseArtifacts.actions
      /\ caseArtifacts'.research = caseArtifacts.research
      /\ caseArtifacts'.review = caseArtifacts.review
      /\ caseArtifacts'.result = caseArtifacts.result
      /\ caseArtifacts'.gate = IF passed THEN "passed" ELSE "failed"
  BY <1>1, CaseFacts DEF CaseArtifacts
<1>5. Case!Legal(caseRun.state, to) /\ to \notin {None, "abandoned"}
      /\ caseRun.state \notin {None, "abandoned"} /\ "passed" # None /\ "failed" # None
  BY <1>2, CaseLegal, CaseFacts DEF Case!Legal
<1>6. \/ to = "gate_passed" /\ caseArtifacts'.gate = "passed"
      \/ to = "gate_failed" /\ caseArtifacts'.gate = "failed"
  BY <1>4
<1>7. Case!Advances(caseRun, to)
  BY <1>1
<1> HIDE DEF next, to
<1>8. RunFits(next, caseGame.events)
  BY <1>2, <1>3, <1>6, CaseFacts DEF RunFits, Case!TerminalEvidence, Case!PortiaEvidence,
    Case!Executable, Case!Stages, Case!Unavailable
<1>9. WorkFits(next, caseArtifacts', caseRequests)
  BY <1>2, <1>3, <1>4, <1>5, <1>6, CaseFacts DEF WorkFits, Case!PortiaEvidence,
    Case!GateEvidence, Case!GateRefused, Case!Executable, Case!Stages, Case!Running
<1>10. NotesFit(caseArtifacts', caseGame.consent)
  BY <1>4, CaseFacts DEF NotesFit
<1>. QED
  BY <1>2, <1>4, <1>5, <1>7, <1>8, <1>9, <1>10, CaseFacts, RunStatementKept DEF next

(* Wilbur adds an action, or an observation of one.                        *)
LEMMA WilburKept ==
  ASSUME CaseInv, Case!Plan \/ Case!Observe
  PROVE  CaseInv'
<1>1. PICK to :
        /\ Case!Advances(caseRun, to) /\ UNCHANGED <<caseGame, caseRequests, caseAnswers>>
        /\ caseRun.state \in Case!Executable
        /\ to \in Case!Executable \ {"charlotte_complete"} /\ Case!Legal(caseRun.state, to)
        /\ \/ caseArtifacts' = [caseArtifacts EXCEPT !.actions = @ + 1]
           \/ \E a \in 1..caseArtifacts.actions :
                caseArtifacts' = [caseArtifacts EXCEPT !.notes = Append(@, a)]
  <2>1. CASE Case!Plan
    <3> DEFINE to == IF caseRun.state = "charlotte_complete" THEN "wilbur_planning" ELSE caseRun.state
    <3>1. /\ Case!Advances(caseRun, to) /\ UNCHANGED <<caseGame, caseRequests, caseAnswers>>
          /\ caseRun.state \in Case!Executable
          /\ caseArtifacts' = [caseArtifacts EXCEPT !.actions = @ + 1]
      BY <2>1 DEF Case!Plan
    <3>2. to \in Case!Executable \ {"charlotte_complete"} /\ Case!Legal(caseRun.state, to)
      BY <3>1, CaseLegal DEF Case!Executable
    <3>. QED  BY <3>1, <3>2
  <2>2. CASE Case!Observe
    <3>1. /\ Case!Advances(caseRun, "wilbur_observed")
          /\ UNCHANGED <<caseGame, caseRequests, caseAnswers>>
          /\ caseRun.state \in Case!Executable
          /\ \E a \in 1..caseArtifacts.actions :
               caseArtifacts' = [caseArtifacts EXCEPT !.notes = Append(@, a)]
      BY <2>2 DEF Case!Observe
    <3>2. caseRun.state # "charlotte_complete"
      BY <3>1, CaseFacts DEF WorkFits, CaseArtifacts
    <3>3. Case!Legal(caseRun.state, "wilbur_observed")
      BY <3>1, <3>2, CaseLegal DEF Case!Executable
    <3>. QED  BY <3>1, <3>3 DEF Case!Executable
  <2>. QED  BY <2>1, <2>2
<1> DEFINE next == [caseRun EXCEPT !.state = to]
<1>2. /\ next.state = to /\ next.active = caseRun.active
      /\ next.record = caseRun.record /\ next.failed = caseRun.failed
  BY CaseFacts DEF CaseRuns
<1>3. /\ caseArtifacts' \in CaseArtifacts
      /\ caseArtifacts'.research = caseArtifacts.research
      /\ caseArtifacts'.review = caseArtifacts.review
      /\ caseArtifacts'.result = caseArtifacts.result /\ caseArtifacts'.gate = caseArtifacts.gate
      /\ \A n \in DOMAIN caseArtifacts'.notes : caseArtifacts'.notes[n] \in 1..caseArtifacts'.actions
  <2>1. /\ caseArtifacts.actions \in Nat /\ caseArtifacts.notes \in Seq(Nat)
        /\ \A n \in DOMAIN caseArtifacts.notes : caseArtifacts.notes[n] \in 1..caseArtifacts.actions
    BY CaseFacts DEF CaseArtifacts, NotesFit
  <2>2. CASE caseArtifacts' = [caseArtifacts EXCEPT !.actions = @ + 1]
    <3>1. /\ caseArtifacts' \in CaseArtifacts
          /\ caseArtifacts'.research = caseArtifacts.research
          /\ caseArtifacts'.review = caseArtifacts.review
          /\ caseArtifacts'.result = caseArtifacts.result /\ caseArtifacts'.gate = caseArtifacts.gate
          /\ caseArtifacts'.notes = caseArtifacts.notes
          /\ caseArtifacts'.actions = caseArtifacts.actions + 1
      BY <2>1, <2>2, CaseFacts DEF CaseArtifacts
    <3>. QED  BY <2>1, <3>1
  <2>3. CASE \E a \in 1..caseArtifacts.actions :
               caseArtifacts' = [caseArtifacts EXCEPT !.notes = Append(@, a)]
    <3>1. PICK a \in 1..caseArtifacts.actions :
            caseArtifacts' = [caseArtifacts EXCEPT !.notes = Append(@, a)]
      BY <2>3
    <3>2. /\ Append(caseArtifacts.notes, a) \in Seq(Nat)
          /\ \A n \in DOMAIN Append(caseArtifacts.notes, a) :
               Append(caseArtifacts.notes, a)[n] \in 1..caseArtifacts.actions
      BY <2>1
    <3>3. /\ caseArtifacts' \in CaseArtifacts
          /\ caseArtifacts'.research = caseArtifacts.research
          /\ caseArtifacts'.review = caseArtifacts.review
          /\ caseArtifacts'.result = caseArtifacts.result /\ caseArtifacts'.gate = caseArtifacts.gate
          /\ caseArtifacts'.notes = Append(caseArtifacts.notes, a)
          /\ caseArtifacts'.actions = caseArtifacts.actions
      BY <3>1, <3>2, CaseFacts DEF CaseArtifacts
    <3>. QED  BY <3>2, <3>3
  <2>. QED  BY <1>1, <2>2, <2>3
<1>4. /\ caseRun.state \notin {None, "abandoned"} /\ to \notin {None, "abandoned"}
      /\ caseRun.state \in
           {"charlotte_complete", "wilbur_planning", "wilbur_in_progress", "wilbur_observed"}
      /\ to \in {"wilbur_planning", "wilbur_in_progress", "wilbur_observed"}
  BY <1>1, CaseFacts DEF Case!Executable, Case!Legal
<1> HIDE DEF next
<1>5. RunFits(next, caseGame.events)
  BY <1>2, <1>4, CaseFacts DEF RunFits, Case!TerminalEvidence, Case!PortiaEvidence,
    Case!Executable, Case!Stages, Case!Unavailable
<1>6. WorkFits(next, caseArtifacts', caseRequests)
  BY <1>2, <1>3, <1>4, CaseFacts DEF WorkFits, Case!PortiaEvidence, Case!GateEvidence,
    Case!GateRefused, Case!Executable, Case!Stages, Case!Running
<1>7. NotesFit(caseArtifacts', caseGame.consent)
  BY <1>3, CaseFacts DEF NotesFit
<1>. QED
  BY <1>1, <1>3, <1>4, <1>5, <1>6, <1>7, CaseFacts, RunStatementKept DEF next

(* A request is made, and ends.                                            *)
LEMMA RequestKept ==
  ASSUME CaseInv, NEW r \in CaseRequests, Case!Reserve(r) \/ Case!Settle(r)
  PROVE  CaseInv'
<1>1. PICK s \in Case!Stages,
           status \in {"in_progress", "succeeded", "failed", "indeterminate"} :
        /\ caseRequests' = [caseRequests EXCEPT ![r] = [stage |-> s, status |-> status]]
        /\ caseRequests[r].status \in {"absent", "in_progress"}
        /\ caseRequests[r].status = "in_progress" => caseRequests[r].stage = s
        /\ UNCHANGED <<caseGame, caseRun, caseLog, caseArtifacts, caseAnswers>>
  <2>1. CASE Case!Reserve(r)
    <3>1. PICK s \in Case!Stages :
            caseRequests' = [caseRequests EXCEPT ![r] = [stage |-> s, status |-> "in_progress"]]
      BY <2>1 DEF Case!Reserve
    <3>2. /\ caseRequests[r].status = "absent"
          /\ UNCHANGED <<caseGame, caseRun, caseLog, caseArtifacts, caseAnswers>>
      BY <2>1 DEF Case!Reserve
    <3>. QED  BY <3>1, <3>2
  <2>2. CASE Case!Settle(r)
    <3>1. PICK status \in {"succeeded", "failed", "indeterminate"} :
            caseRequests' = [caseRequests EXCEPT ![r].status = status]
      BY <2>2 DEF Case!Settle
    <3>2. /\ caseRequests[r].status = "in_progress"
          /\ UNCHANGED <<caseGame, caseRun, caseLog, caseArtifacts, caseAnswers>>
      BY <2>2 DEF Case!Settle
    <3>3. caseRequests[r] \in CaseCalls /\ caseRequests[r].stage \in Case!Stages
      BY <3>2, CaseFacts DEF WorkFits, CaseCalls
    <3>4. [caseRequests[r] EXCEPT !.status = status]
            = [stage |-> caseRequests[r].stage, status |-> status]
      BY <3>3 DEF CaseCalls
    <3>5. caseRequests' =
            [caseRequests EXCEPT ![r] = [stage |-> caseRequests[r].stage, status |-> status]]
      BY <3>1, <3>4, CaseFacts
    <3>. QED  BY <3>2, <3>3, <3>5
  <2>. QED  BY <2>1, <2>2
<1>2. /\ caseRequests' \in [CaseRequests -> CaseCalls]
      /\ caseRequests'[r] = [stage |-> s, status |-> status]
      /\ \A x \in CaseRequests \ {r} : caseRequests'[x] = caseRequests[x]
  BY <1>1, CaseFacts DEF CaseCalls
<1>3. s # None
  BY CaseAssumption
<1>4. \A x \in CaseRequests :
        \A t \in Case!Stages : Succeeded(caseRequests, x, t) => Succeeded(caseRequests', x, t)
  BY <1>1, <1>2 DEF Succeeded
<1>5. \A t \in Case!Stages :
        caseRun.state = Case!Running[t] => caseRun.active # None /\ caseRequests'[caseRun.active].stage = t
  <2>1. ASSUME NEW t \in Case!Stages, caseRun.state = Case!Running[t]
        PROVE  caseRun.active # None /\ caseRequests'[caseRun.active].stage = t
    <3>1. /\ caseRun.active # None /\ caseRun.active \in CaseRequests
          /\ caseRequests[caseRun.active].stage = t
      BY <2>1, CaseFacts DEF WorkFits, CaseRuns
    <3>2. caseRun.active = r => caseRequests[r].status = "in_progress"
      BY <3>1, <1>1, CaseFacts, CaseAssumption DEF WorkFits
    <3>. QED  BY <3>1, <3>2, <1>1, <1>2
  <2>. QED  BY <2>1
<1>6. WorkFits(caseRun, caseArtifacts, caseRequests')
  <2>1. {caseArtifacts.review, caseArtifacts.result} \subseteq CaseRequests \cup {None}
    BY CaseFacts DEF CaseArtifacts
  <2>2. /\ caseArtifacts.review # None => Succeeded(caseRequests', caseArtifacts.review, "portia")
        /\ caseArtifacts.result # None => Succeeded(caseRequests', caseArtifacts.result, "charlotte")
    BY <2>1, <1>4, CaseFacts DEF WorkFits, Case!Stages
  <2>3. \A x \in CaseRequests : caseRequests'[x].stage = None <=> caseRequests'[x].status = "absent"
    BY <1>2, <1>3, CaseFacts DEF WorkFits
  <2>. QED  BY <2>2, <2>3, <1>5, CaseFacts DEF WorkFits
<1>7. CaseTyped'
  BY <1>1, <1>2 DEF CaseInv, CaseTyped
<1>. QED  BY <1>1, <1>6, <1>7 DEF CaseInv

(* A statement of Portia's research changes its record, and no more.       *)
LEMMA ResearchStatementKept ==
  ASSUME CaseInv, caseRun.state = "portia_pending",
         NEW found \in CaseResearch, NEW k \in 0..SourceLimit,
         ResearchFits(found, caseGame.consent, k),
         caseArtifacts' = [caseArtifacts EXCEPT !.research = found],
         Case!Advances(caseRun, caseRun.state),
         UNCHANGED <<caseGame, caseRequests, caseAnswers>>
  PROVE  CaseInv'
<1>1. [caseRun EXCEPT !.state = caseRun.state] = caseRun
  BY CaseFacts DEF CaseRuns
<1>2. /\ caseArtifacts' \in CaseArtifacts
      /\ caseArtifacts'.research = found
      /\ caseArtifacts'.review = caseArtifacts.review
      /\ caseArtifacts'.result = caseArtifacts.result /\ caseArtifacts'.gate = caseArtifacts.gate
      /\ caseArtifacts'.notes = caseArtifacts.notes /\ caseArtifacts'.actions = caseArtifacts.actions
  BY CaseFacts DEF CaseArtifacts
<1>3. Case!Legal(caseRun.state, caseRun.state) /\ caseRun.state \notin {None, "abandoned"}
  BY CaseLegal, CaseFacts DEF Case!Legal
<1>4. RunFits([caseRun EXCEPT !.state = caseRun.state], caseGame.events)
  BY <1>1, CaseFacts
<1>5. WorkFits([caseRun EXCEPT !.state = caseRun.state], caseArtifacts', caseRequests')
  <2>1. WorkFits(caseRun, caseArtifacts', caseRequests)
    BY <1>2, CaseFacts DEF WorkFits
  <2>. QED  BY <2>1, <1>1
<1>6. NotesFit(caseArtifacts', caseGame.consent)
  BY <1>2, CaseFacts DEF NotesFit
<1>. QED
  BY <1>2, <1>3, <1>4, <1>5, <1>6, CaseFacts, RunStatementKept

(* Research is found unnecessary, or a search begins and fails.            *)
LEMMA ResearchKept ==
  ASSUME CaseInv, Case!Research \/ Case!GiveUp
  PROVE  CaseInv'
<1> DEFINE old == caseArtifacts.research
<1>1. old \in CaseResearch /\ caseArtifacts \in CaseArtifacts
  BY CaseFacts DEF CaseArtifacts
<1>2. PICK k \in 0..SourceLimit : ResearchFits(old, caseGame.consent, k)
  BY CaseFacts DEF NotesFit
<1>3. PICK status \in {"not_needed", "searching", "failed"} :
        /\ caseArtifacts' = [caseArtifacts EXCEPT !.research.status = status]
        /\ caseGame.consent \/ status = "not_needed"
  <2>1. CASE Case!Research
    BY <2>1 DEF Case!Research
  <2>2. CASE Case!GiveUp
    <3>1. old.status = "searching" /\ caseArtifacts' = [caseArtifacts EXCEPT !.research.status = "failed"]
      BY <2>2 DEF Case!GiveUp
    <3>2. caseGame.consent
      BY <3>1, <1>2 DEF ResearchFits
    <3>. QED  BY <3>1, <3>2
  <2>. QED  BY <2>1, <2>2
<1> DEFINE found == [old EXCEPT !.status = status]
<1>4. found \in CaseResearch /\ ResearchFits(found, caseGame.consent, k)
  BY <1>1, <1>2, <1>3 DEF CaseResearch, ResearchFits
<1>5. caseArtifacts' = [caseArtifacts EXCEPT !.research = found]
  BY <1>1, <1>3 DEF CaseArtifacts
<1>6. /\ caseRun.state = "portia_pending" /\ Case!Advances(caseRun, caseRun.state)
      /\ UNCHANGED <<caseGame, caseRequests, caseAnswers>>
  BY DEF Case!Research, Case!GiveUp
<1> HIDE DEF found
<1>. QED  BY <1>4, <1>5, <1>6, ResearchStatementKept

(* A case counts its pages as the library does.                            *)
LEMMA PagesCounted ==
  ASSUME NEW S
  PROVE  Case!Cardinality(S) = Cardinality(S)
BY DEF Case!Cardinality, Cardinality

(* The pages asked for are pages of sources, and few enough.               *)
LEMMA FetchedFit ==
  ASSUME NEW n \in Nat, NEW pages \in Case!Fetched(n)
  PROVE  pages \in SUBSET (1..n) /\ Cardinality(pages) <= FetchLimit
<1>1. /\ pages \in SUBSET (1..n)
      /\ Cardinality(pages) = IF n < FetchLimit THEN n ELSE FetchLimit
  BY PagesCounted DEF Case!Fetched
<1>2. FetchLimit \in Nat
  BY CaseAssumption
<1>. QED  BY <1>1, <1>2

(* A search completes with a few of its pages read or not.                 *)
LEMMA DiscoverKept ==
  ASSUME CaseInv, Case!Discover
  PROVE  CaseInv'
<1>1. PICK n \in 1..SourceLimit : \E pages \in Case!Fetched(n) : \E facts \in SUBSET pages :
        caseArtifacts' = [caseArtifacts EXCEPT !.research =
          [status |-> "completed", sources |-> [i \in 1..n |-> i], facts |-> facts,
           failures |-> pages \ facts]]
  BY DEF Case!Discover
<1>2. PICK pages \in Case!Fetched(n) : \E facts \in SUBSET pages :
        caseArtifacts' = [caseArtifacts EXCEPT !.research =
          [status |-> "completed", sources |-> [i \in 1..n |-> i], facts |-> facts,
           failures |-> pages \ facts]]
  BY <1>1
<1>3. PICK facts \in SUBSET pages :
        caseArtifacts' = [caseArtifacts EXCEPT !.research =
          [status |-> "completed", sources |-> [i \in 1..n |-> i], facts |-> facts,
           failures |-> pages \ facts]]
  BY <1>2
<1> DEFINE found == [status |-> "completed", sources |-> [i \in 1..n |-> i], facts |-> facts,
                     failures |-> pages \ facts]
<1>4. n \in Nat /\ n \in 0..SourceLimit /\ FetchLimit \in Nat
  BY CaseAssumption
<1>5. pages \in SUBSET (1..n) /\ Cardinality(pages) <= FetchLimit
  BY <1>2, <1>4, FetchedFit
<1>6. [i \in 1..n |-> i] \in Seq(Nat)
  <2>1. \A i \in 1..n : i \in Nat
    BY <1>4
  <2>. QED  BY <1>4, <2>1
<1>7. found \in CaseResearch
  <2>1. pages \subseteq Nat /\ facts \subseteq Nat
    BY <1>4, <1>5
  <2>. QED  BY <1>6, <2>1 DEF CaseResearch
<1>8. caseGame.consent
  BY CaseFacts DEF NotesFit, ResearchFits, Case!Discover
<1>9. ResearchFits(found, caseGame.consent, n)
  <2>1. facts \cup (pages \ facts) = pages
    BY <1>3
  <2>. QED  BY <2>1, <1>5, <1>8 DEF ResearchFits
<1>10. caseArtifacts' = [caseArtifacts EXCEPT !.research = found]
  BY <1>3
<1>11. /\ caseRun.state = "portia_pending" /\ Case!Advances(caseRun, caseRun.state)
       /\ UNCHANGED <<caseGame, caseRequests, caseAnswers>>
  BY DEF Case!Discover
<1> HIDE DEF found
<1>. QED  BY <1>4, <1>7, <1>9, <1>10, <1>11, ResearchStatementKept

(* The rows a game begins with.                                            *)
LEMMA CaseBegins == Case!Init => CaseInv
<1> SUFFICES ASSUME Case!Init PROVE CaseInv
  OBVIOUS
<1>1. PICK child \in BOOLEAN, consent \in BOOLEAN : caseGame = Case!NewGame(child, consent)
  BY DEF Case!Init
<1>2. /\ caseGame \in CaseGames /\ caseGame.status = "mapped" /\ caseGame.events = <<>>
  BY <1>1 DEF Case!NewGame, CaseGames, CaseStates
<1>3. /\ caseRun \in CaseRuns /\ caseRun.state = None /\ ~caseRun.record /\ caseRun.active = None
  BY CaseAssumption DEF Case!Init, Case!NoRun, CaseRuns
<1>4. /\ caseArtifacts \in CaseArtifacts /\ caseArtifacts.review = None
      /\ caseArtifacts.result = None /\ caseArtifacts.actions = 0 /\ caseArtifacts.notes = <<>>
      /\ caseArtifacts.research = Case!NoResearch
  <2>1. Case!NoResearch \in CaseResearch
    BY DEF Case!NoResearch, CaseResearch
  <2>. QED  BY <2>1 DEF Case!Init, Case!Bare, CaseArtifacts
<1>5. caseRequests = [r \in CaseRequests |-> [stage |-> None, status |-> "absent"]]
  BY DEF Case!Init, CaseRequests
<1>6. MovesFit(caseGame)
  BY <1>2, CaseAssumption DEF MovesFit, Case!GroupsVerify, EndedStates, Case!Over
<1>7. /\ caseLog = <<>> /\ HistoryFits(caseRun, caseLog)
  BY <1>3 DEF HistoryFits, Case!Init
<1>8. Case!TerminalEvidence \cup {Case!Unavailable[s] : s \in Case!Stages}
        \cup {Case!Running[s] : s \in Case!Stages} \cup {"chess_terminal"} \subseteq Case!LifecycleStates
  BY DEF Case!TerminalEvidence, Case!PortiaEvidence, Case!Executable, Case!Stages,
    Case!Unavailable, Case!Running, Case!LifecycleStates, Case!Transitions
<1>9. /\ Case!PortiaEvidence \subseteq Case!TerminalEvidence
      /\ Case!GateEvidence \subseteq Case!PortiaEvidence /\ Case!Executable \subseteq Case!PortiaEvidence
  BY DEF Case!TerminalEvidence, Case!PortiaEvidence, Case!GateEvidence, Case!Executable
<1>10. RunFits(caseRun, caseGame.events)
  BY <1>3, <1>8, CaseAssumption DEF RunFits
<1>11. WorkFits(caseRun, caseArtifacts, caseRequests)
  BY <1>3, <1>4, <1>5, <1>8, <1>9, CaseAssumption DEF WorkFits
<1>12. NotesFit(caseArtifacts, caseGame.consent)
  <2>1. 0 \in 0..SourceLimit
    BY CaseAssumption
  <2>2. /\ caseArtifacts.research.sources = [i \in 1..0 |-> i]
        /\ caseArtifacts.research.facts = {} /\ caseArtifacts.research.failures = {}
        /\ caseArtifacts.research.status = "absent"
    BY <1>4 DEF Case!NoResearch
  <2>3. Cardinality({}) <= FetchLimit
    BY FS_EmptySet, CaseAssumption
  <2>4. ResearchFits(caseArtifacts.research, caseGame.consent, 0)
    BY <2>2, <2>3 DEF ResearchFits
  <2>. QED  BY <2>1, <2>4, <1>4 DEF NotesFit
<1>13. CaseTyped
  BY <1>2, <1>3, <1>4, <1>5, <1>7 DEF CaseTyped, CaseCalls, Case!Init
<1>. QED  BY <1>6, <1>7, <1>10, <1>11, <1>12, <1>13 DEF CaseInv

(* Every statement keeps the invariant.                                    *)
LEMMA CaseStepKept ==
  ASSUME CaseInv, [Case!Next]_caseVars
  PROVE  CaseInv'
<1>1. CASE UNCHANGED caseVars
  BY <1>1 DEF caseVars, CaseInv, CaseTyped
<1>2. CASE Case!Next
  <2>1. CASE Case!EnsureRun \/ Case!CreateRetryRun
    BY <2>1, RunMadeKept
  <2>2. CASE Case!Start \/ Case!AppendMove \/ Case!BeginAnswer \/ Case!EndAnswer \/ Case!Abandon
    BY <2>2, GameStatementsKept
  <2>3. CASE Case!SyncStart \/ Case!SyncTerminal \/ Case!Queue
    BY <2>3, SyncKept
  <2>4. CASE Case!Authorize \/ Case!Resolve \/ Case!Progress
    BY <2>4, PlainMovesKept
  <2>5. CASE Case!Judge
    BY <2>5, JudgeKept
  <2>6. CASE Case!Plan \/ Case!Observe
    BY <2>6, WilburKept
  <2>7. CASE Case!Discover
    BY <2>7, DiscoverKept
  <2>9. CASE Case!Research \/ Case!GiveUp
    BY <2>9, ResearchKept
  <2>8. ASSUME NEW r \in CaseRequests,
               Case!Reserve(r) \/ Case!Attempt(r) \/ Case!Settle(r) \/ Case!Store(r) \/ Case!Fail(r)
        PROVE  CaseInv'
    BY <2>8, RequestKept, AttemptKept, StoreKept, FailKept
  <2>. QED
    BY <1>2, <2>1, <2>2, <2>3, <2>4, <2>5, <2>6, <2>7, <2>8, <2>9
    DEF Case!Next, CaseRequests
<1>. QED  BY <1>1, <1>2

(* The invariant of a case.                                                *)
THEOREM CaseInvariant == MCSpec => [](part = "case" => CaseInv)
<1>1. MCInit => (part = "case" => CaseInv)
  BY CaseBegins DEF MCInit
<1>2. /\ part = "case" => CaseInv
      /\ [MCNext]_<<part, divisionVars, lineVars, facadeVars, pageVars, bridgeVars, caseVars>>
      => (part = "case" => CaseInv)'
  <2> SUFFICES ASSUME part = "case" => CaseInv,
                      [MCNext]_<<part, divisionVars, lineVars, facadeVars, pageVars, bridgeVars,
                                 caseVars>>,
                      part' = "case"
               PROVE  CaseInv'
    OBVIOUS
  <2>1. part = "case" /\ [Case!Next]_caseVars
    BY DEF MCNext, DivisionStep, LineageStep, FacadeStep, PageStep, BridgeStep, CaseStep
  <2>. QED  BY <2>1, CaseStepKept
<1>. QED  BY <1>1, <1>2, PTL DEF MCSpec

-----------------------------------------------------------------------------
(* What a bundle holds.                                                    *)

(* A seal keeps the profile and the data it was made over.                 *)
LEMMA SealHolds ==
  ASSUME NEW p, NEW d
  PROVE  /\ Case!Seal(p, d).profile = p /\ Case!Seal(p, d).data = d
         /\ Case!Seal(p, d).entries = d /\ Case!Seal(p, d).root = <<p, d>>
BY DEF Case!Seal

(* A function on 1..n is a sequence of n elements.                         *)
LEMMA TableIsSequence ==
  ASSUME NEW n \in Nat, NEW f, f = [i \in 1..n |-> f[i]]
  PROVE  /\ f \in Seq({f[i] : i \in 1..n}) /\ Len(f) = n /\ DOMAIN f = 1..n
         /\ f = <<>> <=> n = 0
<1>1. f \in [1..n -> {f[i] : i \in 1..n}]
  OBVIOUS
<1>2. f \in Seq({f[i] : i \in 1..n})
  BY <1>1, SeqDef
<1>3. Len(f) \in Nat /\ DOMAIN f = 1..Len(f)
  BY <1>2
<1>4. Len(f) = n
  BY <1>1, <1>3
<1>. QED  BY <1>2, <1>4

(* The game's section.                                                     *)
GameSection(g, p) ==
  /\ g.status = caseGame.status /\ g.consent = caseGame.consent
  /\ g.revision = caseGame.revision /\ g.summary = Case!Over(caseGame.events)
  /\ Len(caseGame.events) \in Nat /\ Len(g.events) = Len(caseGame.events)
  /\ DOMAIN caseGame.events = 1..Len(caseGame.events)
  /\ DOMAIN g.events = 1..Len(caseGame.events)
  /\ g.events = <<>> <=> Len(caseGame.events) = 0
  /\ caseGame.events = <<>> <=> Len(caseGame.events) = 0
  /\ g.events \in Seq({g.events[n] : n \in 1..Len(caseGame.events)})
  /\ \A n \in 1..Len(caseGame.events) :
       /\ g.events[n] = Case!PackedEvent(Case!Rows, p, n)
       /\ g.events[n].ply = n
       /\ g.events[n].revision = caseGame.events[n].revision
       /\ g.events[n].source = caseGame.events[n].source
       /\ caseGame.events[n].revision \in Nat
       /\ caseGame.events[n].source \in {"client", "server"}
       /\ g.events[n].digest =
            IF caseGame.events[n].source = "client" /\ "requestSha256" \in Case!Kept[p]
            THEN caseGame.events[n].revision - 1 ELSE None
       /\ g.events[n].key =
            IF caseGame.events[n].source = "client" /\ "idempotencyKey" \in Case!Kept[p]
            THEN n ELSE None

(* The section an export packs of the game is that one.                    *)
LEMMA GamePacked ==
  ASSUME CaseInv, NEW p \in Case!Profiles, NEW g, g = Case!Data(Case!Rows, p).game
  PROVE  GameSection(g, p)
<1> DEFINE events == caseGame.events
           L == Len(events)
<1>1. g = [status |-> caseGame.status, consent |-> caseGame.consent, revision |-> caseGame.revision,
           summary |-> Case!Over(events),
           events |-> [n \in DOMAIN events |-> Case!PackedEvent(Case!Rows, p, n)]]
  BY DEF Case!Data, Case!PackedGame, Case!Rows
<1>2. events \in Seq(CaseMove) /\ L \in Nat /\ DOMAIN events = 1..L /\ (events = <<>> <=> L = 0)
  BY CaseFacts DEF CaseGames
<1>3. \A n \in 1..L : events[n] \in CaseMove
  BY <1>2
<1>4. g.events = [n \in 1..L |-> Case!PackedEvent(Case!Rows, p, n)]
  BY <1>1, <1>2
<1>5. /\ g.events = [n \in 1..L |-> g.events[n]]
      /\ \A n \in 1..L : g.events[n] = Case!PackedEvent(Case!Rows, p, n)
  BY <1>4
<1>6. /\ Len(g.events) = L /\ DOMAIN g.events = 1..L /\ (g.events = <<>> <=> L = 0)
      /\ g.events \in Seq({g.events[n] : n \in 1..L})
  BY <1>2, <1>5, TableIsSequence
<1>7. ASSUME NEW n \in 1..L
      PROVE  LET e == events[n] IN
             /\ g.events[n].ply = n
             /\ g.events[n].revision = e.revision /\ g.events[n].source = e.source
             /\ e.revision \in Nat /\ e.source \in {"client", "server"}
             /\ g.events[n].digest = IF e.source = "client" /\ "requestSha256" \in Case!Kept[p]
                                     THEN e.revision - 1 ELSE None
             /\ g.events[n].key = IF e.source = "client" /\ "idempotencyKey" \in Case!Kept[p]
                                  THEN n ELSE None
  <2> DEFINE e == events[n]
  <2>1. e \in CaseMove /\ e.revision \in Nat /\ e.source \in {"client", "server"}
    BY <1>3 DEF CaseMove
  <2>2. Case!PackedEvent(Case!Rows, p, n) =
          [ply |-> n, revision |-> e.revision, source |-> e.source,
           digest |-> IF e.source = "client" /\ "requestSha256" \in Case!Kept[p]
                      THEN e.revision - 1 ELSE None,
           key |-> IF e.source = "client" /\ "idempotencyKey" \in Case!Kept[p] THEN n ELSE None]
    BY DEF Case!PackedEvent, Case!Rows
  <2>3. g.events[n] = Case!PackedEvent(Case!Rows, p, n)
    BY <1>5
  <2> HIDE DEF e
  <2>4. /\ g.events[n].ply = n
        /\ g.events[n].revision = e.revision /\ g.events[n].source = e.source
        /\ g.events[n].digest = IF e.source = "client" /\ "requestSha256" \in Case!Kept[p]
                                THEN e.revision - 1 ELSE None
        /\ g.events[n].key = IF e.source = "client" /\ "idempotencyKey" \in Case!Kept[p]
                             THEN n ELSE None
    BY <2>2, <2>3
  <2>. QED  BY <2>1, <2>4 DEF e
<1>8. /\ g.status = caseGame.status /\ g.consent = caseGame.consent
      /\ g.revision = caseGame.revision /\ g.summary = Case!Over(events)
  BY <1>1
<1> HIDE DEF events, L
<1>. QED  BY <1>2, <1>5, <1>6, <1>7, <1>8 DEF events, L, GameSection

(* The run's.                                                              *)
LifecycleSection(d, p) ==
  /\ d.identity = caseRun.child /\ d.lifecycle.run = caseRun
  /\ d.lifecycle.evidence = Case!Evidence(Case!Rows, p)
  /\ d.lifecycle.research = Case!PackedResearch(Case!Rows, p)
  /\ d.lifecycle.artifacts.review = caseArtifacts.review
  /\ d.lifecycle.artifacts.gate = caseArtifacts.gate
  /\ d.lifecycle.artifacts.result = caseArtifacts.result
  /\ d.lifecycle.artifacts.actions = caseArtifacts.actions
  /\ d.lifecycle.artifacts.notes = caseArtifacts.notes
  /\ d.redaction = [profile |-> p, allowlist |-> Case!Kept[p], omissions |-> Case!Omitted[p]]
  /\ \A r \in CaseRequests :
       {c \in d.providerInvocations : c[1] = r} =
         IF caseRequests[r].stage # None THEN {<<r, caseRequests[r]>>} ELSE {}

(* The sections of the run and its requests.                               *)
LEMMA LifecyclePacked ==
  ASSUME CaseInv, NEW p \in Case!Profiles, NEW d, d = Case!Data(Case!Rows, p)
  PROVE  LifecycleSection(d, p)
<1>1. d = [identity |-> caseRun.child, game |-> Case!PackedGame(Case!Rows, p),
           lifecycle |-> Case!PackedLifecycle(Case!Rows, p),
           providerInvocations |-> Case!PackedRequests(Case!Rows),
           redaction |-> [profile |-> p, allowlist |-> Case!Kept[p], omissions |-> Case!Omitted[p]]]
  BY DEF Case!Data, Case!Rows
<1>2. d.lifecycle = [run |-> caseRun, evidence |-> Case!Evidence(Case!Rows, p),
                     artifacts |-> Case!PackedArtifacts(Case!Rows),
                     research |-> Case!PackedResearch(Case!Rows, p),
                     activities |-> Case!PackedActivities(Case!Rows)]
  BY <1>1 DEF Case!PackedLifecycle, Case!Rows
<1>3. d.lifecycle.artifacts =
        [field \in DOMAIN caseArtifacts \ {"research"} |-> caseArtifacts[field]]
  BY <1>2 DEF Case!PackedArtifacts, Case!Rows
<1>4. DOMAIN caseArtifacts = {"review", "gate", "result", "actions", "notes", "research"}
  BY CaseFacts DEF CaseArtifacts
<1>5. /\ d.lifecycle.artifacts.review = caseArtifacts.review
      /\ d.lifecycle.artifacts.gate = caseArtifacts.gate
      /\ d.lifecycle.artifacts.result = caseArtifacts.result
      /\ d.lifecycle.artifacts.actions = caseArtifacts.actions
      /\ d.lifecycle.artifacts.notes = caseArtifacts.notes
  BY <1>3, <1>4
<1>6. d.providerInvocations =
        {<<r, caseRequests[r]>> : r \in {x \in CaseRequests : caseRequests[x].stage # None}}
  BY <1>1 DEF Case!PackedRequests, Case!Rows, CaseRequests
<1>7. ASSUME NEW r \in CaseRequests
      PROVE  {c \in d.providerInvocations : c[1] = r} =
                IF caseRequests[r].stage # None THEN {<<r, caseRequests[r]>>} ELSE {}
  BY <1>6
<1>. QED  BY <1>1, <1>2, <1>5, <1>7 DEF LifecycleSection

(* The activities.                                                         *)
ActivitySection(acts) ==
  /\ Len(caseLog) \in Nat /\ Len(acts) = Len(caseLog) /\ DOMAIN acts = 1..Len(caseLog)
  /\ DOMAIN caseLog = 1..Len(caseLog)
  /\ acts = <<>> <=> Len(caseLog) = 0
  /\ acts \in Seq({acts[n] : n \in 1..Len(caseLog)})
  /\ \A n \in 1..Len(caseLog) :
       /\ acts[n] = <<n, caseLog[n]>>
       /\ caseLog[n] \in (Case!LifecycleStates \cup {None}) \X Case!LifecycleStates

(* The section of the activities.                                          *)
LEMMA ActivitiesPacked ==
  ASSUME CaseInv, NEW p \in Case!Profiles, NEW acts,
         acts = Case!Data(Case!Rows, p).lifecycle.activities
  PROVE  ActivitySection(acts)
<1> DEFINE L == Len(caseLog)
<1>1. /\ caseLog \in Seq((Case!LifecycleStates \cup {None}) \X Case!LifecycleStates)
      /\ L \in Nat /\ DOMAIN caseLog = 1..L
      /\ \A n \in 1..L : caseLog[n] \in (Case!LifecycleStates \cup {None}) \X Case!LifecycleStates
  BY DEF CaseInv, CaseTyped
<1>2. acts = [n \in 1..L |-> <<n, caseLog[n]>>]
  BY <1>1 DEF Case!Data, Case!PackedLifecycle, Case!PackedActivities, Case!Rows
<1>3. /\ acts = [n \in 1..L |-> acts[n]]
      /\ \A n \in 1..L : acts[n] = <<n, caseLog[n]>>
  BY <1>2
<1>4. /\ Len(acts) = L /\ DOMAIN acts = 1..L /\ (acts = <<>> <=> L = 0)
      /\ acts \in Seq({acts[n] : n \in 1..L})
  BY <1>1, <1>3, TableIsSequence
<1> HIDE DEF L
<1>. QED  BY <1>1, <1>3, <1>4 DEF L, ActivitySection

(* The research: sources from 1 to k, and the pages of some of them.       *)
ResearchSection(r, p, k) ==
  /\ r.consent = caseGame.consent /\ r.limit = SourceLimit
  /\ caseGame.consent \/ (k = 0 /\ r.status \in {"absent", "not_needed"})
  /\ Len(r.sources) = k /\ DOMAIN r.sources = 1..k /\ (r.sources = <<>> <=> k = 0)
  /\ r.sources \in Seq({r.sources[i] : i \in 1..k})
  /\ \A i \in 1..k : /\ r.sources[i].ordinal = i
                     /\ r.sources[i].url = IF "narrative" \in Case!Kept[p] THEN i ELSE None
  /\ r.facts \cap r.failures = {}
  /\ r.facts \cup r.failures \subseteq IF "narrative" \in Case!Kept[p] THEN 1..k ELSE {}
  /\ Cardinality(r.facts \cup r.failures) <= FetchLimit

(* The section of the research.                                            *)
LEMMA ResearchPacked ==
  ASSUME CaseInv, NEW p \in Case!Profiles, NEW r, r = Case!PackedResearch(Case!Rows, p)
  PROVE  \E k \in 0..SourceLimit : ResearchSection(r, p, k)
<1> DEFINE own == caseArtifacts.research
<1>1. PICK k \in 0..SourceLimit :
        /\ own.sources = [i \in 1..k |-> i] /\ own.facts \cup own.failures \subseteq 1..k
        /\ Cardinality(own.facts \cup own.failures) <= FetchLimit
        /\ own.facts \cap own.failures = {}
        /\ caseGame.consent \/ (k = 0 /\ own.status \in {"absent", "not_needed"})
  BY CaseFacts DEF NotesFit, ResearchFits
<1>2. r = [consent |-> caseGame.consent, status |-> own.status, limit |-> SourceLimit,
           sources |-> [n \in DOMAIN own.sources |-> Case!PackedSource(Case!Rows, p, n)],
           facts |-> IF "narrative" \in Case!Kept[p] THEN own.facts ELSE {},
           failures |-> IF "narrative" \in Case!Kept[p] THEN own.failures ELSE {}]
  BY DEF Case!PackedResearch, Case!Rows
<1>3. k \in Nat
  BY CaseAssumption
<1>4. r.sources = [i \in 1..k |-> Case!PackedSource(Case!Rows, p, i)]
  BY <1>1, <1>2
<1>5. ASSUME NEW i \in 1..k
      PROVE  /\ r.sources[i].ordinal = i
             /\ r.sources[i].url = IF "narrative" \in Case!Kept[p] THEN i ELSE None
  BY <1>1, <1>4 DEF Case!PackedSource, Case!Rows
<1>6. r.sources = [i \in 1..k |-> r.sources[i]]
  BY <1>4
<1>7. /\ Len(r.sources) = k /\ DOMAIN r.sources = 1..k /\ (r.sources = <<>> <=> k = 0)
      /\ r.sources \in Seq({r.sources[i] : i \in 1..k})
  BY <1>3, <1>6, TableIsSequence
<1>8. /\ r.consent = caseGame.consent /\ r.limit = SourceLimit /\ r.status = own.status
      /\ r.facts \cap r.failures = {}
      /\ r.facts \cup r.failures \subseteq IF "narrative" \in Case!Kept[p] THEN 1..k ELSE {}
  BY <1>1, <1>2
<1>9. Cardinality(r.facts \cup r.failures) <= FetchLimit
  <2>1. Cardinality({}) <= FetchLimit
    BY FS_EmptySet, CaseAssumption
  <2>2. \/ r.facts \cup r.failures = own.facts \cup own.failures
        \/ r.facts \cup r.failures = {}
    BY <1>2
  <2>. QED  BY <2>1, <2>2, <1>1
<1>. QED  BY <1>1, <1>5, <1>7, <1>8, <1>9 DEF ResearchSection

(* The directional record.                                                 *)
EvidenceSection(e, p) ==
  IF caseRun.record
  THEN /\ e.status = "bound"
       /\ e.record = IF "narrative" \in Case!Kept[p] THEN Case!Recorded(caseGame.events) ELSE None
  ELSE e.status = "not_terminal" /\ e.record = None

(* The section of the directional record.                                  *)
LEMMA EvidencePacked ==
  ASSUME CaseInv, NEW p \in Case!Profiles, NEW e, e = Case!Evidence(Case!Rows, p)
  PROVE  EvidenceSection(e, p)
BY DEF Case!Evidence, Case!Rows, EvidenceSection

(* Outside the windows every part of an export verifies.                   *)
CaseWindows == Case!Unsettled \/ Case!Unstarted \/ Case!Unsynchronized \/ Case!Belated

(* The manifest and the declared fields are those of the profile.          *)
LEMMA ShapeStands ==
  ASSUME CaseInv, NEW p \in Case!Profiles
  PROVE  Case!ManifestVerifies(Case!Bundle(p)) /\ Case!ShapeVerifies(Case!Bundle(p))
<1> DEFINE d == Case!Data(Case!Rows, p)
           b == Case!Bundle(p)
<1>1. b.profile = p /\ b.data = d /\ b.entries = d /\ b.root = <<p, d>>
  BY SealHolds DEF Case!Bundle
<1>x. d = Case!Data(Case!Rows, p) /\ b = Case!Bundle(p)
  OBVIOUS
<1> HIDE DEF b, d
<1>y. LifecycleSection(d, p) /\ GameSection(d.game, p)
  BY <1>x, LifecyclePacked, GamePacked
<1>2. d.redaction = [profile |-> p, allowlist |-> Case!Kept[p], omissions |-> Case!Omitted[p]]
  BY <1>y DEF LifecycleSection
<1>3. ASSUME NEW n \in DOMAIN d.game.events
      PROVE  /\ d.game.events[n].digest # None => "requestSha256" \in Case!Kept[p]
             /\ d.game.events[n].key # None => "idempotencyKey" \in Case!Kept[p]
  BY <1>y, <1>3 DEF GameSection
<1>4. /\ d.lifecycle.evidence.record # None => "narrative" \in Case!Kept[p]
      /\ d.lifecycle.research.consent = d.game.consent
  <2>1. /\ d.lifecycle.evidence = Case!Evidence(Case!Rows, p)
        /\ d.lifecycle.research = Case!PackedResearch(Case!Rows, p)
    BY <1>y DEF LifecycleSection
  <2>2. d.lifecycle.evidence.record # None => "narrative" \in Case!Kept[p]
    BY <2>1, EvidencePacked DEF EvidenceSection
  <2>3. d.lifecycle.research.consent = caseGame.consent
    BY <2>1, ResearchPacked DEF ResearchSection
  <2>4. d.game.consent = caseGame.consent
    BY <1>y DEF GameSection
  <2>. QED  BY <2>2, <2>3, <2>4
<1>5. Case!ManifestVerifies(b)
  BY <1>1 DEF Case!ManifestVerifies
<1>6. Case!ShapeVerifies(b)
  BY <1>1, <1>2, <1>3, <1>4
  DEF Case!ShapeVerifies, Case!DeclaredVerifies, Case!GameShapeVerifies, Case!LifecycleShapeVerifies
<1>. QED  BY <1>x, <1>5, <1>6

(* The events of a game that was started.                                  *)
LEMMA EventsStand ==
  ASSUME CaseInv, NEW p \in Case!Profiles, ~Case!Unstarted
  PROVE  Case!EventsVerify(Case!Bundle(p))
<1> DEFINE g == Case!Data(Case!Rows, p).game
           b == Case!Bundle(p)
           own == caseGame.events
           L == Len(own)
<1>1. b.profile = p /\ b.data.game = g
  BY SealHolds DEF Case!Bundle
<1>x. g = Case!Data(Case!Rows, p).game /\ b = Case!Bundle(p) /\ own = caseGame.events
  OBVIOUS
<1> HIDE DEF g, b, own
<1>y. GameSection(g, p)
  BY <1>x, GamePacked
<1>2. /\ g.status = caseGame.status /\ g.revision = caseGame.revision
      /\ L \in Nat /\ Len(g.events) = L /\ DOMAIN g.events = 1..L /\ DOMAIN own = 1..L
      /\ (g.events = <<>> <=> L = 0) /\ (own = <<>> <=> L = 0)
  BY <1>x, <1>y DEF GameSection
<1>3. \A n \in 1..L :
        /\ g.events[n].revision = own[n].revision /\ g.events[n].source = own[n].source
        /\ own[n].revision \in Nat /\ own[n].source \in {"client", "server"}
        /\ g.events[n].digest = IF own[n].source = "client" /\ "requestSha256" \in Case!Kept[p]
                                THEN own[n].revision - 1 ELSE None
        /\ g.events[n].key = IF own[n].source = "client" /\ "idempotencyKey" \in Case!Kept[p]
                             THEN n ELSE None
  BY <1>x, <1>y DEF GameSection
<1>4. /\ MovesFit(caseGame) /\ caseGame.revision \in Nat /\ caseGame.revision # 0
      /\ caseGame.status \in CaseStates
  BY CaseFacts DEF CaseGames, Case!Unstarted
<1>5. Case!GroupsVerify(g.events)
  <2>1. Case!GroupsVerify(own)
    BY <1>x, <1>4 DEF MovesFit
  <2>2. \A n \in 1..L :
          /\ IF n = 1 \/ own[n].revision # own[n - 1].revision
             THEN /\ own[n].source = "client"
                  /\ n > 1 => own[n].revision = own[n - 1].revision + 1
             ELSE own[n].source = "server"
          /\ own[n].revision > 0
    BY <2>1, <1>2 DEF Case!GroupsVerify
  <2>3. ASSUME NEW n \in 1..L
        PROVE  /\ IF n = 1 \/ g.events[n].revision # g.events[n - 1].revision
                  THEN /\ g.events[n].source = "client"
                       /\ n > 1 => g.events[n].revision = g.events[n - 1].revision + 1
                  ELSE g.events[n].source = "server"
               /\ g.events[n].revision > 0
    <3>1. CASE n = 1
      BY <3>1, <2>2, <1>3
    <3>2. CASE n # 1
      <4>1. n - 1 \in 1..L /\ n > 1
        BY <3>2, <1>2
      <4>2. g.events[n - 1].revision = own[n - 1].revision
        BY <4>1, <1>3
      <4>. QED  BY <3>2, <4>1, <4>2, <2>2, <1>3
    <3>. QED  BY <3>1, <3>2
  <2>. QED  BY <2>3, <1>2 DEF Case!GroupsVerify
<1>6. "idempotencyKey" \in Case!Kept[p] =>
        /\ \A n \in DOMAIN g.events :
             g.events[n].key # None <=> n \in {m \in DOMAIN g.events : g.events[m].source = "client"}
        /\ \A m, n \in {m \in DOMAIN g.events : g.events[m].source = "client"} :
             g.events[m].key = g.events[n].key => m = n
  <2>1. \A n \in 1..L : n # None
    BY CaseAssumption, <1>2
  <2>. QED  BY <2>1, <1>2, <1>3
<1>7. "requestSha256" \in Case!Kept[p] =>
        \A n \in DOMAIN g.events :
          g.events[n].digest =
            IF n \in {m \in DOMAIN g.events : g.events[m].source = "client"}
            THEN g.events[n].revision - 1 ELSE None
  BY <1>2, <1>3
<1>8. g.revision > 0 /\ (g.status = "mapped" => g.events = <<>>)
  BY <1>x, <1>2, <1>4 DEF MovesFit
<1>9. g.events # <<>> =>
        /\ g.events[Len(g.events)].revision <= g.revision
        /\ g.status \in {"playing", "completed"} => g.revision = g.events[Len(g.events)].revision
        /\ g.status \in Case!Settling => g.revision > g.events[Len(g.events)].revision
  <2>1. ASSUME g.events # <<>>
        PROVE  /\ g.events[L].revision = own[L].revision /\ own[L].revision \in Nat
               /\ IF caseGame.status \in {"playing", "completed"}
                  THEN caseGame.revision = own[L].revision
                  ELSE caseGame.revision > own[L].revision
    <3>1. L \in 1..L /\ own # <<>>
      BY <2>1, <1>2
    <3>. QED  BY <3>1, <1>x, <1>3, <1>4 DEF MovesFit
  <2>. QED  BY <2>1, <1>2, <1>4 DEF Case!Settling
<1>. QED
  BY <1>1, <1>5, <1>6, <1>7, <1>8, <1>9, <1>x DEF Case!EventsVerify

(* What is referred to is there, and was paid for.                         *)
LEMMA WorkStands ==
  ASSUME CaseInv, NEW p \in Case!Profiles, ~Case!Unsettled
  PROVE  LET b == Case!Bundle(p) IN
         /\ Case!ReferencesVerify(b) /\ Case!EvidenceVerifies(b)
         /\ Case!BindingsVerify(b) /\ Case!BudgetsVerify(b)
<1> DEFINE d == Case!Data(Case!Rows, p)
           b == Case!Bundle(p)
           a == d.lifecycle.artifacts
<1>1. b.profile = p /\ b.data = d
  BY SealHolds DEF Case!Bundle
<1>2. /\ d.identity = caseRun.child /\ d.lifecycle.run = caseRun
      /\ a.review = caseArtifacts.review /\ a.gate = caseArtifacts.gate
      /\ a.result = caseArtifacts.result /\ a.actions = caseArtifacts.actions
      /\ a.notes = caseArtifacts.notes
      /\ \A r \in CaseRequests :
           {c \in d.providerInvocations : c[1] = r} =
             IF caseRequests[r].stage # None THEN {<<r, caseRequests[r]>>} ELSE {}
  BY LifecyclePacked DEF LifecycleSection
<1> HIDE DEF d, b
<1>3. \A r \in CaseRequests :
        Case!Packed(b, r) = IF caseRequests[r].stage # None THEN {<<r, caseRequests[r]>>} ELSE {}
  BY <1>1, <1>2 DEF Case!Packed
<1>4. \A some : \A r \in CaseRequests, s \in Case!Stages :
        caseRequests[r].stage = s /\ caseRequests[r].status \in some => Case!Bound(b, r, s, some)
  <2>1. SUFFICES ASSUME NEW r \in CaseRequests, NEW s \in Case!Stages, NEW some,
                        caseRequests[r].stage = s, caseRequests[r].status \in some
                 PROVE  Case!Bound(b, r, s, some)
    OBVIOUS
  <2>2. s # None
    BY CaseAssumption
  <2>3. <<r, caseRequests[r]>> \in Case!Packed(b, r)
    BY <2>1, <2>2, <1>3
  <2>. QED  BY <2>1, <2>3 DEF Case!Bound
<1>5. /\ caseArtifacts.review \in CaseRequests \cup {None}
      /\ caseArtifacts.result \in CaseRequests \cup {None}
      /\ caseRun.active \in CaseRequests \cup {None}
      /\ WorkFits(caseRun, caseArtifacts, caseRequests) /\ RunFits(caseRun, caseGame.events)
      /\ caseRun.failed \in [Case!Stages -> 0..FailureLimit]
  BY CaseFacts DEF CaseArtifacts, CaseRuns
<1>6. "portia" \in Case!Stages /\ "charlotte" \in Case!Stages
  BY DEF Case!Stages
<1>7. /\ a.review # None => Case!Bound(b, a.review, "portia", {"succeeded"})
      /\ a.result # None => Case!Bound(b, a.result, "charlotte", {"succeeded"})
  BY <1>2, <1>4, <1>5, <1>6 DEF WorkFits, Succeeded
<1>8. \A s \in Case!Stages :
        caseRun.state = Case!Running[s] => Case!Bound(b, caseRun.active, s, {"in_progress", "succeeded"})
  <2>1. SUFFICES ASSUME NEW s \in Case!Stages, caseRun.state = Case!Running[s]
                 PROVE  Case!Bound(b, caseRun.active, s, {"in_progress", "succeeded"})
    OBVIOUS
  <2>2. caseRun.active \in CaseRequests /\ caseRequests[caseRun.active].stage = s
    BY <2>1, <1>5 DEF WorkFits
  <2>3. caseRequests[caseRun.active].status \notin {"failed", "indeterminate"}
    BY <2>1 DEF Case!Unsettled
  <2>4. caseRequests[caseRun.active].status # "absent"
    BY <2>2, <1>5, CaseAssumption DEF WorkFits
  <2>5. caseRequests[caseRun.active].status \in {"in_progress", "succeeded"}
    BY <2>2, <2>3, <2>4, CaseFacts DEF CaseCalls
  <2>. QED  BY <2>2, <2>5, <1>4
<1>9. Case!BindingsVerify(b)
  BY <1>1, <1>2, <1>5, <1>7, <1>8 DEF Case!BindingsVerify, WorkFits
<1>10. Case!ReferencesVerify(b)
  <2>1. /\ a.review # None => Case!Packed(b, a.review) # {}
        /\ a.result # None => Case!Packed(b, a.result) # {}
    BY <1>7 DEF Case!Bound
  <2>2. \A n \in DOMAIN caseArtifacts.notes : caseArtifacts.notes[n] \in 1..caseArtifacts.actions
    BY CaseFacts DEF NotesFit
  <2>. QED  BY <2>1, <2>2, <1>1, <1>2 DEF Case!ReferencesVerify
<1>11. Case!EvidenceVerifies(b)
  BY <1>1, <1>2, <1>5 DEF Case!EvidenceVerifies, WorkFits
<1>12. Case!BudgetsVerify(b)
  BY <1>1, <1>2, <1>5, CaseAssumption DEF Case!BudgetsVerify, RunFits
<1>. QED  BY <1>9, <1>10, <1>11, <1>12 DEF b

(* The research of a consenting player.                                    *)
LEMMA ResearchStands ==
  ASSUME CaseInv, NEW p \in Case!Profiles
  PROVE  Case!ResearchVerifies(Case!Bundle(p))
<1> DEFINE r == Case!Data(Case!Rows, p).lifecycle.research
<1>1. Case!Bundle(p).data.lifecycle.research = r /\ r = Case!PackedResearch(Case!Rows, p)
  <2>1. Case!Bundle(p).data = Case!Data(Case!Rows, p)
    BY SealHolds DEF Case!Bundle
  <2>2. r = Case!PackedResearch(Case!Rows, p)
    BY LifecyclePacked DEF LifecycleSection
  <2>. QED  BY <2>1, <2>2
<1> HIDE DEF r
<1>2. PICK k \in 0..SourceLimit : ResearchSection(r, p, k)
  BY <1>1, ResearchPacked
<1>3. k \in Nat /\ k <= SourceLimit
  BY CaseAssumption
<1>4. Case!OptOutVerifies(r)
  BY <1>2, <1>3 DEF Case!OptOutVerifies, ResearchSection
<1>5. Case!SourcesVerify(r)
  <2>1. {r.sources[i].ordinal : i \in 1..k} = 1..k
    BY <1>2 DEF ResearchSection
  <2>2. \A i, j \in 1..k : r.sources[i].url = r.sources[j].url => i = j \/ r.sources[i].url = None
    BY <1>2 DEF ResearchSection
  <2>. QED  BY <2>1, <2>2, <1>2, <1>3 DEF Case!SourcesVerify, ResearchSection
<1>6. Case!PagesVerify(r)
  <2>1. ASSUME NEW page \in r.facts \cup r.failures
        PROVE  \E i \in DOMAIN r.sources : r.sources[i].url = page
    <3>1. page \in 1..k /\ "narrative" \in Case!Kept[p]
      BY <2>1, <1>2 DEF ResearchSection
    <3>. QED  BY <3>1, <1>2 DEF ResearchSection
  <2>2. Cardinality(r.facts \cup r.failures) <= FetchLimit /\ r.facts \cap r.failures = {}
    BY <1>2 DEF ResearchSection
  <2>3. Case!Cardinality(r.facts \cup r.failures) <= FetchLimit
    BY <2>2, PagesCounted
  <2>. QED  BY <2>1, <2>2, <2>3 DEF Case!PagesVerify
<1>. QED  BY <1>1, <1>4, <1>5, <1>6 DEF Case!ResearchVerifies

(* The history of a run that was not made for a game given up.             *)
LEMMA HistoryStands ==
  ASSUME CaseInv, NEW p \in Case!Profiles, caseRun.state # None, ~Case!Belated
  PROVE  Case!HistoryVerifies(Case!Bundle(p))
<1> DEFINE acts == Case!Data(Case!Rows, p).lifecycle.activities
           b == Case!Bundle(p)
           L == Len(caseLog)
<1>1. b.data.lifecycle.activities = acts /\ b.data.lifecycle.run = caseRun
  <2>1. b.data = Case!Data(Case!Rows, p)
    BY SealHolds DEF Case!Bundle
  <2>2. Case!Data(Case!Rows, p).lifecycle.run = caseRun
    BY LifecyclePacked DEF LifecycleSection
  <2>. QED  BY <2>1, <2>2
<1>x. acts = Case!Data(Case!Rows, p).lifecycle.activities /\ b = Case!Bundle(p)
  OBVIOUS
<1> HIDE DEF acts, b
<1>2. /\ L \in Nat /\ Len(acts) = L /\ DOMAIN acts = 1..L /\ (acts = <<>> <=> L = 0)
      /\ DOMAIN caseLog = 1..L
      /\ \A n \in 1..L : acts[n] = <<n, caseLog[n]>>
  <2>1. ActivitySection(acts)
    BY <1>x, ActivitiesPacked
  <2>. QED  BY <2>1 DEF ActivitySection
<1>3. /\ caseLog # <<>> /\ caseLog[1] = Begins(caseRun.child)
      /\ \A n \in DOMAIN caseLog : n > 1 =>
           caseLog[n][1] = caseLog[n - 1][2] /\ Case!Legal(caseLog[n][1], caseLog[n][2])
      /\ caseLog[L][2] = caseRun.state
  BY DEF CaseInv, HistoryFits, Case!Belated
<1>4. L # 0 /\ 1 \in 1..L /\ L \in 1..L
  BY <1>2, <1>3, CaseFacts DEF CaseInv, CaseTyped
<1>5. /\ \A n \in 1..L : acts[n][1] = n /\ acts[n][2] = caseLog[n]
  BY <1>2
<1>6. /\ caseRun.child => caseLog[1][1] = None /\ caseLog[1][2] = "chess_ready"
      /\ ~caseRun.child => /\ caseLog[1] = <<"anansi_pending", "anansi_running">>
                           /\ Case!Legal(caseLog[1][1], caseLog[1][2])
  BY <1>3, CaseLegal DEF Begins
<1>7. \A n \in 1..L :
        \/ n = 1 /\ acts[1][2][1] = None /\ acts[1][2][2] = "chess_ready" /\ caseRun.child
        \/ Case!Legal(acts[n][2][1], acts[n][2][2])
  BY <1>2, <1>3, <1>4, <1>5, <1>6
<1>8. \A n \in 1..L : n > 1 => acts[n][2][1] = acts[n - 1][2][2]
  <2>1. SUFFICES ASSUME NEW n \in 1..L, n > 1
                 PROVE  acts[n][2][1] = acts[n - 1][2][2]
    OBVIOUS
  <2>2. n - 1 \in 1..L
    BY <2>1, <1>2
  <2>. QED  BY <2>1, <2>2, <1>2, <1>3, <1>5
<1>9. /\ acts # <<>> /\ acts[L][2][2] = caseRun.state
      /\ ~caseRun.child => acts[1][2] = <<"anansi_pending", "anansi_running">>
  BY <1>2, <1>3, <1>4, <1>5, <1>6
<1>. QED
  BY <1>1, <1>2, <1>5, <1>7, <1>8, <1>9 DEF Case!HistoryVerifies, b

(* The game ends as it claims, and has its record once it has ended.       *)
LEMMA ReplayStands ==
  ASSUME CaseInv, NEW p \in Case!Profiles, ~Case!Unsynchronized
  PROVE  Case!ReplayVerifies(Case!Bundle(p)) /\ Case!DirectionVerifies(Case!Bundle(p))
<1> DEFINE d == Case!Data(Case!Rows, p)
           g == d.game
           b == Case!Bundle(p)
           own == caseGame.events
           L == Len(own)
<1>1. b.profile = p /\ b.data = d
  BY SealHolds DEF Case!Bundle
<1>x. /\ d = Case!Data(Case!Rows, p) /\ b = Case!Bundle(p) /\ own = caseGame.events
      /\ g = Case!Data(Case!Rows, p).game
  OBVIOUS
<1>y. g = d.game
  OBVIOUS
<1> HIDE DEF d, b, own, g
<1>2. d.lifecycle.run = caseRun /\ d.lifecycle.evidence = Case!Evidence(Case!Rows, p)
  BY <1>x, LifecyclePacked DEF LifecycleSection
<1>3. /\ g.status = caseGame.status /\ g.summary = Case!Over(own)
      /\ L \in Nat /\ Len(g.events) = L /\ DOMAIN g.events = 1..L /\ DOMAIN own = 1..L
      /\ \A n \in 1..L : /\ g.events[n].ply = n
                         /\ g.events[n].revision = own[n].revision
                         /\ g.events[n].source = own[n].source
  <2>1. GameSection(g, p)
    BY <1>x, GamePacked
  <2>. QED  BY <2>1, <1>x DEF GameSection
<1>4. IF caseRun.record
      THEN /\ d.lifecycle.evidence.status = "bound"
           /\ d.lifecycle.evidence.record =
                IF "narrative" \in Case!Kept[p] THEN Case!Recorded(own) ELSE None
      ELSE d.lifecycle.evidence.status = "not_terminal" /\ d.lifecycle.evidence.record = None
  <2>1. EvidenceSection(d.lifecycle.evidence, p)
    BY <1>2, EvidencePacked
  <2>. QED  BY <2>1, <1>x DEF EvidenceSection
<1>5. Case!Over(g.events) = Case!Over(own)
  BY <1>3 DEF Case!Over
<1>6. /\ RunFits(caseRun, own) /\ MovesFit(caseGame) /\ caseGame.status \in CaseStates
      /\ Case!Over(own) => caseRun.record
  BY <1>x, CaseFacts DEF CaseGames, Case!Unsynchronized
<1>7. Case!ReplayVerifies(b)
  <2>1. /\ Case!Over(own) => caseGame.status \notin {"mapped", "playing"}
        /\ ~Case!Over(own) => caseGame.status \notin EndedStates
    BY <1>x, <1>6, CaseAssumption DEF MovesFit, Case!Over
  <2>2. caseRun.state \in Case!TerminalEvidence => g.summary
    BY <1>3, <1>6 DEF RunFits
  <2>3. g.summary = Case!Over(g.events)
    BY <1>3, <1>5
  <2>. QED  BY <2>1, <2>2, <2>3, <1>1, <1>2, <1>3, <1>5, <1>y DEF Case!ReplayVerifies, EndedStates
<1>8. Case!Recorded(g.events) = Case!Recorded(own)
  BY <1>3 DEF Case!Recorded, Case!CanonicalEvent
<1>9. Case!DirectionVerifies(b)
  BY <1>1, <1>4, <1>5, <1>6, <1>8, <1>y DEF Case!DirectionVerifies, RunFits
<1>. QED  BY <1>7, <1>9, <1>x

(* In a window one part of an export does not verify.                      *)
LEMMA WindowsRefuse ==
  ASSUME CaseInv, NEW p \in Case!Profiles, caseRun.state # None, CaseWindows
  PROVE  ~Case!Verifies(Case!Bundle(p))
<1> DEFINE d == Case!Data(Case!Rows, p)
           b == Case!Bundle(p)
<1>1. b.profile = p /\ b.data = d
  BY SealHolds DEF Case!Bundle
<1>x. d = Case!Data(Case!Rows, p) /\ b = Case!Bundle(p)
  OBVIOUS
<1> HIDE DEF b, d
<1>y. LifecycleSection(d, p) /\ GameSection(d.game, p)
  BY <1>x, LifecyclePacked, GamePacked
<1>2. CASE Case!Unsettled
  <2>1. PICK s \in Case!Stages : /\ caseRun.state = Case!Running[s]
                                 /\ caseRequests[caseRun.active].status \in {"failed", "indeterminate"}
    BY <1>2 DEF Case!Unsettled
  <2>2. caseRun.active \in CaseRequests
    BY <2>1, CaseFacts DEF WorkFits, CaseRuns
  <2>3. \A c \in Case!Packed(b, caseRun.active) : c[2].status \in {"failed", "indeterminate"}
    BY <2>1, <2>2, <1>1, <1>y DEF Case!Packed, LifecycleSection
  <2>4. ~Case!Bound(b, caseRun.active, s, {"in_progress", "succeeded"})
    BY <2>3 DEF Case!Bound
  <2>5. ~Case!BindingsVerify(b)
    BY <2>1, <2>4, <1>1, <1>y DEF Case!BindingsVerify, LifecycleSection
  <2>. QED  BY <2>5, <1>x DEF Case!Verifies
<1>3. CASE Case!Unstarted
  <2>1. d.game.revision = 0
    BY <1>3, <1>y DEF GameSection, Case!Unstarted
  <2>2. ~Case!EventsVerify(b)
    BY <2>1, <1>1 DEF Case!EventsVerify
  <2>. QED  BY <2>2, <1>x DEF Case!Verifies
<1>4. CASE Case!Unsynchronized
  <2>1. EvidenceSection(d.lifecycle.evidence, p)
    BY <1>y, EvidencePacked DEF LifecycleSection
  <2>2. d.lifecycle.evidence.status = "not_terminal"
    BY <2>1, <1>4 DEF EvidenceSection, Case!Unsynchronized
  <2>3. Case!Over(d.game.events)
    BY <1>4, <1>y DEF GameSection, Case!Unsynchronized, Case!Over
  <2>4. ~Case!DirectionVerifies(b)
    BY <2>2, <2>3, <1>1 DEF Case!DirectionVerifies
  <2>. QED  BY <2>4, <1>x DEF Case!Verifies
<1>5. CASE Case!Belated
  <2> DEFINE acts == d.lifecycle.activities
  <2>1. ActivitySection(acts)
    BY <1>x, ActivitiesPacked
  <2>2. caseLog = SubSeq(Case!Bootstrap, 1, 3)
    BY <1>5 DEF CaseInv, HistoryFits, Case!Belated
  <2>3. Len(caseLog) = 3 /\ caseLog[3] = <<"field_ready", "chess_ready">>
    BY <2>2 DEF Case!Bootstrap
  <2>4. Len(acts) = 3 /\ acts[3][2] = <<"field_ready", "chess_ready">>
    BY <2>1, <2>3 DEF ActivitySection
  <2>5. acts[Len(acts)][2][2] # "abandoned"
    BY <2>4
  <2>6. d.lifecycle.run.state = "abandoned"
    BY <1>5, <1>y DEF LifecycleSection, Case!Belated
  <2> HIDE DEF acts
  <2>7. ~Case!HistoryVerifies(b)
    BY <2>5, <2>6, <1>1 DEF Case!HistoryVerifies, acts
  <2>. QED  BY <2>7, <1>x DEF Case!Verifies
<1>. QED  BY <1>2, <1>3, <1>4, <1>5 DEF CaseWindows

(* A case is exported outside the four windows, and only there.            *)
LEMMA ExportsShown ==
  ASSUME CaseInv
  PROVE  Case!ExportsOutsideWindows
<1> SUFFICES ASSUME caseRun.state # None, NEW p \in Case!Profiles
             PROVE  Case!Exports(p) <=> ~CaseWindows
  BY DEF Case!ExportsOutsideWindows, CaseWindows
<1>1. CaseWindows => ~Case!Exports(p)
  BY WindowsRefuse DEF Case!Exports
<1>2. ASSUME ~CaseWindows PROVE Case!Exports(p)
  <2>1. ~Case!Unsettled /\ ~Case!Unstarted /\ ~Case!Unsynchronized /\ ~Case!Belated
    BY <1>2 DEF CaseWindows
  <2>2. Case!Packs
    BY <2>1, CaseFacts DEF Case!Packs, RunFits, Case!Unsynchronized, CaseRuns
  <2>3. Case!Verifies(Case!Bundle(p))
    BY <2>1, ShapeStands, EventsStand, WorkStands, ResearchStands, HistoryStands, ReplayStands
    DEF Case!Verifies
  <2>. QED  BY <2>2, <2>3 DEF Case!Exports
<1>. QED  BY <1>1, <1>2

(* A copy with a section, a profile or a count of its own is not the one   *)
(* that was sealed.                                                        *)
LEMMA MixturesShown ==
  ASSUME CaseInv
  PROVE  Case!MixedCopiesFail
<1> SUFFICES ASSUME NEW p \in Case!Profiles, NEW q \in Case!Profiles
             PROVE  LET b == Case!Bundle(p)
                        o == Case!Bundle(q)
                    IN  /\ \A d \in Case!Recounted(b.data) : ~Case!Verifies([b EXCEPT !.data = d])
                        /\ p # q => ~Case!Verifies([b EXCEPT !.profile = q])
                        /\ \A section \in DOMAIN b.data :
                             o.data[section] # b.data[section] =>
                               ~Case!Verifies([b EXCEPT !.data[section] = o.data[section]])
  BY DEF Case!MixedCopiesFail
<1> DEFINE b == Case!Bundle(p)
           o == Case!Bundle(q)
           d == Case!Data(Case!Rows, p)
<1>1. b = [profile |-> p, entries |-> d, root |-> <<p, d>>, data |-> d]
  BY DEF Case!Bundle, Case!Seal
<1>2. ASSUME NEW other, other # d PROVE ~Case!Verifies([b EXCEPT !.data = other])
  <2>1. [b EXCEPT !.data = other] = [profile |-> p, entries |-> d, root |-> <<p, d>>, data |-> other]
    BY <1>1
  <2>. QED  BY <2>1, <1>2 DEF Case!Verifies, Case!ManifestVerifies
<1>3. ASSUME NEW other \in Case!Recounted(d) PROVE other # d
  <2>1. PICK s \in Case!Stages : other = [d EXCEPT !.lifecycle.run.failed[s] = 1 - (@ % 2)]
    BY <1>3 DEF Case!Recounted
  <2>2. LifecycleSection(d, p)
    BY LifecyclePacked
  <2>3. d.lifecycle.run = caseRun /\ caseRun.failed[s] \in Nat /\ s \in DOMAIN caseRun.failed
        /\ "failed" \in DOMAIN caseRun /\ "run" \in DOMAIN d.lifecycle /\ "lifecycle" \in DOMAIN d
    <3>1. "lifecycle" \in DOMAIN d /\ d.lifecycle = Case!PackedLifecycle(Case!Rows, p)
      BY DEF Case!Data
    <3>2. "run" \in DOMAIN d.lifecycle
      BY <3>1 DEF Case!PackedLifecycle
    <3>3. s \in DOMAIN caseRun.failed /\ caseRun.failed[s] \in Nat /\ "failed" \in DOMAIN caseRun
      BY CaseFacts, CaseAssumption DEF CaseRuns
    <3>. QED  BY <2>2, <3>1, <3>2, <3>3 DEF LifecycleSection
  <2> HIDE DEF d
  <2>4. other.lifecycle.run.failed[s] = 1 - (d.lifecycle.run.failed[s] % 2)
    BY <2>1, <2>3
  <2>5. 1 - (caseRun.failed[s] % 2) # caseRun.failed[s]
    BY <2>3
  <2>. QED  BY <2>3, <2>4, <2>5
<1>4. p # q => ~Case!Verifies([b EXCEPT !.profile = q])
  <2>1. [b EXCEPT !.profile = q] = [profile |-> q, entries |-> d, root |-> <<p, d>>, data |-> d]
    BY <1>1
  <2>. QED  BY <2>1 DEF Case!Verifies, Case!ManifestVerifies
<1>5. ASSUME NEW section \in DOMAIN b.data, o.data[section] # b.data[section]
      PROVE  ~Case!Verifies([b EXCEPT !.data[section] = o.data[section]])
  <2> DEFINE other == [d EXCEPT ![section] = o.data[section]]
  <2>1. [b EXCEPT !.data[section] = o.data[section]] = [b EXCEPT !.data = other]
    BY <1>1
  <2>2. other # d
    BY <1>1, <1>5
  <2> HIDE DEF other
  <2>. QED  BY <2>1, <2>2, <1>2
<1>. QED  BY <1>1, <1>2, <1>3, <1>4, <1>5


(* A sequence without one of its elements.                                 *)
LEMMA RemovedOne ==
  ASSUME NEW S, NEW s \in Seq(S), NEW n \in 1..Len(s), NEW t, t = Case!RemoveAt(s, n)
  PROVE  /\ Len(s) \in Nat /\ Len(t) = Len(s) - 1 /\ DOMAIN t = 1..(Len(s) - 1)
         /\ t = <<>> <=> Len(s) = 1
         /\ \A i \in 1..(Len(s) - 1) : t[i] = IF i < n THEN s[i] ELSE s[i + 1]
<1> DEFINE u == SubSeq(s, 1, n - 1)
           v == SubSeq(s, n + 1, Len(s))
<1>1. t = u \o v
  BY DEF Case!RemoveAt
<1>2. Len(s) \in Nat /\ n \in Nat /\ 1 <= n /\ n <= Len(s)
  OBVIOUS
<1>3. u \in Seq(S) /\ Len(u) = n - 1 /\ \A i \in 1..(n - 1) : u[i] = s[i]
  BY <1>2
<1>4. v \in Seq(S) /\ Len(v) = Len(s) - n /\ \A i \in 1..(Len(s) - n) : v[i] = s[n + i]
  BY <1>2
<1> HIDE DEF u, v
<1>5. t \in Seq(S) /\ Len(t) = Len(s) - 1 /\ DOMAIN t = 1..(Len(s) - 1)
  <2>1. t \in Seq(S)
    BY <1>1, <1>3, <1>4
  <2>2. Len(t) = (n - 1) + (Len(s) - n)
    <3>1. u \in Seq(S) /\ v \in Seq(S)
      BY <1>3, <1>4
    <3>2. Len(u \o v) = Len(u) + Len(v)
      BY ONLY <3>1, ConcatProperties
    <3>. QED  BY <1>1, <1>3, <1>4, <3>2
  <2>3. (n - 1) + (Len(s) - n) = Len(s) - 1
    BY <1>2
  <2>. QED  BY <2>1, <2>2, <2>3
<1>6. ASSUME NEW i \in 1..(Len(s) - 1)
      PROVE  t[i] = IF i < n THEN s[i] ELSE s[i + 1]
  <2>1. CASE i < n
    BY <2>1, <1>1, <1>2, <1>3, <1>4
  <2>2. CASE ~(i < n)
    <3>1. t[i] = v[i - (n - 1)]
      BY <2>2, <1>1, <1>2, <1>3, <1>4
    <3>2. i - (n - 1) \in 1..(Len(s) - n)
      BY <2>2, <1>2
    <3>3. v[i - (n - 1)] = s[n + (i - (n - 1))]
      BY <3>2, <1>4
    <3>4. n + (i - (n - 1)) = i + 1
      BY <1>2
    <3>. QED  BY <2>2, <3>1, <3>3, <3>4
  <2>. QED  BY <2>1, <2>2
<1>. QED  BY <1>2, <1>5, <1>6

(* The fields a loss touches are there.                                    *)
LEMMA FieldsThere ==
  ASSUME NEW p \in Case!Profiles, NEW d, d = Case!Data(Case!Rows, p)
  PROVE  /\ {"game", "lifecycle"} \subseteq DOMAIN d
         /\ {"events", "status", "revision"} \subseteq DOMAIN d.game
         /\ {"run", "research", "activities", "evidence"} \subseteq DOMAIN d.lifecycle
         /\ {"sources", "facts", "failures"} \subseteq DOMAIN d.lifecycle.research
         /\ {"record", "status"} \subseteq DOMAIN d.lifecycle.evidence
BY DEF Case!Data, Case!PackedGame, Case!PackedLifecycle, Case!PackedResearch, Case!Evidence

(* A move that is missing leaves a gap in the plies, or an end that is not *)
(* the one the row claims.                                                 *)
LEMMA MoveLossShows ==
  ASSUME CaseInv, NEW p \in Case!Profiles, NEW d, d = Case!Data(Case!Rows, p),
         NEW n \in DOMAIN d.game.events,
         n < Len(d.game.events) \/
           (d.game.events[n].source = "client" /\ d.game.status # "abandoned" /\ n > 1),
         NEW other, other = [d EXCEPT !.game.events = Case!RemoveAt(d.game.events, n)]
  PROVE  ~Case!Verifies(Case!Seal(p, other))
<1> DEFINE own == caseGame.events
           L == Len(own)
           left == Case!RemoveAt(d.game.events, n)
           b == Case!Seal(p, other)
<1>1. /\ other.game.events = left /\ other.game.status = d.game.status
      /\ other.game.revision = d.game.revision
  <2>1. /\ {"game", "lifecycle"} \subseteq DOMAIN d
        /\ {"events", "status", "revision"} \subseteq DOMAIN d.game
        /\ {"run", "research", "activities", "evidence"} \subseteq DOMAIN d.lifecycle
        /\ {"sources", "facts", "failures"} \subseteq DOMAIN d.lifecycle.research
        /\ {"record", "status"} \subseteq DOMAIN d.lifecycle.evidence
    BY FieldsThere
  <2>. QED  BY <2>1
<1>2. b.data = other
  BY SealHolds
<1>x. GameSection(d.game, p)
  BY GamePacked
<1>y. left = Case!RemoveAt(d.game.events, n) /\ b = Case!Seal(p, other) /\ own = caseGame.events
  OBVIOUS
<1> HIDE DEF b, left, own
<1>3. /\ L \in Nat /\ Len(d.game.events) = L /\ DOMAIN d.game.events = 1..L /\ DOMAIN own = 1..L
      /\ d.game.events \in Seq({d.game.events[i] : i \in 1..L})
      /\ d.game.status = caseGame.status /\ d.game.revision = caseGame.revision
      /\ \A i \in 1..L : /\ d.game.events[i].ply = i
                         /\ d.game.events[i].revision = own[i].revision
                         /\ d.game.events[i].source = own[i].source
                         /\ own[i].revision \in Nat
  BY <1>x, <1>y DEF GameSection
<1>4. n \in 1..L
  BY <1>3
<1>5. /\ Len(left) = L - 1 /\ DOMAIN left = 1..(L - 1) /\ (left = <<>> <=> L = 1)
      /\ \A i \in 1..(L - 1) : left[i] = IF i < n THEN d.game.events[i] ELSE d.game.events[i + 1]
  <2> DEFINE moves == d.game.events
             S == {moves[i] : i \in 1..L}
  <2>1. moves \in Seq(S) /\ n \in 1..Len(moves)
    BY <1>3, <1>4
  <2>2. left = Case!RemoveAt(moves, n)
    BY <1>y
  <2> HIDE DEF S, moves
  <2>3. /\ Len(left) = Len(moves) - 1 /\ DOMAIN left = 1..(Len(moves) - 1)
        /\ left = <<>> <=> Len(moves) = 1
        /\ \A i \in 1..(Len(moves) - 1) :
             left[i] = IF i < n THEN moves[i] ELSE moves[i + 1]
    BY <2>1, <2>2, RemovedOne
  <2>. QED  BY <2>3, <1>3 DEF moves
<1>6. CASE n < L
  <2>1. n \in DOMAIN left /\ left[n] = d.game.events[n + 1] /\ n + 1 \in 1..L
    BY <1>3, <1>4, <1>5, <1>6
  <2>2. left[n].ply # n
    BY <2>1, <1>3, <1>4
  <2>3. ~Case!ReplayVerifies(b)
    BY <2>1, <2>2, <1>1, <1>2 DEF Case!ReplayVerifies
  <2>. QED  BY <2>3, <1>y DEF Case!Verifies
<1>7. CASE n = L /\ d.game.events[n].source = "client" /\ d.game.status # "abandoned" /\ n > 1
  <2>1. MovesFit(caseGame) /\ caseGame.status \in CaseStates
    BY CaseFacts DEF CaseGames
  <2>2. own[L].source = "client" /\ L > 1 /\ L \in 1..L /\ L - 1 \in 1..L /\ own # <<>>
    BY <1>x, <1>y, <1>7, <1>3 DEF GameSection
  <2>3. own[L].revision = own[L - 1].revision + 1
    <3>1. Case!GroupsVerify(own)
      BY <2>1, <1>y DEF MovesFit
    <3>2. IF L = 1 \/ own[L].revision # own[L - 1].revision
          THEN L > 1 => own[L].revision = own[L - 1].revision + 1
          ELSE own[L].source = "server"
      BY <3>1, <2>2, <1>3 DEF Case!GroupsVerify
    <3>. QED  BY <3>2, <2>2
  <2>4. left # <<>> /\ left[Len(left)].revision = own[L - 1].revision
    <3>1. L - 1 \in 1..(L - 1) /\ L - 1 < n /\ Len(left) = L - 1
      BY <2>2, <1>3, <1>5, <1>7
    <3>2. left[L - 1] = d.game.events[L - 1]
      BY <3>1, <1>5
    <3>. QED  BY <3>1, <3>2, <2>2, <1>3, <1>5
  <2>5. CASE caseGame.status \in {"playing", "completed"}
    <3>1. caseGame.revision = own[L].revision
      BY <2>1, <2>2, <2>5, <1>y DEF MovesFit
    <3>2. d.game.revision # left[Len(left)].revision
      BY <3>1, <2>2, <2>3, <2>4, <1>3
    <3>3. ~Case!EventsVerify(b)
      BY <3>2, <2>4, <2>5, <1>1, <1>2, <1>3 DEF Case!EventsVerify
    <3>. QED  BY <3>3, <1>y DEF Case!Verifies
  <2>6. CASE caseGame.status \in {"answering", "answer_failed", "answered"}
    <3>1. L <= LastPly
      BY <2>1, <1>y DEF MovesFit
    <3>2. ~Case!Over(left)
      BY <3>1, <1>3, <1>5, CaseAssumption DEF Case!Over
    <3>3. ~Case!ReplayVerifies(b)
      BY <3>2, <2>6, <1>1, <1>2, <1>3 DEF Case!ReplayVerifies
    <3>. QED  BY <3>3, <1>y DEF Case!Verifies
  <2>7. caseGame.status # "mapped"
    BY <2>1, <2>2, <1>y DEF MovesFit
  <2>. QED  BY <2>1, <2>5, <2>6, <2>7, <1>3, <1>7 DEF CaseStates
<1>. QED  BY <1>3, <1>4, <1>6, <1>7

(* An activity that is missing leaves a gap in the ordinals, or a history  *)
(* that does not end where the run is.                                     *)
LEMMA ActivityLossShows ==
  ASSUME CaseInv, NEW p \in Case!Profiles, NEW d, d = Case!Data(Case!Rows, p),
         caseRun.state # None,
         NEW n \in DOMAIN d.lifecycle.activities,
         n < Len(d.lifecycle.activities) \/
           d.lifecycle.activities[n][2][1] # d.lifecycle.activities[n][2][2],
         NEW other,
         other = [d EXCEPT !.lifecycle.activities = Case!RemoveAt(d.lifecycle.activities, n)]
  PROVE  ~Case!Verifies(Case!Seal(p, other))
<1> DEFINE acts == d.lifecycle.activities
           L == Len(caseLog)
           left == Case!RemoveAt(acts, n)
           b == Case!Seal(p, other)
<1>1. other.lifecycle.activities = left /\ other.lifecycle.run = d.lifecycle.run
  <2>1. /\ {"game", "lifecycle"} \subseteq DOMAIN d
        /\ {"events", "status", "revision"} \subseteq DOMAIN d.game
        /\ {"run", "research", "activities", "evidence"} \subseteq DOMAIN d.lifecycle
        /\ {"sources", "facts", "failures"} \subseteq DOMAIN d.lifecycle.research
        /\ {"record", "status"} \subseteq DOMAIN d.lifecycle.evidence
    BY FieldsThere
  <2>. QED  BY <2>1
<1>2. b.data = other
  BY SealHolds
<1>x. ActivitySection(acts) /\ d.lifecycle.run = caseRun
  BY ActivitiesPacked, LifecyclePacked DEF LifecycleSection
<1>y. /\ acts = d.lifecycle.activities /\ left = Case!RemoveAt(acts, n)
      /\ b = Case!Seal(p, other)
  OBVIOUS
<1> HIDE DEF acts, left, b
<1>3. /\ L \in Nat /\ Len(acts) = L /\ DOMAIN acts = 1..L /\ DOMAIN caseLog = 1..L
      /\ acts \in Seq({acts[i] : i \in 1..L})
      /\ \A i \in 1..L : acts[i][1] = i /\ acts[i][2] = caseLog[i]
  BY <1>x DEF ActivitySection
<1>4. n \in 1..L
  BY <1>3, <1>y
<1>5. /\ Len(left) = L - 1 /\ DOMAIN left = 1..(L - 1) /\ (left = <<>> <=> L = 1)
      /\ \A i \in 1..(L - 1) : left[i] = IF i < n THEN acts[i] ELSE acts[i + 1]
  <2> DEFINE S == {acts[i] : i \in 1..L}
  <2>1. acts \in Seq(S) /\ n \in 1..Len(acts)
    BY <1>3, <1>4
  <2>2. left = Case!RemoveAt(acts, n)
    BY <1>y
  <2> HIDE DEF S
  <2>3. /\ Len(left) = Len(acts) - 1 /\ DOMAIN left = 1..(Len(acts) - 1)
        /\ left = <<>> <=> Len(acts) = 1
        /\ \A i \in 1..(Len(acts) - 1) :
             left[i] = IF i < n THEN acts[i] ELSE acts[i + 1]
    BY <2>1, <2>2, RemovedOne
  <2>. QED  BY <2>3, <1>3
<1>6. CASE n < L
  <2>1. n \in DOMAIN left /\ left[n] = acts[n + 1] /\ n + 1 \in 1..L
    BY <1>3, <1>4, <1>5, <1>6
  <2>2. left[n][1] # n
    BY <2>1, <1>3, <1>4
  <2>3. ~Case!HistoryVerifies(b)
    BY <2>1, <2>2, <1>1, <1>2 DEF Case!HistoryVerifies
  <2>. QED  BY <2>3, <1>y DEF Case!Verifies
<1>7. CASE n = L /\ caseLog[L][1] # caseLog[L][2]
  <2>1. CASE L = 1
    <3>1. ~Case!HistoryVerifies(b)
      BY <2>1, <1>1, <1>2, <1>5 DEF Case!HistoryVerifies
    <3>. QED  BY <3>1, <1>y DEF Case!Verifies
  <2>2. CASE L > 1
    <3>1. caseLog[L - 1][2] # caseRun.state
      <4>1. CASE caseRun.state = "abandoned"
        <5>1. caseLog = SubSeq(Case!Bootstrap, 1, 3)
          BY <4>1, CaseAssumption DEF CaseInv, HistoryFits
        <5>2. L = 3 /\ caseLog[2] = <<"anansi_running", "field_ready">>
          BY <5>1 DEF Case!Bootstrap
        <5>. QED  BY <5>2, <4>1
      <4>2. CASE caseRun.state # "abandoned"
        <5>1. /\ \A m \in DOMAIN caseLog : m > 1 => caseLog[m][1] = caseLog[m - 1][2]
              /\ caseLog[L][2] = caseRun.state
          BY <4>2 DEF CaseInv, HistoryFits
        <5>2. caseLog[L][1] = caseLog[L - 1][2]
          <6>1. L \in DOMAIN caseLog /\ L > 1
            BY <2>2, <1>3
          <6>. QED  BY <6>1, <5>1
        <5>. QED  BY <5>1, <5>2, <1>7
      <4>. QED  BY <4>1, <4>2
    <3>2. left[Len(left)][2] = caseLog[L - 1]
      <4>1. L - 1 \in 1..(L - 1) /\ L - 1 \in 1..L /\ L - 1 < n /\ Len(left) = L - 1
        BY <2>2, <1>3, <1>5, <1>7
      <4>. QED  BY <4>1, <1>3, <1>5
    <3>3. ~Case!HistoryVerifies(b)
      BY <3>1, <3>2, <1>1, <1>2, <1>x DEF Case!HistoryVerifies
    <3>. QED  BY <3>3, <1>y DEF Case!Verifies
  <2>. QED  BY <2>1, <2>2, <1>3, <1>4
<1>8. n < L \/ caseLog[n][1] # caseLog[n][2]
  BY <1>3, <1>4, <1>y
<1>. QED  BY <1>3, <1>4, <1>6, <1>7, <1>8

(* A source that is missing leaves a gap in the numbers, or a page without *)
(* a source.                                                               *)
LEMMA SourceLossShows ==
  ASSUME CaseInv, NEW p \in Case!Profiles, NEW d, d = Case!Data(Case!Rows, p),
         NEW n \in DOMAIN d.lifecycle.research.sources,
         \/ n < Len(d.lifecycle.research.sources)
         \/ d.lifecycle.research.sources[n].url \in
              d.lifecycle.research.facts \cup d.lifecycle.research.failures,
         NEW other,
         other = [d EXCEPT !.lifecycle.research.sources =
                    Case!RemoveAt(d.lifecycle.research.sources, n)]
  PROVE  ~Case!Verifies(Case!Seal(p, other))
<1> DEFINE r == d.lifecycle.research
           left == Case!RemoveAt(r.sources, n)
           b == Case!Seal(p, other)
<1>1. /\ other.lifecycle.research.sources = left
      /\ other.lifecycle.research.facts = r.facts /\ other.lifecycle.research.failures = r.failures
  <2>1. /\ {"game", "lifecycle"} \subseteq DOMAIN d
        /\ {"events", "status", "revision"} \subseteq DOMAIN d.game
        /\ {"run", "research", "activities", "evidence"} \subseteq DOMAIN d.lifecycle
        /\ {"sources", "facts", "failures"} \subseteq DOMAIN d.lifecycle.research
        /\ {"record", "status"} \subseteq DOMAIN d.lifecycle.evidence
    BY FieldsThere
  <2>. QED  BY <2>1
<1>2. b.data = other
  BY SealHolds
<1>x. PICK k \in 0..SourceLimit : ResearchSection(r, p, k)
  <2>1. r = Case!PackedResearch(Case!Rows, p)
    BY LifecyclePacked DEF LifecycleSection
  <2> HIDE DEF r
  <2>. QED  BY <2>1, ResearchPacked
<1>y. r = d.lifecycle.research /\ left = Case!RemoveAt(r.sources, n) /\ b = Case!Seal(p, other)
  OBVIOUS
<1> HIDE DEF r, left, b
<1>3. /\ k \in Nat /\ Len(r.sources) = k /\ DOMAIN r.sources = 1..k
      /\ r.sources \in Seq({r.sources[i] : i \in 1..k})
      /\ \A i \in 1..k : /\ r.sources[i].ordinal = i
                         /\ r.sources[i].url = IF "narrative" \in Case!Kept[p] THEN i ELSE None
      /\ r.facts \cup r.failures \subseteq IF "narrative" \in Case!Kept[p] THEN 1..k ELSE {}
  BY <1>x, CaseAssumption DEF ResearchSection
<1>4. n \in 1..k
  BY <1>3, <1>y
<1>5. /\ Len(left) = k - 1 /\ DOMAIN left = 1..(k - 1)
      /\ \A i \in 1..(k - 1) : left[i] = IF i < n THEN r.sources[i] ELSE r.sources[i + 1]
  <2> DEFINE S == {r.sources[i] : i \in 1..k}
  <2>1. r.sources \in Seq(S) /\ n \in 1..Len(r.sources)
    BY <1>3, <1>4
  <2>2. left = Case!RemoveAt(r.sources, n)
    BY <1>y
  <2> HIDE DEF S
  <2>3. /\ Len(left) = Len(r.sources) - 1 /\ DOMAIN left = 1..(Len(r.sources) - 1)
        /\ left = <<>> <=> Len(r.sources) = 1
        /\ \A i \in 1..(Len(r.sources) - 1) :
             left[i] = IF i < n THEN r.sources[i] ELSE r.sources[i + 1]
    BY <2>1, <2>2, RemovedOne
  <2>. QED  BY <2>3, <1>3
<1>6. CASE n < k
  <2>1. k - 1 \in 1..(k - 1) /\ left[k - 1] = r.sources[k]
    BY <1>3, <1>4, <1>5, <1>6
  <2>2. left[k - 1].ordinal = k
    BY <2>1, <1>3, <1>4
  <2>3. {left[i].ordinal : i \in 1..Len(left)} # 1..Len(left)
    <3>1. k \in {left[i].ordinal : i \in 1..(k - 1)}
      BY <2>1, <2>2
    <3>2. k \notin 1..(k - 1) /\ Len(left) = k - 1
      BY <1>3, <1>5
    <3>. QED  BY <3>1, <3>2
  <2>4. ~Case!SourcesVerify(other.lifecycle.research)
    BY <2>3, <1>1 DEF Case!SourcesVerify
  <2>5. ~Case!ResearchVerifies(b)
    BY <2>4, <1>2 DEF Case!ResearchVerifies
  <2>. QED  BY <2>5, <1>y DEF Case!Verifies
<1>7. CASE n = k /\ r.sources[n].url \in r.facts \cup r.failures
  <2>1. "narrative" \in Case!Kept[p] /\ r.sources[n].url = k
    BY <1>3, <1>4, <1>7
  <2>2. k \in r.facts \cup r.failures /\ \A i \in DOMAIN left : left[i].url # k
    BY <1>3, <1>4, <1>5, <1>7, <2>1
  <2>3. ~Case!PagesVerify(other.lifecycle.research)
    BY <2>2, <1>1 DEF Case!PagesVerify
  <2>4. ~Case!ResearchVerifies(b)
    BY <2>3, <1>2 DEF Case!ResearchVerifies
  <2>. QED  BY <2>4, <1>y DEF Case!Verifies
<1>8. n < k \/ r.sources[n].url \in r.facts \cup r.failures
  BY <1>3, <1>4, <1>y
<1>. QED  BY <1>3, <1>4, <1>6, <1>7, <1>8

(* A record that lost its first move is not the one derived again.         *)
LEMMA RecordLossShows ==
  ASSUME CaseInv, NEW p \in Case!Profiles, NEW d, d = Case!Data(Case!Rows, p),
         d.lifecycle.evidence.record # None,
         NEW other,
         other = [d EXCEPT !.lifecycle.evidence.record = Tail(d.lifecycle.evidence.record)]
  PROVE  ~Case!Verifies(Case!Seal(p, other))
<1> DEFINE e == d.lifecycle.evidence
           own == caseGame.events
           L == Len(own)
           b == Case!Seal(p, other)
<1>1. /\ other.lifecycle.evidence.record = Tail(e.record)
      /\ other.lifecycle.evidence.status = e.status /\ other.game = d.game
  <2>1. /\ {"game", "lifecycle"} \subseteq DOMAIN d
        /\ {"events", "status", "revision"} \subseteq DOMAIN d.game
        /\ {"run", "research", "activities", "evidence"} \subseteq DOMAIN d.lifecycle
        /\ {"sources", "facts", "failures"} \subseteq DOMAIN d.lifecycle.research
        /\ {"record", "status"} \subseteq DOMAIN d.lifecycle.evidence
    BY FieldsThere
  <2>. QED  BY <2>1
<1>2. b.data = other /\ b.profile = p
  BY SealHolds
<1>x. EvidenceSection(e, p) /\ GameSection(d.game, p)
  <2>1. e = Case!Evidence(Case!Rows, p)
    BY LifecyclePacked DEF LifecycleSection
  <2>2. GameSection(d.game, p)
    BY GamePacked
  <2> HIDE DEF e
  <2>. QED  BY <2>1, <2>2, EvidencePacked
<1>y. e = d.lifecycle.evidence /\ b = Case!Seal(p, other) /\ own = caseGame.events
  OBVIOUS
<1> HIDE DEF e, b, own
<1>3. caseRun.record /\ "narrative" \in Case!Kept[p] /\ e.status = "bound"
      /\ e.record = Case!Recorded(own)
  BY <1>x, <1>y DEF EvidenceSection
<1>4. /\ L \in Nat /\ DOMAIN own = 1..L /\ DOMAIN d.game.events = 1..L
  BY <1>x, <1>y DEF GameSection
<1>5. L > 0
  <2>1. Case!Over(own)
    BY <1>3, <1>y, CaseFacts DEF RunFits
  <2>. QED  BY <2>1, <1>4, CaseAssumption DEF Case!Over
<1>6. e.record = [i \in 1..L |-> e.record[i]]
  BY <1>3, <1>4 DEF Case!Recorded
<1>7. e.record \in Seq({e.record[i] : i \in 1..L}) /\ Len(e.record) = L
  BY <1>4, <1>6, TableIsSequence
<1>8. DOMAIN Tail(e.record) = 1..(L - 1)
  BY <1>4, <1>5, <1>7
<1>9. DOMAIN Case!Recorded(d.game.events) = 1..L
  BY <1>4 DEF Case!Recorded
<1>10. Tail(e.record) # Case!Recorded(d.game.events)
  <2>1. L \in 1..L /\ L \notin 1..(L - 1)
    BY <1>4, <1>5
  <2> DEFINE x == Tail(e.record)
             y == Case!Recorded(d.game.events)
  <2>2. DOMAIN x # DOMAIN y
    BY <2>1, <1>8, <1>9
  <2> HIDE DEF x, y
  <2>3. x # y
    BY <2>2
  <2>. QED  BY <2>3 DEF x, y
<1>11. ~Case!DirectionVerifies(b)
  BY <1>1, <1>2, <1>3, <1>10 DEF Case!DirectionVerifies
<1>. QED  BY <1>11, <1>y DEF Case!Verifies

(* No copy that lost a part is taken for a whole one.                      *)
LEMMA LossesShown ==
  ASSUME CaseInv
  PROVE  Case!LossesAreCaught
<1> SUFFICES ASSUME Case!Packs, NEW p \in Case!Profiles,
                    NEW other \in Case!Losses(Case!Data(Case!Rows, p))
             PROVE  ~Case!Verifies(Case!Seal(p, other))
  BY DEF Case!LossesAreCaught
<1> DEFINE d == Case!Data(Case!Rows, p)
<1>x. d = Case!Data(Case!Rows, p) /\ caseRun.state # None
  BY DEF Case!Packs
<1> HIDE DEF d
<1>y. other \in Case!Losses(d)
  BY <1>x
<1>1. CASE \E n \in {m \in DOMAIN d.game.events :
                m < Len(d.game.events) \/
                  (d.game.events[m].source = "client" /\ d.game.status # "abandoned" /\ m > 1)} :
             other = [d EXCEPT !.game.events = Case!RemoveAt(d.game.events, n)]
  BY <1>1, <1>x, MoveLossShows
<1>2. CASE \E n \in {m \in DOMAIN d.lifecycle.activities :
                m < Len(d.lifecycle.activities) \/
                  d.lifecycle.activities[m][2][1] # d.lifecycle.activities[m][2][2]} :
             other = [d EXCEPT !.lifecycle.activities = Case!RemoveAt(d.lifecycle.activities, n)]
  BY <1>2, <1>x, ActivityLossShows
<1>3. CASE \E n \in {m \in DOMAIN d.lifecycle.research.sources :
                m < Len(d.lifecycle.research.sources) \/
                  d.lifecycle.research.sources[m].url \in
                    d.lifecycle.research.facts \cup d.lifecycle.research.failures} :
             other = [d EXCEPT !.lifecycle.research.sources =
                        Case!RemoveAt(d.lifecycle.research.sources, n)]
  BY <1>3, <1>x, SourceLossShows
<1>4. CASE /\ d.lifecycle.evidence.record # None
           /\ other = [d EXCEPT !.lifecycle.evidence.record = Tail(d.lifecycle.evidence.record)]
  BY <1>4, <1>x, RecordLossShows
<1>. QED  BY <1>1, <1>2, <1>3, <1>4, <1>y DEF Case!Losses

(* Every case is exported and refused as it should be, whatever the ply    *)
(* that ends a game, the requests, and the bounds of a search and its      *)
(* pages. A copy that lost a last source without a page is not claimed to  *)
(* be refused: the verifier cannot tell.                                   *)
THEOREM CasesAlwaysVerify == MCSpec => []CasesVerify
<1>1. CaseInv => Case!CasesVerify
  BY ExportsShown, MixturesShown, LossesShown DEF Case!CasesVerify
<1>2. (part = "case" => CaseInv) => CasesVerify
  BY <1>1 DEF CasesVerify
<1>. QED  BY <1>2, CaseInvariant, PTL
=============================================================================
