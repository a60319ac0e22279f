-------------------------- MODULE ModelStagesProofs --------------------------
(***************************************************************************)
(* Portia's and Charlotte's stages for any number of handlers, requests,   *)
(* failures and crashes: every attempt is counted, what the run stores is  *)
(* what the ledger decided, and the drafts only grow.  The argument rests  *)
(* on two facts: a request is worked on by the one handler that reserved   *)
(* it, and a request that was ever attempted is fencing the run, stored by *)
(* it, or counted as a failure.                                            *)
(***************************************************************************)
EXTENDS ModelStages, SequenceTheorems, FiniteSetTheorems, TLAPS

-----------------------------------------------------------------------------
(* The inductive invariant.                                                *)

Typed ==
  /\ run \in Row
  /\ {review, gate, quality} \subseteq Requests \cup {None}
  /\ answered \in BOOLEAN
  /\ ledger \in [Requests -> Entry]
  /\ handler \in [Handlers -> {Idle} \cup Task]
  /\ crashes \in 0..MaxCrashes
  /\ called \subseteq Requests /\ counted \subseteq Requests

(* A request that exists belongs to a stage, and one that a provider may   *)
(* have worked on was started.                                             *)
LedgerSound ==
  \A r \in Requests :
    /\ ledger[r].status # "absent" => ledger[r].op \in Ops
    /\ ledger[r].status \in {"in_progress", "succeeded", "indeterminate"} => ledger[r].started
    /\ ledger[r].started => ledger[r].status # "absent"

(* The state of the run says which artifacts it has, and who fences it.    *)
Unreviewed == {"chess_terminal", "portia_pending", "portia_running", "portia_unavailable"}
Judged == {"gate_passed", "gate_failed", "insufficient_basis", "charlotte_pending",
           "charlotte_running", "charlotte_unavailable", "charlotte_complete"}
Approved == {"gate_passed", "charlotte_pending", "charlotte_running", "charlotte_unavailable",
             "charlotte_complete"}

StageSound ==
  /\ run.state \in Unreviewed \cup {"portia_complete"} \cup Judged
  /\ (run.active = None) <=> (\A op \in Ops : run.state # Running[op])
  /\ \A op \in Ops : run.state = Running[op] => run.active \in StartedOf(op)
  /\ (review = None) <=> run.state \in Unreviewed
  /\ (gate = None) <=> run.state \notin Judged
  /\ (quality = None) <=> run.state # "charlotte_complete"
  /\ run.state \in Approved => Passes(ledger[gate].verdict)
  /\ run.state \in Approved \ {"gate_passed"} => answered

(* A request that was attempted is fencing the run, stored, or counted.    *)
Attempted(r) == r \in counted \cup {run.active, review, quality}

AccountsSound ==
  /\ run.active \notin counted
  /\ \A r \in counted : ledger[r].status \in EndedBadly
  /\ \A op \in Ops : run.failed[op] = Cardinality(CountedOf(op))
  /\ \A op \in Ops : run.failed[op] = FailureLimit <=> run.state = Unavailable[op]
  /\ \A r \in called : ledger[r].status # "absent" /\ Attempted(r)

(* A paid result is stored or about to be, with the drafts the run has.    *)
ResultsSound ==
  /\ ResultsAreWinners
  /\ PaidResultsKept
  /\ \A r \in Requests : r = run.active /\ ledger[r].status = "succeeded" =>
       run.drafts = ledger[r].work

(* What a handler may rely on.                                             *)

(* The row it read, if it has not moved since, still says so.              *)
SnapSound(h) ==
  /\ handler[h].snap.revision <= run.revision
  /\ handler[h].snap.revision = run.revision =>
       /\ handler[h].snap.state = run.state
       /\ handler[h].snap.active = run.active
       /\ run.state # "portia_running" => handler[h].snap.drafts = run.drafts

(* A handler works on a request it has reserved and nobody answered for.   *)
Works(h) ==
  /\ Step(h) \in {"begin", "attempt", "load", "call", "settle", "refuse"}
  /\ handler[h].payload = None

WorkSound(h) ==
  Works(h) =>
    /\ ledger[handler[h].req].op = handler[h].op
    /\ ledger[handler[h].req].status # "absent"
    /\ Step(h) \in {"load", "call", "settle", "refuse"} =>
         /\ Attempted(handler[h].req)
         /\ run.active = handler[h].req =>
              run.drafts = IF Step(h) = "load" THEN handler[h].snap.drafts ELSE handler[h].work

PayloadSound(h) ==
  /\ Step(h) \in {"reserve", "begin", "call", "settle", "refuse"} => handler[h].payload = None
  /\ Step(h) = "store" => handler[h].payload # None
  /\ Step(h) \in {"attempt", "load", "store"} /\ handler[h].payload # None =>
       /\ handler[h].payload \in Succeeded(handler[h].op)
       /\ \/ handler[h].payload = handler[h].req
          \/ Step(h) = "store" /\ ledger[handler[h].req].status = "indeterminate"
  /\ Step(h) \in {"reread", "judge"} => handler[h].payload = review /\ review # None

StepSound(h) ==
  /\ Step(h) \in {"reserve", "begin", "attempt", "load", "call", "settle", "refuse", "fail", "store"}
       => handler[h].req \in Requests
  /\ Step(h) = "prepare" => handler[h].snap.state = "chess_terminal"
  /\ Step(h) = "authorize" => handler[h].snap.state = "gate_passed" /\ answered
  /\ Step(h) = "conclude" => handler[h].snap.state = "gate_failed"
  /\ Step(h) = "reconcile" => handler[h].snap.active \in StartedOf(handler[h].op)

Sound(h) ==
  Step(h) # "idle" => SnapSound(h) /\ WorkSound(h) /\ PayloadSound(h) /\ StepSound(h)

HandlersSound == \A h \in Handlers : Sound(h)

OneWorker ==
  \A h, g \in Handlers : Works(h) /\ Works(g) /\ handler[h].req = handler[g].req => h = g

StagesInv ==
  /\ Typed /\ LedgerSound /\ StageSound /\ AccountsSound /\ ResultsSound
  /\ HandlersSound /\ OneWorker
-----------------------------------------------------------------------------
(* Rows, tasks and drafts.                                                 *)

(* The states the stages go through.                                       *)
LEMMA StageStates ==
  /\ Unreviewed \cup {"portia_complete"} \cup Judged \subseteq LifecycleStates
  /\ Ops = {"portia", "charlotte"}
  /\ Pending["portia"] = "portia_pending" /\ Pending["charlotte"] = "charlotte_pending"
  /\ Running["portia"] = "portia_running" /\ Running["charlotte"] = "charlotte_running"
  /\ Unavailable["portia"] = "portia_unavailable"
  /\ Unavailable["charlotte"] = "charlotte_unavailable"
BY DEF Unreviewed, Judged, LifecycleStates, Transitions, Ops, Pending, Running, Unavailable

(* Drafts are short sequences of requests, and grow by one at a time.      *)
LEMMA DraftsAreSequences ==
  /\ <<>> \in Drafts
  /\ \A w \in Drafts : w \in Seq(Requests) /\ Len(w) \in 0..Survivors
  /\ \A w \in Drafts, r \in Requests : Len(w) < Survivors => Append(w, r) \in Drafts
<1>1. Survivors \in Nat
  BY ConstantsAssumption
<1>2. \A w : w \in Drafts <=> \E n \in 0..Survivors : w \in [1..n -> Requests]
  BY DEF Drafts
<1>3. <<>> \in Drafts
  <2>1. <<>> \in [1..0 -> Requests]
    OBVIOUS
  <2>2. 0 \in 0..Survivors
    BY <1>1
  <2>. QED
    BY <1>2, <2>1, <2>2
<1>4. \A w \in Drafts : w \in Seq(Requests) /\ Len(w) \in 0..Survivors
  <2>. SUFFICES ASSUME NEW w \in Drafts
                PROVE  w \in Seq(Requests) /\ Len(w) \in 0..Survivors
    OBVIOUS
  <2>1. PICK n \in 0..Survivors : w \in [1..n -> Requests]
    BY <1>2
  <2>2. w \in Seq(Requests) /\ Len(w) = n
    BY <1>1, <2>1
  <2>. QED
    BY <2>2
<1>5. \A w \in Drafts, r \in Requests : Len(w) < Survivors => Append(w, r) \in Drafts
  <2>. SUFFICES ASSUME NEW w \in Drafts, NEW r \in Requests, Len(w) < Survivors
                PROVE  Append(w, r) \in Drafts
    OBVIOUS
  <2>1. w \in Seq(Requests) /\ Len(w) \in Nat
    BY <1>4
  <2>2. Append(w, r) \in Seq(Requests) /\ Len(Append(w, r)) = Len(w) + 1
    BY <2>1
  <2>3. Append(w, r) \in [1..(Len(w) + 1) -> Requests]
    <3>1. Append(w, r) \in [1..Len(Append(w, r)) -> Requests]
      BY <2>2, LenProperties
    <3>. QED
      BY <2>2, <3>1
  <2>4. Len(w) + 1 \in 0..Survivors
    BY <1>1, <2>1
  <2>. QED
    BY <1>2, <2>3, <2>4
<1>. QED
  BY <1>3, <1>4, <1>5

(* The row after each of its updates, column by column.                    *)
LEMMA AdvancedRow ==
  ASSUME run \in Row, NEW to \in LifecycleStates
  PROVE  LET row == Advance(to) IN
         /\ row \in Row
         /\ row.state = to /\ row.revision = run.revision + 1 /\ row.active = run.active
         /\ row.failed = run.failed /\ row.drafts = run.drafts
         /\ \A r \in Requests \cup {None} : [row EXCEPT !.active = r] \in Row
<1>. DEFINE row == Advance(to)
<1>1. run.revision + 1 \in Nat
  BY DEF Row
<1>2. row = [run EXCEPT !.state = to, !.revision = run.revision + 1]
  BY DEF Advance
<1>3. /\ row \in Row
      /\ row.state = to /\ row.revision = run.revision + 1 /\ row.active = run.active
      /\ row.failed = run.failed /\ row.drafts = run.drafts
  BY <1>1, <1>2 DEF Row
<1>. HIDE DEF row
<1>4. \A r \in Requests \cup {None} : [row EXCEPT !.active = r] \in Row
  BY <1>3 DEF Row
<1>. QED
  BY <1>3, <1>4 DEF row

(* A handler in flight has a task.                                         *)
LEMMA InFlight ==
  ASSUME Typed, NEW h \in Handlers, Step(h) # "idle"
  PROVE  /\ handler[h] \in Task
         /\ handler[h].op \in Ops /\ handler[h].snap \in Row /\ handler[h].work \in Drafts
         /\ handler[h].req \in Requests \cup {None}
         /\ handler[h].payload \in Requests \cup {None}
         /\ handler[h].verdict \in Review \cup {None}
         /\ Step(h) \in Steps
BY DEF Typed, Step, Idle, Task

(* A handler that goes on to another step keeps what it holds.             *)
LEMMA GoingOn ==
  ASSUME Typed, NEW h \in Handlers, Step(h) # "idle", NEW step \in Steps, Goto(h, step)
  PROVE  /\ handler' \in [Handlers -> {Idle} \cup Task]
         /\ handler'[h].step = step /\ handler'[h].op = handler[h].op
         /\ handler'[h].req = handler[h].req /\ handler'[h].payload = handler[h].payload
         /\ handler'[h].snap = handler[h].snap /\ handler'[h].work = handler[h].work
         /\ \A g \in Handlers \ {h} : handler'[g] = handler[g]
<1>. DEFINE task == [handler[h] EXCEPT !.step = step]
<1>1. handler[h] \in Task
  BY InFlight
<1>2. /\ task \in Task /\ task.step = step /\ task.op = handler[h].op
      /\ task.req = handler[h].req /\ task.payload = handler[h].payload
      /\ task.snap = handler[h].snap /\ task.work = handler[h].work
  BY <1>1 DEF Task
<1>3. handler' = [handler EXCEPT ![h] = task]
  BY DEF Goto
<1>. HIDE DEF task
<1>. QED
  BY <1>2, <1>3 DEF Typed

(* A handler that ends, or dies, holds nothing.                            *)
LEMMA Finishing ==
  ASSUME Typed, NEW h \in Handlers, Finish(h)
  PROVE  /\ handler' \in [Handlers -> {Idle} \cup Task]
         /\ handler'[h].step = "idle"
         /\ \A g \in Handlers \ {h} : handler'[g] = handler[g]
         /\ Sound(h)' /\ ~Works(h)'
<1>1. handler'[h].step = "idle"
  BY DEF Finish, Typed, Idle
<1>. QED
  BY <1>1 DEF Finish, Typed, Sound, Works, Step
-----------------------------------------------------------------------------
(* What most steps leave alone.                                            *)

(* A request keeps its stage, and once it has ended it stays as it is.     *)
LedgerGrows ==
  \A r \in Requests :
    /\ ledger[r].status # "absent" =>
         ledger'[r].op = ledger[r].op /\ ledger'[r].status # "absent"
    /\ ledger[r].started => ledger'[r].started
    /\ ledger[r].status \in EndedBadly \cup {"succeeded"} => ledger'[r] = ledger[r]

(* The run moves only under a new revision, or it takes another draft of   *)
(* Portia's; no attempt is forgotten and no review replaced.               *)
RunFollows ==
  /\ run'.revision \in Nat /\ run'.revision >= run.revision
  /\ run'.revision = run.revision =>
       /\ run'.state = run.state /\ run'.active = run.active
       /\ run.state # "portia_running" => run'.drafts = run.drafts
  /\ \A r \in Requests : Attempted(r) => Attempted(r)'
  /\ review # None => review' = review
  /\ answered => answered'

(* The request of a handler is fenced only by its own attempt.             *)
FenceKept(h) ==
  Works(h) /\ run'.active = handler[h].req =>
    run'.active = run.active /\ run'.drafts = run.drafts

(* A handler that does nothing in a step is as sound as before.            *)
LEMMA SoundKept ==
  ASSUME Typed, NEW h \in Handlers, Sound(h), handler'[h] = handler[h],
         LedgerSound, LedgerGrows, RunFollows, FenceKept(h)
  PROVE  Sound(h)'
<1>. SUFFICES ASSUME handler[h].step # "idle"
              PROVE  Sound(h)'
  BY DEF Sound, Step
<1>a. Step(h) # "idle" /\ SnapSound(h) /\ WorkSound(h) /\ PayloadSound(h) /\ StepSound(h)
  BY DEF Sound, Step
<1>b. /\ handler[h] \in Task /\ handler[h].op \in Ops /\ handler[h].snap \in Row
      /\ handler[h].req \in Requests \cup {None} /\ handler[h].payload \in Requests \cup {None}
  BY <1>a, InFlight
<1>c. \A op \in Ops, r \in Requests :
        /\ r \in StartedOf(op) => r \in StartedOf(op)'
        /\ r \in Succeeded(op) => r \in Succeeded(op)'
  BY DEF StartedOf, Succeeded, Is, LedgerSound, LedgerGrows
<1>1. SnapSound(h)'
  BY <1>a, <1>b DEF SnapSound, RunFollows, Typed, Row
<1>2. PayloadSound(h)'
  <2>1. Step(h)' = Step(h)
    BY DEF Step
  <2>2. ASSUME Step(h) \in {"attempt", "load", "store"}, handler[h].payload # None
        PROVE  /\ handler[h].payload \in Succeeded(handler[h].op)'
               /\ \/ handler[h].payload = handler[h].req
                  \/ Step(h) = "store" /\ ledger'[handler[h].req].status = "indeterminate"
    <3>1. /\ handler[h].payload \in Succeeded(handler[h].op)
          /\ handler[h].req \in Requests
          /\ \/ handler[h].payload = handler[h].req
             \/ Step(h) = "store" /\ ledger[handler[h].req].status = "indeterminate"
      BY <1>a, <2>2 DEF PayloadSound, StepSound
    <3>. QED
      BY <1>b, <1>c, <2>2, <3>1 DEF LedgerGrows, EndedBadly
  <2>3. ASSUME Step(h) \in {"reread", "judge"}
        PROVE  handler[h].payload = review' /\ review' # None
    BY <1>a, <2>3 DEF PayloadSound, RunFollows
  <2>. QED
    BY <1>a, <2>1, <2>2, <2>3 DEF PayloadSound, Succeeded, Is
<1>3. StepSound(h)'
  <2>1. Step(h) = "reconcile" => handler[h].snap.active \in StartedOf(handler[h].op)'
    BY <1>a, <1>b, <1>c DEF StepSound, StartedOf
  <2>. QED
    BY <1>a, <2>1 DEF StepSound, Step, RunFollows, StartedOf
<1>4. WorkSound(h)'
  <2>. SUFFICES ASSUME Works(h)
                PROVE  WorkSound(h)'
    BY DEF WorkSound, Works, Step
  <2>1. handler[h].req \in Requests
    BY <1>a DEF Works, StepSound
  <2>2. /\ ledger'[handler[h].req].op = handler[h].op
        /\ ledger'[handler[h].req].status # "absent"
    BY <1>a, <2>1 DEF WorkSound, LedgerGrows
  <2>3. ASSUME Step(h) \in {"load", "call", "settle", "refuse"}
        PROVE  /\ Attempted(handler[h].req)'
               /\ run'.active = handler[h].req =>
                    run'.drafts = IF Step(h) = "load" THEN handler[h].snap.drafts
                                                      ELSE handler[h].work
    <3>1. Attempted(handler[h].req)
      BY <1>a, <2>3 DEF WorkSound
    <3>2. Attempted(handler[h].req)'
      BY <2>1, <3>1 DEF RunFollows, Attempted
    <3>. QED
      BY <1>a, <2>3, <3>2 DEF WorkSound, FenceKept
  <2>. QED
    BY <2>2, <2>3 DEF WorkSound, Works, Step, Attempted
<1>. QED
  BY <1>1, <1>2, <1>3, <1>4 DEF Sound

(* A handler goes on working on its request, or takes one nobody works on. *)
WorksAlone(h) ==
  \/ Works(h)' => Works(h) /\ handler'[h].req = handler[h].req
  \/ \A g \in Handlers \ {h} : Works(g) => handler[g].req # handler'[h].req

(* So the handlers stay sound if the one that acts does.                   *)
LEMMA OneHandler ==
  ASSUME Typed, HandlersSound, OneWorker, LedgerSound, LedgerGrows, RunFollows,
         NEW h \in Handlers, Sound(h)',
         \A g \in Handlers \ {h} : handler'[g] = handler[g] /\ FenceKept(g), WorksAlone(h)
  PROVE  HandlersSound' /\ OneWorker'
<1>1. ASSUME NEW g \in Handlers
      PROVE  Sound(g)'
  <2>1. CASE g = h
    BY <2>1
  <2>2. CASE g # h
    BY <2>2, SoundKept DEF HandlersSound
  <2>. QED
    BY <2>1, <2>2
<1>2. \A g \in Handlers \ {h} : Works(g)' => Works(g) /\ handler'[g].req = handler[g].req
  BY DEF Works, Step
<1>3. OneWorker'
  BY <1>2 DEF OneWorker, WorksAlone
<1>. QED
  BY <1>1, <1>3 DEF HandlersSound

(* A step that leaves the run alone follows it.                            *)
LEMMA RunStays ==
  ASSUME Typed, run' = run, review' = review, quality' = quality, answered => answered',
         counted \subseteq counted'
  PROVE  RunFollows /\ \A g \in Handlers : FenceKept(g)
<1>1. run'.revision \in Nat /\ run'.revision >= run.revision
  BY DEF Typed, Row
<1>2. \A r \in Requests : Attempted(r) => Attempted(r)'
  BY DEF Attempted
<1>. QED
  BY <1>1, <1>2 DEF RunFollows, FenceKept

(* A step that leaves the ledger alone lets it grow.                       *)
LEMMA LedgerStays ==
  ASSUME ledger' = ledger
  PROVE  LedgerGrows /\ (LedgerSound => LedgerSound')
BY DEF LedgerGrows, LedgerSound
(* No request succeeds in this step.                                       *)
NoNewWin == \A r \in Requests : ledger'[r].status = "succeeded" => ledger[r].status = "succeeded"

(* Every request the provider is asked about was attempted.                *)
CallsAttempted ==
  \A r \in called' : r \in called \/ (ledger[r].status # "absent" /\ Attempted(r))

(* While the run and what it stores stay as they are, so does what the     *)
(* invariant says of them, whatever the ledger does.                       *)
LEMMA QuietRun ==
  ASSUME Typed, Typed', LedgerSound, LedgerSound', StageSound, AccountsSound, ResultsSound,
         LedgerGrows, CallsAttempted,
         run' = run, review' = review, gate' = gate, quality' = quality, answered => answered',
         counted' = counted
  PROVE  StageSound' /\ AccountsSound' /\ ResultsAreWinners'
<1>a. /\ counted \subseteq Requests /\ called' \subseteq Requests
      /\ review \in Requests \cup {None} /\ gate \in Requests \cup {None}
      /\ quality \in Requests \cup {None}
  BY DEF Typed
<1>b. \A op \in Ops, r \in Requests :
        /\ r \in StartedOf(op) => r \in StartedOf(op)'
        /\ r \in Succeeded(op) => r \in Succeeded(op)'
        /\ r \in CountedOf(op) <=> r \in CountedOf(op)'
  <2>. SUFFICES ASSUME NEW op \in Ops, NEW r \in Requests
                PROVE  /\ r \in StartedOf(op) => r \in StartedOf(op)'
                       /\ r \in Succeeded(op) => r \in Succeeded(op)'
                       /\ r \in CountedOf(op) <=> r \in CountedOf(op)'
    OBVIOUS
  <2>1. r \in StartedOf(op) => r \in StartedOf(op)'
    BY DEF StartedOf, LedgerSound, LedgerGrows
  <2>2. r \in Succeeded(op) => r \in Succeeded(op)'
    BY DEF Succeeded, Is, LedgerGrows
  <2>3. r \in counted => ledger'[r] = ledger[r]
    BY DEF AccountsSound, LedgerGrows
  <2>. QED
    BY <2>1, <2>2, <2>3 DEF CountedOf
<1>c. gate # None => ledger'[gate] = ledger[gate]
  <2>1. gate # None => gate \in Succeeded("portia")
    BY DEF ResultsSound, ResultsAreWinners, StageSound
  <2>. QED
    BY <2>1 DEF Succeeded, Is, LedgerGrows
<1>1. StageSound'
  <2>1. \A op \in Ops : run.state = Running[op] => run.active \in StartedOf(op)'
    BY <1>b DEF StageSound, StartedOf
  <2>2. run.state \in Approved => Passes(ledger'[gate].verdict)
    BY <1>c DEF StageSound, Approved, Judged
  <2>. QED
    BY <2>1, <2>2 DEF StageSound
<1>2. AccountsSound'
  <2>1. \A r \in counted : ledger'[r].status \in EndedBadly
    BY <1>a DEF AccountsSound, LedgerGrows
  <2>2. \A op \in Ops : CountedOf(op)' = CountedOf(op)
    BY <1>a, <1>b DEF CountedOf
  <2>3. \A r \in called' : ledger'[r].status # "absent" /\ Attempted(r)'
    BY <1>a DEF CallsAttempted, AccountsSound, LedgerGrows, Attempted
  <2>4. \A op \in Ops : run.failed[op] = Cardinality(CountedOf(op)')
    BY <2>2 DEF AccountsSound
  <2>. QED
    BY <2>1, <2>3, <2>4 DEF AccountsSound
<1>3. ResultsAreWinners'
  BY <1>a, <1>b, StageStates DEF ResultsSound, ResultsAreWinners
<1>. QED
  BY <1>1, <1>2, <1>3

(* And as long as nothing new succeeds, every success has its place.       *)
LEMMA QuietStep ==
  ASSUME Typed, Typed', LedgerSound, LedgerSound', StageSound, AccountsSound, ResultsSound,
         LedgerGrows, NoNewWin, CallsAttempted,
         run' = run, review' = review, gate' = gate, quality' = quality, answered => answered',
         counted' = counted
  PROVE  StageSound' /\ AccountsSound' /\ ResultsSound'
<1>1. StageSound' /\ AccountsSound' /\ ResultsAreWinners'
  BY QuietRun
<1>2. PaidResultsKept'
  <2>1. \A op \in Ops, r \in Requests : r \in Succeeded(op)' => r \in Succeeded(op)
    BY DEF Succeeded, Is, NoNewWin, LedgerGrows
  <2>. QED
    BY <2>1, StageStates DEF ResultsSound, PaidResultsKept, Succeeded
<1>3. \A r \in Requests : r = run.active /\ ledger'[r].status = "succeeded" =>
        run.drafts = ledger'[r].work
  BY DEF ResultsSound, NoNewWin, LedgerGrows
<1>. QED
  BY <1>1, <1>2, <1>3 DEF ResultsSound

(* A handler's step that writes nothing but what the handler holds and,    *)
(* short of a success, the ledger.                                         *)
LEMMA HandlerStep ==
  ASSUME StagesInv, NEW h \in Handlers,
         handler' \in [Handlers -> {Idle} \cup Task],
         \A g \in Handlers \ {h} : handler'[g] = handler[g],
         Sound(h)', WorksAlone(h),
         ledger' \in [Requests -> Entry], LedgerSound', LedgerGrows, NoNewWin,
         called' \subseteq Requests, CallsAttempted,
         run' = run, UNCHANGED artifacts, crashes' \in 0..MaxCrashes, counted' = counted
  PROVE  StagesInv'
<1>1. review' = review /\ gate' = gate /\ quality' = quality /\ answered' = answered
  BY DEF artifacts
<1>2. Typed'
  BY <1>1 DEF StagesInv, Typed
<1>3. StageSound' /\ AccountsSound' /\ ResultsSound'
  BY <1>1, <1>2, QuietStep DEF StagesInv
<1>4. RunFollows /\ \A g \in Handlers : FenceKept(g)
  BY <1>1, RunStays DEF StagesInv
<1>5. HandlersSound' /\ OneWorker'
  BY <1>4, OneHandler DEF StagesInv
<1>. QED
  BY <1>2, <1>3, <1>5 DEF StagesInv

(* A handler's step that writes nothing else.                              *)
LEMMA HandlerOnly ==
  ASSUME StagesInv, NEW h \in Handlers,
         handler' \in [Handlers -> {Idle} \cup Task],
         \A g \in Handlers \ {h} : handler'[g] = handler[g],
         Sound(h)', Works(h)' => Works(h) /\ handler'[h].req = handler[h].req,
         UNCHANGED <<run, artifacts, ledger, crashes, called, counted>>
  PROVE  StagesInv'
<1>1. LedgerSound' /\ LedgerGrows /\ NoNewWin /\ CallsAttempted
  BY LedgerStays DEF StagesInv, NoNewWin, CallsAttempted
<1>2. /\ ledger' \in [Requests -> Entry] /\ called' \subseteq Requests
      /\ crashes' \in 0..MaxCrashes /\ run' = run /\ UNCHANGED artifacts /\ counted' = counted
  BY DEF StagesInv, Typed, artifacts
<1>3. WorksAlone(h)
  BY DEF WorksAlone
<1>. QED
  BY <1>1, <1>2, <1>3, HandlerStep

(* A handler ends and nothing else happens.                                *)
LEMMA EndStep ==
  ASSUME StagesInv, NEW h \in Handlers, Finish(h), crashes' \in 0..MaxCrashes,
         UNCHANGED <<run, artifacts, ledger, called, counted>>
  PROVE  StagesInv'
<1>1. /\ handler' \in [Handlers -> {Idle} \cup Task]
      /\ \A g \in Handlers \ {h} : handler'[g] = handler[g]
      /\ Sound(h)' /\ WorksAlone(h)
  BY Finishing DEF StagesInv, WorksAlone
<1>2. LedgerSound' /\ LedgerGrows /\ NoNewWin /\ CallsAttempted
  BY LedgerStays DEF StagesInv, NoNewWin, CallsAttempted
<1>3. /\ ledger' \in [Requests -> Entry] /\ called' \subseteq Requests
      /\ run' = run /\ UNCHANGED artifacts /\ counted' = counted
  BY DEF StagesInv, Typed, artifacts
<1>. QED
  BY <1>1, <1>2, <1>3, HandlerStep
-----------------------------------------------------------------------------
(* The initial state, and the handlers that open.                          *)

LEMMA StagesInit == Init => StagesInv
<1>. SUFFICES ASSUME Init
              PROVE  StagesInv
  OBVIOUS
<1>1. Typed
  <2>1. run \in Row
    <3>1. [op \in Ops |-> 0] \in [Ops -> 0..FailureLimit]
      BY ConstantsAssumption
    <3>2. "chess_terminal" \in LifecycleStates
      BY StageStates DEF Unreviewed
    <3>. QED
      BY <3>1, <3>2, DraftsAreSequences DEF Init, Row
  <2>2. NoEntry \in Entry
    BY DraftsAreSequences DEF NoEntry, Entry
  <2>3. MaxCrashes \in Nat /\ crashes \in 0..MaxCrashes
    BY ConstantsAssumption DEF Init
  <2>4. /\ {review, gate, quality} \subseteq Requests \cup {None} /\ answered \in BOOLEAN
        /\ handler \in [Handlers -> {Idle} \cup Task]
        /\ called \subseteq Requests /\ counted \subseteq Requests
    BY DEF Init
  <2>5. ledger \in [Requests -> Entry]
    BY <2>2 DEF Init
  <2>. QED
    BY <2>1, <2>3, <2>4, <2>5 DEF Typed
<1>2. LedgerSound
  BY DEF Init, LedgerSound, NoEntry
<1>3. StageSound
  BY StageStates DEF Init, StageSound, Unreviewed, Judged, Approved
<1>4. AccountsSound
  <2>1. \A op \in Ops : CountedOf(op) = {}
    BY DEF Init, CountedOf
  <2>2. \A op \in Ops : run.failed[op] = 0 /\ run.failed[op] # FailureLimit
    BY ConstantsAssumption DEF Init
  <2>. QED
    BY <2>1, <2>2, FS_EmptySet, StageStates DEF Init, AccountsSound
<1>5. ResultsSound
  BY DEF Init, ResultsSound, ResultsAreWinners, PaidResultsKept, Succeeded, Is, NoEntry
<1>6. HandlersSound /\ OneWorker
  BY DEF Init, HandlersSound, Sound, OneWorker, Works, Step, Idle
<1>. QED
  BY <1>1, <1>2, <1>3, <1>4, <1>5, <1>6 DEF StagesInv

(* A handler opens by reading the row.                                     *)
LEMMA OpeningStep ==
  ASSUME StagesInv, NEW h \in Handlers, NEW op \in Ops, NEW r \in Requests \cup {None},
         NEW step \in {"reserve", "prepare", "authorize", "conclude", "reconcile", "judge"},
         step = "reserve" => r \in Requests,
         step = "prepare" => run.state = "chess_terminal",
         step = "authorize" => run.state = "gate_passed" /\ answered,
         step = "conclude" => run.state = "gate_failed",
         step = "reconcile" => run.active \in StartedOf(op),
         step = "judge" => review # None,
         Opening(h, op, r, step)
  PROVE  StagesInv'
<1>. DEFINE task == [step |-> step, op |-> op, req |-> r,
                     payload |-> IF step = "judge" THEN review ELSE None,
                     snap |-> run, work |-> <<>>, verdict |-> None]
<1>1. task \in Task
  BY DraftsAreSequences DEF StagesInv, Typed, Task, Steps
<1>2. /\ task.step = step /\ task.op = op /\ task.req = r /\ task.snap = run
      /\ task.payload = IF step = "judge" THEN review ELSE None
  OBVIOUS
<1>3. handler' = [handler EXCEPT ![h] = task]
  BY DEF Opening
<1>. HIDE DEF task
<1>4. /\ handler' \in [Handlers -> {Idle} \cup Task] /\ handler'[h] = task
      /\ \A g \in Handlers \ {h} : handler'[g] = handler[g]
  BY <1>1, <1>3 DEF StagesInv, Typed
<1>5. UNCHANGED <<run, artifacts, ledger, crashes, called, counted>>
  BY DEF Opening
<1>6. run' = run /\ review' = review /\ answered' = answered /\ ledger' = ledger
  BY <1>5 DEF artifacts
<1>7. handler'[h].step = step /\ ~Works(h)'
  BY <1>2, <1>4 DEF Works, Step
<1>8. SnapSound(h)'
  <2>1. run.revision \in Nat
    BY DEF StagesInv, Typed, Row
  <2>. QED
    BY <1>2, <1>4, <1>6, <2>1 DEF SnapSound
<1>9. PayloadSound(h)' /\ StepSound(h)'
  BY <1>2, <1>4, <1>6 DEF PayloadSound, StepSound, Step, StartedOf
<1>10. Sound(h)'
  BY <1>7, <1>8, <1>9 DEF Sound, WorkSound
<1>. QED
  BY <1>4, <1>5, <1>7, <1>10, HandlerOnly

LEMMA PollStep ==
  ASSUME StagesInv, NEW h \in Handlers, Poll(h)
  PROVE  StagesInv'
<1>1. ASSUME NEW op \in Ops, run.state = Running[op], Opening(h, op, None, "reconcile")
      PROVE  StagesInv'
  <2>1. run.active \in StartedOf(op)
    BY <1>1 DEF StagesInv, StageSound
  <2>. QED
    BY <1>1, <2>1, OpeningStep
<1>2. ASSUME run.state = "gate_failed", Opening(h, "portia", None, "conclude")
      PROVE  StagesInv'
  BY <1>2, StageStates, OpeningStep
<1>. QED
  BY <1>1, <1>2 DEF Poll

LEMMA OpenStep ==
  ASSUME StagesInv, NEW h \in Handlers, NEW r \in Requests, OpenPortia(h, r) \/ OpenCharlotte(h, r)
  PROVE  StagesInv'
<1>1. run.state = "portia_complete" => review # None
  BY DEF StagesInv, StageSound, Unreviewed
<1>2. ASSUME run.state = "chess_terminal", Opening(h, "portia", r, "prepare")
      PROVE  StagesInv'
  BY <1>2, StageStates, OpeningStep
<1>3. ASSUME Opening(h, "portia", r, "reserve") \/ Opening(h, "charlotte", r, "reserve")
      PROVE  StagesInv'
  BY <1>3, StageStates, OpeningStep
<1>4. ASSUME run.state = "portia_complete", Opening(h, "portia", r, "judge")
      PROVE  StagesInv'
  BY <1>1, <1>4, StageStates, OpeningStep
<1>5. ASSUME answered, run.state = "gate_passed", Opening(h, "charlotte", r, "authorize")
      PROVE  StagesInv'
  BY <1>5, StageStates, OpeningStep
<1>. QED
  BY <1>2, <1>3, <1>4, <1>5 DEF OpenPortia, OpenCharlotte

-----------------------------------------------------------------------------
(* From reservation to the provider.                                       *)

(* One request is rewritten, and is no success yet.                        *)
LEMMA EntryWritten ==
  ASSUME Typed, LedgerSound, NEW r \in Requests, NEW entry \in Entry,
         entry.status # "absent", entry.op \in Ops,
         entry.status \in {"in_progress", "succeeded", "indeterminate"} => entry.started,
         ledger[r].status # "absent" => entry.op = ledger[r].op,
         ledger[r].started => entry.started,
         ledger[r].status \notin EndedBadly \cup {"succeeded"},
         ledger' = [ledger EXCEPT ![r] = entry]
  PROVE  /\ ledger' \in [Requests -> Entry] /\ ledger'[r] = entry
         /\ \A x \in Requests \ {r} : ledger'[x] = ledger[x]
         /\ LedgerSound' /\ LedgerGrows
         /\ entry.status # "succeeded" => NoNewWin
BY DEF Typed, LedgerSound, LedgerGrows, NoNewWin

(* A request is reserved by the handler that will work on it: it was       *)
(* absent, so nobody else does.                                            *)
LEMMA ReserveStep ==
  ASSUME StagesInv, NEW h \in Handlers, Reserve(h)
  PROVE  StagesInv'
<1>. DEFINE q == handler[h].req
            entry == [ledger[q] EXCEPT !.op = handler[h].op, !.status = "reserved"]
<1>1. Step(h) = "reserve" /\ Step(h) # "idle" /\ Goto(h, "begin") /\ ledger[q].status = "absent"
  BY DEF Reserve, Fresh
<1>2. /\ handler[h].op \in Ops /\ SnapSound(h) /\ q \in Requests /\ handler[h].payload = None
  BY <1>1, InFlight DEF StagesInv, HandlersSound, Sound, StepSound, PayloadSound
<1>3. /\ entry \in Entry /\ entry.op = handler[h].op /\ entry.status = "reserved"
      /\ entry.started = ledger[q].started
  BY <1>2 DEF StagesInv, Typed, Entry, ActiveStatus
<1>4. ledger' = [ledger EXCEPT ![q] = entry]
  BY DEF Reserve
<1>. HIDE DEF entry
<1>5. /\ ledger' \in [Requests -> Entry] /\ ledger'[q] = entry /\ LedgerSound' /\ LedgerGrows
      /\ NoNewWin
  BY <1>1, <1>2, <1>3, <1>4, EntryWritten DEF StagesInv, EndedBadly
<1>6. /\ handler' \in [Handlers -> {Idle} \cup Task]
      /\ handler'[h].step = "begin" /\ handler'[h].op = handler[h].op
      /\ handler'[h].req = q /\ handler'[h].payload = None /\ handler'[h].snap = handler[h].snap
      /\ \A g \in Handlers \ {h} : handler'[g] = handler[g]
  BY <1>1, <1>2, GoingOn DEF StagesInv, Steps
<1>7. run' = run /\ UNCHANGED artifacts /\ called' = called /\ counted' = counted
      /\ crashes' = crashes
  BY DEF Reserve
<1>8. WorksAlone(h)
  <2>1. ASSUME NEW g \in Handlers, Works(g)
        PROVE  ledger[handler[g].req].status # "absent"
    <3>1. Step(g) # "idle" /\ Sound(g)
      BY <2>1 DEF Works, StagesInv, HandlersSound
    <3>. QED
      BY <2>1, <3>1 DEF Sound, WorkSound
  <2>. QED
    BY <1>1, <1>6, <2>1 DEF WorksAlone
<1>9. Sound(h)'
  <2>1. SnapSound(h)'
    BY <1>2, <1>6, <1>7 DEF SnapSound
  <2>2. WorkSound(h)' /\ PayloadSound(h)' /\ StepSound(h)'
    BY <1>2, <1>3, <1>5, <1>6 DEF WorkSound, PayloadSound, StepSound, Step
  <2>. QED
    BY <2>1, <2>2 DEF Sound
<1>10. CallsAttempted /\ called' \subseteq Requests /\ crashes' \in 0..MaxCrashes
  BY <1>7 DEF CallsAttempted, StagesInv, Typed
<1>. QED
  BY <1>5, <1>6, <1>7, <1>8, <1>9, <1>10, HandlerStep

(* A success found is brought to the run.                                  *)
LEMMA FoundStep ==
  ASSUME StagesInv, NEW h \in Handlers, ReserveFindsResult(h)
  PROVE  StagesInv'
<1>1. Step(h) = "reserve" /\ Step(h) # "idle"
  BY DEF ReserveFindsResult
<1>2. /\ handler[h] \in Task /\ handler[h].op \in Ops /\ SnapSound(h)
  BY <1>1, InFlight DEF StagesInv, HandlersSound, Sound
<1>3. PICK x \in Found(h) :
        /\ ledger[x].status = "succeeded"
        /\ handler' = [handler EXCEPT
             ![h].req = x, ![h].payload = x,
             ![h].step = IF handler[h].snap.state = Pending[handler[h].op] THEN "attempt"
                                                                           ELSE "store"]
  BY DEF ReserveFindsResult
<1>4. x \in Requests /\ x \in Succeeded(handler[h].op) /\ x # None
  BY <1>3, ConstantsAssumption DEF Found, Succeeded, Is
<1>. DEFINE step == IF handler[h].snap.state = Pending[handler[h].op] THEN "attempt" ELSE "store"
            task == [handler[h] EXCEPT !.req = x, !.payload = x, !.step = step]
<1>5. handler' = [handler EXCEPT ![h] = task]
  BY <1>3
<1>6. step \in {"attempt", "store"} /\ step \in Steps
  BY DEF Steps
<1>. HIDE DEF step
<1>7. /\ task \in Task /\ task.step = step /\ task.op = handler[h].op /\ task.req = x
      /\ task.payload = x /\ task.snap = handler[h].snap
  BY <1>2, <1>4, <1>6 DEF Task
<1>. HIDE DEF task
<1>8. /\ handler' \in [Handlers -> {Idle} \cup Task] /\ handler'[h] = task
      /\ \A g \in Handlers \ {h} : handler'[g] = handler[g]
  BY <1>5, <1>7 DEF StagesInv, Typed
<1>9. UNCHANGED <<run, artifacts, ledger, crashes, called, counted>>
  BY DEF ReserveFindsResult
<1>10. ~Works(h)'
  BY <1>4, <1>7, <1>8 DEF Works
<1>11. Sound(h)'
  <2>1. SnapSound(h)'
    BY <1>2, <1>7, <1>8, <1>9 DEF SnapSound
  <2>2. PayloadSound(h)' /\ StepSound(h)'
    BY <1>4, <1>6, <1>7, <1>8, <1>9 DEF PayloadSound, StepSound, Step, Succeeded, Is
  <2>. QED
    BY <1>10, <2>1, <2>2 DEF Sound, WorkSound
<1>. QED
  BY <1>8, <1>9, <1>10, <1>11, HandlerOnly

(* A handler goes on to count a failure: nothing is asked of it there.     *)
LEMMA ToFail ==
  ASSUME StagesInv, NEW h \in Handlers, Step(h) \in {"reserve", "settle", "store"},
         Goto(h, "fail"), UNCHANGED <<run, artifacts, ledger, crashes, called, counted>>
  PROVE  StagesInv'
<1>1. Step(h) # "idle" /\ SnapSound(h) /\ handler[h].req \in Requests
  BY DEF StagesInv, HandlersSound, Sound, StepSound
<1>2. /\ handler' \in [Handlers -> {Idle} \cup Task]
      /\ handler'[h].step = "fail"
      /\ handler'[h].req = handler[h].req /\ handler'[h].snap = handler[h].snap
      /\ \A g \in Handlers \ {h} : handler'[g] = handler[g]
  BY <1>1, GoingOn DEF StagesInv, Steps
<1>3. ~Works(h)'
  BY <1>2 DEF Works, Step
<1>4. Sound(h)'
  <2>1. SnapSound(h)'
    BY <1>1, <1>2 DEF SnapSound
  <2>2. PayloadSound(h)' /\ StepSound(h)'
    BY <1>1, <1>2 DEF PayloadSound, StepSound, Step
  <2>. QED
    BY <1>3, <2>1, <2>2 DEF Sound, WorkSound
<1>. QED
  BY <1>2, <1>3, <1>4, HandlerOnly
(* The provider may be called.                                             *)
LEMMA BeginStep ==
  ASSUME StagesInv, NEW h \in Handlers, Begin(h)
  PROVE  StagesInv'
<1>. DEFINE q == handler[h].req
            entry == [ledger[q] EXCEPT !.status = "in_progress", !.started = TRUE]
<1>1. Step(h) = "begin" /\ Step(h) # "idle"
  BY DEF Begin
<1>2. /\ handler[h].op \in Ops /\ SnapSound(h) /\ q \in Requests /\ handler[h].payload = None
      /\ Works(h) /\ ledger[q].op = handler[h].op
  BY <1>1, InFlight
     DEF StagesInv, HandlersSound, Sound, StepSound, PayloadSound, WorkSound, Works
<1>3. CASE ledger[q].status # "reserved"
  BY <1>3, EndStep DEF Begin, StagesInv, Typed
<1>4. CASE ledger[q].status = "reserved"
  <2>1. /\ entry \in Entry /\ entry.op = handler[h].op /\ entry.status = "in_progress"
        /\ entry.started
    BY <1>2 DEF StagesInv, Typed, Entry, ActiveStatus
  <2>2. ledger' = [ledger EXCEPT ![q] = entry] /\ Goto(h, "attempt")
    BY <1>4 DEF Begin
  <2>. HIDE DEF entry
  <2>3. /\ ledger' \in [Requests -> Entry] /\ ledger'[q] = entry /\ LedgerSound' /\ LedgerGrows
        /\ NoNewWin
    BY <1>2, <1>4, <2>1, <2>2, EntryWritten DEF StagesInv, EndedBadly
  <2>4. /\ handler' \in [Handlers -> {Idle} \cup Task]
        /\ handler'[h].step = "attempt" /\ handler'[h].op = handler[h].op
        /\ handler'[h].req = q /\ handler'[h].payload = None /\ handler'[h].snap = handler[h].snap
        /\ \A g \in Handlers \ {h} : handler'[g] = handler[g]
    BY <1>1, <1>2, <2>2, GoingOn DEF StagesInv, Steps
  <2>5. run' = run /\ UNCHANGED artifacts /\ called' = called /\ counted' = counted
        /\ crashes' = crashes
    BY DEF Begin
  <2>6. WorksAlone(h)
    BY <1>2, <2>4 DEF WorksAlone
  <2>7. Sound(h)'
    <3>1. SnapSound(h)'
      BY <1>2, <2>4, <2>5 DEF SnapSound
    <3>2. WorkSound(h)' /\ PayloadSound(h)' /\ StepSound(h)'
      BY <1>2, <2>1, <2>3, <2>4 DEF WorkSound, PayloadSound, StepSound, Step
    <3>. QED
      BY <3>1, <3>2 DEF Sound
  <2>8. CallsAttempted /\ called' \subseteq Requests /\ crashes' \in 0..MaxCrashes
    BY <2>5 DEF CallsAttempted, StagesInv, Typed
  <2>. QED
    BY <2>3, <2>4, <2>5, <2>6, <2>7, <2>8, HandlerStep
<1>. QED
  BY <1>3, <1>4

(* The row is read back, and the provider called unless a result is there. *)
LEMMA LoadStep ==
  ASSUME StagesInv, NEW h \in Handlers, Load(h)
  PROVE  StagesInv'
<1>. DEFINE q == handler[h].req
            step == IF handler[h].payload = None THEN "call" ELSE "store"
            task == [handler[h] EXCEPT !.work = handler[h].snap.drafts, !.snap = run, !.step = step]
<1>1. Step(h) = "load" /\ Step(h) # "idle"
  BY DEF Load
<1>2. /\ handler[h] \in Task /\ handler[h].snap \in Row /\ q \in Requests
      /\ WorkSound(h) /\ PayloadSound(h)
  BY <1>1, InFlight DEF StagesInv, HandlersSound, Sound, StepSound
<1>3. handler' = [handler EXCEPT ![h] = task]
  BY DEF Load, Resumed
<1>4. step \in Steps /\ handler[h].snap.drafts \in Drafts /\ run \in Row
  BY <1>2 DEF Steps, Row, StagesInv, Typed
<1>5. /\ handler[h].payload = None => step = "call"
      /\ handler[h].payload # None => step = "store"
  OBVIOUS
<1>. HIDE DEF step
<1>6. /\ task \in Task /\ task.step = step /\ task.op = handler[h].op /\ task.req = q
      /\ task.payload = handler[h].payload /\ task.snap = run
      /\ task.work = handler[h].snap.drafts
  BY <1>2, <1>4 DEF Task
<1>. HIDE DEF task
<1>7. /\ handler' \in [Handlers -> {Idle} \cup Task] /\ handler'[h] = task
      /\ \A g \in Handlers \ {h} : handler'[g] = handler[g]
  BY <1>3, <1>6 DEF StagesInv, Typed
<1>8. run' = run /\ UNCHANGED artifacts /\ ledger' = ledger /\ counted' = counted
      /\ crashes' = crashes /\ review' = review /\ quality' = quality /\ answered' = answered
  BY DEF Load, artifacts
<1>9. /\ Works(h) <=> handler[h].payload = None
      /\ Works(h)' <=> handler[h].payload = None
  BY <1>1, <1>5, <1>6, <1>7 DEF Works, Step
<1>10. WorksAlone(h)
  BY <1>6, <1>7, <1>9 DEF WorksAlone
<1>11. Sound(h)'
  <2>1. SnapSound(h)'
    <3>1. run.revision \in Nat
      BY <1>4 DEF Row
    <3>. QED
      BY <1>6, <1>7, <1>8, <3>1 DEF SnapSound
  <2>2. PayloadSound(h)' /\ StepSound(h)'
    BY <1>1, <1>2, <1>5, <1>6, <1>7, <1>8 DEF PayloadSound, StepSound, Step, Succeeded, Is
  <2>3. WorkSound(h)'
    BY <1>1, <1>2, <1>5, <1>6, <1>7, <1>8, <1>9 DEF WorkSound, Step, Attempted
  <2>. QED
    BY <2>1, <2>2, <2>3 DEF Sound
<1>12. CallsAttempted /\ called' \subseteq Requests
  <2>1. called' = IF handler[h].payload = None THEN called \cup {q} ELSE called
    BY DEF Load
  <2>2. handler[h].payload = None => ledger[q].status # "absent" /\ Attempted(q)
    BY <1>1, <1>2, <1>9 DEF WorkSound
  <2>. QED
    BY <1>2, <2>1, <2>2 DEF CallsAttempted, StagesInv, Typed
<1>13. LedgerSound' /\ LedgerGrows /\ NoNewWin
  BY <1>8, LedgerStays DEF StagesInv, NoNewWin
<1>14. ledger' \in [Requests -> Entry] /\ crashes' \in 0..MaxCrashes
  BY <1>8 DEF StagesInv, Typed
<1>. QED
  BY <1>7, <1>8, <1>10, <1>11, <1>12, <1>13, <1>14, HandlerStep

(* The generator ends, one way or another.                                 *)
LEMMA GeneratedStep ==
  ASSUME StagesInv, NEW h \in Handlers, NEW v \in Review \cup {None},
         NEW step \in {"settle", "refuse"}, Step(h) = "call",
         handler' = [handler EXCEPT ![h] = [handler[h] EXCEPT !.step = step, !.verdict = v]],
         UNCHANGED <<run, artifacts, ledger, crashes, called, counted>>
  PROVE  StagesInv'
<1>. DEFINE task == [handler[h] EXCEPT !.step = step, !.verdict = v]
<1>1. Step(h) # "idle"
  OBVIOUS
<1>2. /\ handler[h] \in Task /\ handler[h].req \in Requests /\ SnapSound(h)
      /\ WorkSound(h) /\ handler[h].payload = None
  BY <1>1, InFlight DEF StagesInv, HandlersSound, Sound, StepSound, PayloadSound
<1>3. /\ task \in Task /\ task.step = step /\ task.op = handler[h].op
      /\ task.req = handler[h].req /\ task.payload = None /\ task.snap = handler[h].snap
      /\ task.work = handler[h].work
  BY <1>2 DEF Task, Steps
<1>. HIDE DEF task
<1>4. /\ handler' \in [Handlers -> {Idle} \cup Task] /\ handler'[h] = task
      /\ \A g \in Handlers \ {h} : handler'[g] = handler[g]
  BY <1>3 DEF StagesInv, Typed, task
<1>5. run' = run /\ review' = review /\ quality' = quality /\ ledger' = ledger /\ counted' = counted
  BY DEF artifacts
<1>6. Works(h) /\ handler'[h].req = handler[h].req
  BY <1>2, <1>3, <1>4 DEF Works
<1>7. Sound(h)'
  <2>1. SnapSound(h)'
    BY <1>2, <1>3, <1>4, <1>5 DEF SnapSound
  <2>2. PayloadSound(h)' /\ StepSound(h)'
    BY <1>2, <1>3, <1>4 DEF PayloadSound, StepSound, Step
  <2>3. WorkSound(h)'
    BY <1>2, <1>3, <1>4, <1>5, <1>6 DEF WorkSound, Step, Attempted
  <2>. QED
    BY <2>1, <2>2, <2>3 DEF Sound
<1>. QED
  BY <1>4, <1>6, <1>7, HandlerOnly
-----------------------------------------------------------------------------
(* What the ledger decides.                                                *)

(* A live request that was attempted fences the run: it is not counted and *)
(* not stored.                                                             *)
LEMMA LiveAttemptFences ==
  ASSUME StagesInv, NEW r \in Requests, Attempted(r), ledger[r].status \in ActiveStatus
  PROVE  r = run.active
<1>1. r \notin counted
  BY DEF StagesInv, AccountsSound, EndedBadly, ActiveStatus
<1>2. r # review /\ r # quality
  BY ConstantsAssumption
     DEF StagesInv, ResultsSound, ResultsAreWinners, Succeeded, Is, ActiveStatus
<1>. QED
  BY <1>1, <1>2 DEF Attempted

(* A result is paid for: its request is the one the run is waiting for.    *)
LEMMA WinStep ==
  ASSUME StagesInv, NEW h \in Handlers, SettleSuccess(h)
  PROVE  StagesInv'
<1>. DEFINE q == handler[h].req
            entry == [ledger[q] EXCEPT !.status = "succeeded", !.work = handler[h].work,
                                       !.verdict = handler[h].verdict]
            task == [handler[h] EXCEPT !.step = "store", !.payload = q]
<1>1. Step(h) = "settle" /\ Step(h) # "idle" /\ ledger[q].status = "in_progress"
  BY DEF SettleSuccess
<1>2. /\ handler[h] \in Task /\ handler[h].op \in Ops /\ handler[h].work \in Drafts
      /\ handler[h].verdict \in Review \cup {None}
      /\ SnapSound(h) /\ WorkSound(h) /\ q \in Requests /\ handler[h].payload = None
  BY <1>1, InFlight DEF StagesInv, HandlersSound, Sound, StepSound, PayloadSound
<1>3. /\ ledger[q].op = handler[h].op /\ Attempted(q)
      /\ run.active = q => run.drafts = handler[h].work
  BY <1>1, <1>2 DEF WorkSound, Works
<1>4. run.active = q /\ run.drafts = handler[h].work
  BY <1>1, <1>2, <1>3, LiveAttemptFences DEF ActiveStatus
<1>5. /\ entry \in Entry /\ entry.op = ledger[q].op /\ entry.status = "succeeded"
      /\ entry.started = ledger[q].started /\ entry.work = handler[h].work
  BY <1>2 DEF StagesInv, Typed, Entry
<1>6. ledger' = [ledger EXCEPT ![q] = entry] /\ handler' = [handler EXCEPT ![h] = task]
  BY DEF SettleSuccess
<1>. HIDE DEF entry
<1>7. /\ ledger' \in [Requests -> Entry] /\ ledger'[q] = entry /\ LedgerSound' /\ LedgerGrows
      /\ \A x \in Requests \ {q} : ledger'[x] = ledger[x]
  <2>1. entry.op \in Ops /\ entry.started
    BY <1>1, <1>2, <1>5 DEF StagesInv, LedgerSound
  <2>. QED
    BY <1>1, <1>2, <1>5, <1>6, <2>1, EntryWritten DEF StagesInv, EndedBadly
<1>8. /\ task \in Task /\ task.step = "store" /\ task.op = handler[h].op /\ task.req = q
      /\ task.payload = q /\ task.snap = handler[h].snap
  BY <1>2 DEF Task, Steps
<1>. HIDE DEF task
<1>9. /\ handler' \in [Handlers -> {Idle} \cup Task] /\ handler'[h] = task
      /\ \A g \in Handlers \ {h} : handler'[g] = handler[g]
  BY <1>6, <1>8 DEF StagesInv, Typed
<1>10. /\ run' = run /\ review' = review /\ gate' = gate /\ quality' = quality
       /\ answered' = answered /\ called' = called /\ counted' = counted /\ crashes' = crashes
  BY DEF SettleSuccess, artifacts
<1>11. Typed'
  BY <1>7, <1>9, <1>10 DEF StagesInv, Typed
<1>12. StageSound' /\ AccountsSound' /\ ResultsAreWinners'
  BY <1>7, <1>10, <1>11, QuietRun DEF StagesInv, CallsAttempted
<1>13. PaidResultsKept'
  <2>1. \A op \in Ops, r \in Requests \ {q} : r \in Succeeded(op)' => r \in Succeeded(op)
    BY <1>7 DEF Succeeded, Is
  <2>. QED
    BY <1>4, <1>10, <2>1, StageStates DEF StagesInv, ResultsSound, PaidResultsKept, Succeeded
<1>14. \A r \in Requests : r = run'.active /\ ledger'[r].status = "succeeded" =>
         run'.drafts = ledger'[r].work
  BY <1>4, <1>5, <1>7, <1>10
<1>15. RunFollows /\ \A g \in Handlers : FenceKept(g)
  BY <1>10, RunStays DEF StagesInv
<1>16. q # None /\ ~Works(h)'
  BY <1>2, <1>8, <1>9, ConstantsAssumption DEF Works
<1>17. Sound(h)'
  <2>1. SnapSound(h)'
    BY <1>2, <1>8, <1>9, <1>10 DEF SnapSound
  <2>2. q \in Succeeded(handler[h].op)'
    BY <1>2, <1>3, <1>5, <1>7, <1>8, <1>9 DEF Succeeded, Is
  <2>3. PayloadSound(h)' /\ StepSound(h)'
    BY <1>2, <1>8, <1>9, <1>16, <2>2 DEF PayloadSound, StepSound, Step, Succeeded
  <2>. QED
    BY <1>16, <2>1, <2>3 DEF Sound, WorkSound
<1>18. HandlersSound' /\ OneWorker'
  <2>1. WorksAlone(h)
    BY <1>16 DEF WorksAlone
  <2>. QED
    BY <1>7, <1>9, <1>15, <1>17, <2>1, OneHandler DEF StagesInv
<1>. QED
  BY <1>7, <1>11, <1>12, <1>13, <1>14, <1>18 DEF StagesInv, ResultsSound

(* The lease ran out first: another attempt's success, or a failure.       *)
LEMMA LateStep ==
  ASSUME StagesInv, NEW h \in Handlers, SettleLate(h)
  PROVE  StagesInv'
<1>. DEFINE q == handler[h].req
<1>1. Step(h) = "settle" /\ Step(h) # "idle" /\ ledger[q].status = "indeterminate"
  BY DEF SettleLate
<1>2. /\ handler[h] \in Task /\ handler[h].op \in Ops /\ SnapSound(h) /\ q \in Requests
  BY <1>1, InFlight DEF StagesInv, HandlersSound, Sound, StepSound
<1>3. UNCHANGED <<run, artifacts, ledger, crashes, called, counted>>
  BY DEF SettleLate
<1>4. CASE Goto(h, "fail")
  BY <1>1, <1>3, <1>4, ToFail
<1>5. ASSUME NEW w \in Succeeded(handler[h].op),
             handler' = [handler EXCEPT ![h].step = "store", ![h].payload = w]
      PROVE  StagesInv'
  <2>. DEFINE task == [handler[h] EXCEPT !.step = "store", !.payload = w]
  <2>1. handler' = [handler EXCEPT ![h] = task]
    BY <1>5
  <2>2. w \in Requests /\ w # None
    BY ConstantsAssumption DEF Succeeded
  <2>3. /\ task \in Task /\ task.step = "store" /\ task.op = handler[h].op /\ task.req = q
        /\ task.payload = w /\ task.snap = handler[h].snap
    BY <1>2, <2>2 DEF Task, Steps
  <2>. HIDE DEF task
  <2>4. /\ handler' \in [Handlers -> {Idle} \cup Task] /\ handler'[h] = task
        /\ \A g \in Handlers \ {h} : handler'[g] = handler[g]
    BY <2>1, <2>3 DEF StagesInv, Typed
  <2>5. ~Works(h)'
    BY <2>2, <2>3, <2>4 DEF Works
  <2>6. SnapSound(h)'
    BY <1>2, <1>3, <2>3, <2>4 DEF SnapSound
  <2>7. PayloadSound(h)' /\ StepSound(h)'
    BY <1>1, <1>2, <1>3, <2>2, <2>3, <2>4 DEF PayloadSound, StepSound, Step, Succeeded, Is
  <2>8. Sound(h)'
    BY <2>5, <2>6, <2>7 DEF Sound, WorkSound
  <2>. QED
    BY <1>3, <2>4, <2>5, <2>8, HandlerOnly
<1>. QED
  BY <1>4, <1>5 DEF SettleLate

(* A request fails for certain.                                            *)
LEMMA FailureStep ==
  ASSUME StagesInv, NEW h \in Handlers, SettleFailure(h)
  PROVE  StagesInv'
<1>. DEFINE q == handler[h].req
            entry == [ledger[q] EXCEPT !.status = "failed"]
<1>1. Step(h) = "refuse" /\ Step(h) # "idle"
  BY DEF SettleFailure
<1>2. SnapSound(h) /\ q \in Requests
  BY <1>1 DEF StagesInv, HandlersSound, Sound, StepSound
<1>3. CASE ledger[q].status # "in_progress"
  BY <1>3, EndStep DEF SettleFailure, StagesInv, Typed
<1>4. CASE ledger[q].status = "in_progress"
  <2>1. /\ entry \in Entry /\ entry.op = ledger[q].op /\ entry.status = "failed"
        /\ entry.started = ledger[q].started
    BY <1>2 DEF StagesInv, Typed, Entry, EndedBadly
  <2>2. ledger' = [ledger EXCEPT ![q] = entry] /\ Goto(h, "fail")
    BY <1>4 DEF SettleFailure
  <2>3. entry.op \in Ops
    BY <1>2, <1>4, <2>1 DEF StagesInv, LedgerSound
  <2>. HIDE DEF entry
  <2>4. /\ ledger' \in [Requests -> Entry] /\ LedgerSound' /\ LedgerGrows /\ NoNewWin
    BY <1>2, <1>4, <2>1, <2>2, <2>3, EntryWritten DEF StagesInv, EndedBadly
  <2>5. /\ handler' \in [Handlers -> {Idle} \cup Task]
        /\ handler'[h].step = "fail"
        /\ handler'[h].req = q /\ handler'[h].snap = handler[h].snap
        /\ \A g \in Handlers \ {h} : handler'[g] = handler[g]
    BY <1>1, <2>2, GoingOn DEF StagesInv, Steps
  <2>6. run' = run /\ UNCHANGED artifacts /\ called' = called /\ counted' = counted
        /\ crashes' = crashes
    BY DEF SettleFailure
  <2>7. ~Works(h)' /\ WorksAlone(h)
    BY <2>5 DEF Works, Step, WorksAlone
  <2>8. Sound(h)'
    <3>1. SnapSound(h)'
      BY <1>2, <2>5, <2>6 DEF SnapSound
    <3>2. PayloadSound(h)' /\ StepSound(h)'
      BY <1>2, <2>5 DEF PayloadSound, StepSound, Step
    <3>. QED
      BY <2>7, <3>1, <3>2 DEF Sound, WorkSound
  <2>9. CallsAttempted /\ called' \subseteq Requests /\ crashes' \in 0..MaxCrashes
    BY <2>6 DEF CallsAttempted, StagesInv, Typed
  <2>. QED
    BY <2>4, <2>5, <2>6, <2>7, <2>8, <2>9, HandlerStep
<1>. QED
  BY <1>3, <1>4

(* A lease runs out.                                                       *)
LEMMA ExpireStep ==
  ASSUME StagesInv, NEW r \in Requests, Expire(r)
  PROVE  StagesInv'
<1>. DEFINE to == IF ledger[r].status = "reserved" THEN "failed" ELSE "indeterminate"
            entry == [ledger[r] EXCEPT !.status = to]
<1>1. ledger[r].status \in ActiveStatus /\ ledger' = [ledger EXCEPT ![r] = entry]
  BY DEF Expire
<1>2. /\ entry \in Entry /\ entry.op = ledger[r].op /\ entry.status = to
      /\ entry.started = ledger[r].started /\ to \in EndedBadly
  BY DEF StagesInv, Typed, Entry, EndedBadly
<1>3. to = "indeterminate" => ledger[r].status = "in_progress"
  BY <1>1 DEF ActiveStatus
<1>. HIDE DEF to, entry
<1>4. entry.op \in Ops /\ (entry.status = "indeterminate" => entry.started)
  BY <1>1, <1>2, <1>3 DEF StagesInv, LedgerSound, ActiveStatus
<1>5. /\ ledger' \in [Requests -> Entry] /\ LedgerSound' /\ LedgerGrows /\ NoNewWin
  BY <1>1, <1>2, <1>4, EntryWritten DEF StagesInv, EndedBadly, ActiveStatus
<1>6. /\ run' = run /\ review' = review /\ gate' = gate /\ quality' = quality
      /\ answered' = answered /\ called' = called /\ counted' = counted /\ crashes' = crashes
      /\ handler' = handler
  BY DEF Expire, artifacts
<1>7. Typed'
  BY <1>5, <1>6 DEF StagesInv, Typed
<1>8. StageSound' /\ AccountsSound' /\ ResultsSound'
  BY <1>5, <1>6, <1>7, QuietStep DEF StagesInv, CallsAttempted
<1>9. RunFollows /\ \A g \in Handlers : FenceKept(g)
  BY <1>6, RunStays DEF StagesInv
<1>10. HandlersSound' /\ OneWorker'
  <2>1. \A g \in Handlers : Sound(g)'
    BY <1>5, <1>6, <1>9, SoundKept DEF StagesInv, HandlersSound
  <2>. QED
    BY <1>6, <2>1 DEF StagesInv, HandlersSound, OneWorker, Works, Step
<1>. QED
  BY <1>5, <1>7, <1>8, <1>10 DEF StagesInv
-----------------------------------------------------------------------------
(* What is committed to the run.                                           *)

(* A paid result is the stored one unless its stage is running.            *)
LEMMA PaidIsStored ==
  ASSUME StagesInv, NEW op \in Ops, run.state # Running[op], NEW r \in Succeeded(op)
  PROVE  /\ op = "portia" => r = review
         /\ op = "charlotte" => r = quality
<1>1. r \in Requests /\ ledger[r].op = op
  BY DEF Succeeded, Is
<1>2. r # run.active
  <2>1. ASSUME NEW o \in Ops, run.state = Running[o]
        PROVE  r # run.active
    <3>1. o # op /\ run.active \in StartedOf(o)
      BY <2>1 DEF StagesInv, StageSound
    <3>. QED
      BY <1>1, <3>1 DEF StartedOf
  <2>2. ASSUME \A o \in Ops : run.state # Running[o]
        PROVE  r # run.active
    BY <1>1, <2>2, ConstantsAssumption DEF StagesInv, StageSound
  <2>. QED
    BY <2>1, <2>2
<1>. QED
  BY <1>2 DEF StagesInv, ResultsSound, PaidResultsKept

(* The row moves to another state and nothing else is written.             *)
LEMMA MoveStep ==
  ASSUME StagesInv, NEW h \in Handlers, Step(h) # "idle", NEW to \in LifecycleStates,
         \/ run.state = "chess_terminal" /\ to = "portia_pending"
         \/ run.state = "gate_passed" /\ answered /\ to = "charlotte_pending"
         \/ run.state = "gate_failed" /\ to = "insufficient_basis",
         run' = Advance(to), Finish(h), UNCHANGED <<artifacts, ledger, crashes, called, counted>>
  PROVE  StagesInv'
<1>1. /\ run' \in Row /\ run'.state = to /\ run'.revision = run.revision + 1
      /\ run'.active = run.active /\ run'.failed = run.failed /\ run'.drafts = run.drafts
  BY AdvancedRow DEF StagesInv, Typed
<1>2. run.revision \in Nat
  BY DEF StagesInv, Typed, Row
<1>3. /\ review' = review /\ gate' = gate /\ quality' = quality /\ answered' = answered
      /\ ledger' = ledger /\ crashes' = crashes /\ called' = called /\ counted' = counted
  BY DEF artifacts
<1>4. /\ handler' \in [Handlers -> {Idle} \cup Task]
      /\ \A g \in Handlers \ {h} : handler'[g] = handler[g]
      /\ Sound(h)' /\ WorksAlone(h)
  BY Finishing DEF StagesInv, WorksAlone
<1>5. Typed'
  BY <1>1, <1>3, <1>4 DEF StagesInv, Typed
<1>6. StageSound'
  <2>1. StartedOf("portia")' = StartedOf("portia") /\ StartedOf("charlotte")' = StartedOf("charlotte")
    BY <1>3 DEF StartedOf
  <2>. QED
    BY <1>1, <1>3, <2>1, StageStates
       DEF StagesInv, StageSound, Unreviewed, Judged, Approved
<1>7. AccountsSound'
  <2>1. \A op \in Ops : CountedOf(op)' = CountedOf(op)
    BY <1>3 DEF CountedOf
  <2>2. \A op \in Ops : run.state # Unavailable[op] /\ run'.state # Unavailable[op]
    BY <1>1, StageStates
  <2>. QED
    BY <1>1, <1>3, <2>1, <2>2 DEF StagesInv, AccountsSound, Attempted
<1>8. ResultsSound'
  BY <1>1, <1>3
     DEF StagesInv, ResultsSound, ResultsAreWinners, PaidResultsKept, Succeeded, Is
<1>9. RunFollows /\ \A g \in Handlers : FenceKept(g)
  BY <1>1, <1>2, <1>3 DEF RunFollows, FenceKept, Attempted
<1>10. LedgerSound' /\ LedgerGrows
  BY <1>3, LedgerStays DEF StagesInv
<1>11. HandlersSound' /\ OneWorker'
  BY <1>4, <1>9, <1>10, OneHandler DEF StagesInv
<1>. QED
  BY <1>5, <1>6, <1>7, <1>8, <1>10, <1>11 DEF StagesInv

(* transition(), from the three states that leave for the next stage.      *)
LEMMA TransitionStep ==
  ASSUME StagesInv, NEW h \in Handlers, Prepare(h) \/ Authorize(h) \/ Conclude(h)
  PROVE  StagesInv'
<1>. DEFINE to == CASE Step(h) = "prepare"   -> "portia_pending"
                    [] Step(h) = "authorize" -> "charlotte_pending"
                    [] OTHER                 -> "insufficient_basis"
<1>1. /\ Step(h) \in {"prepare", "authorize", "conclude"} /\ Step(h) # "idle"
      /\ Transition(h, to)
  BY DEF Prepare, Authorize, Conclude
<1>2. StepSound(h)
  BY <1>1 DEF StagesInv, HandlersSound, Sound
<1>3. to \in LifecycleStates
  BY StageStates DEF Unreviewed, Judged
<1>4. \/ handler[h].snap.state = "chess_terminal" /\ to = "portia_pending"
      \/ handler[h].snap.state = "gate_passed" /\ answered /\ to = "charlotte_pending"
      \/ handler[h].snap.state = "gate_failed" /\ to = "insufficient_basis"
  BY <1>1, <1>2 DEF StepSound
<1>. HIDE DEF to
<1>5. CASE run' = run
  BY <1>1, <1>5, EndStep DEF Transition, StagesInv, Typed
<1>6. CASE run' # run
  <2>1. run.state = handler[h].snap.state /\ run' = Advance(to) /\ Finish(h)
        /\ UNCHANGED <<artifacts, ledger, crashes, called, counted>>
    BY <1>1, <1>6 DEF Transition, Unmoved
  <2>. QED
    BY <1>1, <1>3, <1>4, <2>1, MoveStep
<1>. QED
  BY <1>5, <1>6

(* An attempt begins: its request is in progress and will fence the run.   *)
LEMMA AttemptStep ==
  ASSUME StagesInv, NEW h \in Handlers, Attempt(h)
  PROVE  StagesInv'
<1>. DEFINE q == handler[h].req
            op == handler[h].op
<1>1. Step(h) = "attempt" /\ Step(h) # "idle"
  BY DEF Attempt
<1>2. /\ op \in Ops /\ SnapSound(h) /\ q \in Requests /\ PayloadSound(h) /\ WorkSound(h)
      /\ handler[h].snap \in Row
  BY <1>1, InFlight DEF StagesInv, HandlersSound, Sound, StepSound
<1>3. CASE ~MayAttempt(h)
  BY <1>3, EndStep DEF Attempt, StagesInv, Typed
<1>4. CASE MayAttempt(h)
  <2>1. /\ run.revision = handler[h].snap.revision /\ run.state = Pending[op]
        /\ run.failed[op] < FailureLimit /\ Is(q, op, {"in_progress", "succeeded"})
    BY <1>4 DEF MayAttempt
  <2>2. /\ run.state \in {"portia_pending", "charlotte_pending"}
        /\ run.active = None /\ (op = "portia" => review = None) /\ quality = None
    BY <1>2, <2>1, StageStates DEF StagesInv, StageSound, Unreviewed
  <2>3. Succeeded(op) = {}
    <3>1. ASSUME NEW r \in Succeeded(op)
          PROVE  r \in Requests /\ r = None
      BY <1>2, <2>2, <3>1, PaidIsStored, StageStates DEF Succeeded
    <3>. QED
      BY <3>1, ConstantsAssumption
  <2>4. ledger[q].status = "in_progress" /\ ledger[q].op = op /\ handler[h].payload = None
    BY <1>1, <1>2, <2>1, <2>3 DEF Is, Succeeded, PayloadSound
  <2>5. Works(h)
    BY <1>1, <2>4 DEF Works
  <2>6. /\ run' = [Advance(Running[op]) EXCEPT !.active = q] /\ Goto(h, "load")
        /\ UNCHANGED <<artifacts, ledger, crashes, called, counted>>
    BY <1>4 DEF Attempt
  <2>7. Running[op] \in LifecycleStates
    BY <1>2, StageStates DEF Unreviewed, Judged
  <2>8. /\ run' \in Row /\ run'.state = Running[op] /\ run'.revision = run.revision + 1
        /\ run'.active = q /\ run'.failed = run.failed /\ run'.drafts = run.drafts
    <3>. DEFINE row == Advance(Running[op])
    <3>1. /\ row \in Row /\ row.state = Running[op] /\ row.revision = run.revision + 1
          /\ row.failed = run.failed /\ row.drafts = run.drafts
      BY <2>7, AdvancedRow DEF StagesInv, Typed
    <3>2. run' = [row EXCEPT !.active = q]
      BY <2>6
    <3>. HIDE DEF row
    <3>. QED
      BY <1>2, <3>1, <3>2 DEF Row
  <2>9. run.revision \in Nat
    BY DEF StagesInv, Typed, Row
  <2>10. /\ review' = review /\ gate' = gate /\ quality' = quality /\ answered' = answered
         /\ ledger' = ledger /\ crashes' = crashes /\ called' = called /\ counted' = counted
    BY <2>6 DEF artifacts
  <2>11. /\ handler' \in [Handlers -> {Idle} \cup Task]
         /\ handler'[h].step = "load" /\ handler'[h].op = op /\ handler'[h].req = q
         /\ handler'[h].payload = None /\ handler'[h].snap = handler[h].snap
         /\ \A g \in Handlers \ {h} : handler'[g] = handler[g]
    BY <1>1, <2>4, <2>6, GoingOn DEF StagesInv, Steps
  <2>12. Typed'
    BY <2>8, <2>10, <2>11 DEF StagesInv, Typed
  <2>13. q # None /\ q \notin counted
    BY <1>2, <2>4, ConstantsAssumption DEF StagesInv, AccountsSound, EndedBadly
  <2>14. StageSound'
    <3>1. \A o \in Ops : run'.state = Running[o] => run'.active \in StartedOf(o)'
      <4>1. ledger[q].started
        BY <1>2, <2>4 DEF StagesInv, LedgerSound
      <4>2. \A o \in Ops : Running[op] = Running[o] => o = op
        BY <1>2, StageStates
      <4>. QED
        BY <1>2, <2>4, <2>8, <2>10, <4>1, <4>2 DEF StartedOf
    <3>2. \E o \in Ops : run'.state = Running[o]
      BY <1>2, <2>8
    <3>3. \/ op = "portia" /\ run.state = "portia_pending" /\ run'.state = "portia_running"
          \/ op = "charlotte" /\ run.state = "charlotte_pending" /\ run'.state = "charlotte_running"
      BY <1>2, <2>1, <2>8, StageStates
    <3>4. /\ run'.state \in Unreviewed \cup {"portia_complete"} \cup Judged
          /\ (review' = None) <=> run'.state \in Unreviewed
          /\ (gate' = None) <=> run'.state \notin Judged
          /\ (quality' = None) <=> run'.state # "charlotte_complete"
      BY <2>10, <3>3 DEF StagesInv, StageSound, Unreviewed, Judged
    <3>5. /\ run'.state \in Approved => Passes(ledger'[gate'].verdict)
          /\ run'.state \in Approved \ {"gate_passed"} => answered'
      BY <2>10, <3>3 DEF StagesInv, StageSound, Approved
    <3>. QED
      BY <2>8, <2>13, <3>1, <3>2, <3>4, <3>5 DEF StageSound
  <2>15. AccountsSound'
    <3>1. \A o \in Ops : CountedOf(o)' = CountedOf(o)
      BY <2>10 DEF CountedOf
    <3>2. \A o \in Ops : run.state # Unavailable[o] /\ run'.state # Unavailable[o]
      BY <1>2, <2>2, <2>8, StageStates
    <3>3. \A r \in called : r # None
      BY ConstantsAssumption DEF StagesInv, Typed
    <3>. QED
      BY <2>2, <2>8, <2>10, <2>13, <3>1, <3>2, <3>3 DEF StagesInv, AccountsSound, Attempted
  <2>16. ResultsSound'
    <3>1. ResultsAreWinners'
      BY <2>10 DEF StagesInv, ResultsSound, ResultsAreWinners, Succeeded, Is
    <3>2. PaidResultsKept'
      <4>1. \A o \in Ops : Succeeded(o)' = Succeeded(o)
        BY <2>10 DEF Succeeded, Is
      <4>2. \A o \in Ops : \A r \in Succeeded(o) : r # None
        BY ConstantsAssumption DEF Succeeded
      <4>. QED
        BY <2>2, <2>10, <4>1, <4>2, StageStates DEF StagesInv, ResultsSound, PaidResultsKept
    <3>. QED
      BY <2>4, <2>8, <2>10, <3>1, <3>2 DEF ResultsSound
  <2>17. RunFollows
    <3>1. \A r \in Requests : Attempted(r) => Attempted(r)'
      BY <2>2, <2>10, ConstantsAssumption DEF Attempted
    <3>. QED
      BY <2>8, <2>9, <2>10, <3>1 DEF RunFollows
  <2>18. \A g \in Handlers \ {h} : FenceKept(g)
    BY <2>5, <2>8 DEF FenceKept, StagesInv, OneWorker
  <2>19. LedgerSound' /\ LedgerGrows
    BY <2>10, LedgerStays DEF StagesInv
  <2>20. Sound(h)'
    <3>1. SnapSound(h)'
      BY <1>2, <2>1, <2>8, <2>9, <2>11 DEF SnapSound
    <3>2. PayloadSound(h)' /\ StepSound(h)'
      BY <1>2, <2>11 DEF PayloadSound, StepSound, Step
    <3>3. run.drafts = handler[h].snap.drafts
      BY <1>2, <2>1, <2>2 DEF SnapSound
    <3>4. WorkSound(h)'
      BY <2>4, <2>8, <2>10, <2>11, <3>3 DEF WorkSound, Step, Attempted
    <3>. QED
      BY <3>1, <3>2, <3>4 DEF Sound
  <2>21. HandlersSound' /\ OneWorker'
    <3>1. WorksAlone(h)
      BY <2>5, <2>11 DEF WorksAlone
    <3>. QED
      BY <2>11, <2>17, <2>18, <2>19, <2>20, <3>1, OneHandler DEF StagesInv
  <2>. QED
    BY <2>12, <2>14, <2>15, <2>16, <2>19, <2>21 DEF StagesInv
<1>. QED
  BY <1>3, <1>4

(* Another assessment is persisted, by the one handler that works on the   *)
(* attempt.                                                                *)
LEMMA AssessStep ==
  ASSUME StagesInv, NEW h \in Handlers, Assess(h)
  PROVE  StagesInv'
<1>. DEFINE q == handler[h].req
            work == Append(handler[h].work, q)
            task == [handler[h] EXCEPT !.work = work]
<1>1. Step(h) = "call" /\ Step(h) # "idle" /\ Len(handler[h].work) < Survivors
  BY DEF Assess
<1>2. /\ handler[h] \in Task /\ handler[h].work \in Drafts /\ q \in Requests
      /\ SnapSound(h) /\ WorkSound(h) /\ handler[h].payload = None
  BY <1>1, InFlight DEF StagesInv, HandlersSound, Sound, StepSound, PayloadSound
<1>3. work \in Drafts
  BY <1>1, <1>2, DraftsAreSequences
<1>4. CASE ~(ledger[q].status = "in_progress" /\ MayProgress(h, work))
  BY <1>4, EndStep DEF Assess, StagesInv, Typed
<1>5. CASE ledger[q].status = "in_progress" /\ MayProgress(h, work)
  <2>1. /\ run' = [run EXCEPT !.drafts = work] /\ handler' = [handler EXCEPT ![h] = task]
        /\ UNCHANGED <<artifacts, ledger, crashes, called, counted>>
    BY <1>5 DEF Assess
  <2>2. /\ run.revision = handler[h].snap.revision /\ run.state = "portia_running"
        /\ run.active = q /\ ledger[q].status = "in_progress"
    BY <1>5 DEF MayProgress
  <2>. HIDE DEF work
  <2>3. /\ task \in Task /\ task.step = "call" /\ task.op = handler[h].op /\ task.req = q
        /\ task.payload = None /\ task.snap = handler[h].snap /\ task.work = work
    BY <1>1, <1>2, <1>3 DEF Task, Step
  <2>. HIDE DEF task
  <2>4. /\ handler' \in [Handlers -> {Idle} \cup Task] /\ handler'[h] = task
        /\ \A g \in Handlers \ {h} : handler'[g] = handler[g]
    BY <2>1, <2>3 DEF StagesInv, Typed
  <2>5. /\ run' \in Row /\ run'.state = run.state /\ run'.revision = run.revision
        /\ run'.active = run.active /\ run'.failed = run.failed /\ run'.drafts = work
        /\ run.revision \in Nat
    BY <1>3, <2>1 DEF StagesInv, Typed, Row
  <2>6. /\ review' = review /\ gate' = gate /\ quality' = quality /\ answered' = answered
        /\ ledger' = ledger /\ crashes' = crashes /\ called' = called /\ counted' = counted
    BY <2>1 DEF artifacts
  <2>7. Typed'
    BY <2>4, <2>5, <2>6 DEF StagesInv, Typed
  <2>8. StageSound'
    <3>1. \A op \in Ops : StartedOf(op)' = StartedOf(op)
      BY <2>6 DEF StartedOf
    <3>. QED
      BY <2>5, <2>6, <3>1 DEF StagesInv, StageSound
  <2>9. AccountsSound'
    <3>1. \A op \in Ops : CountedOf(op)' = CountedOf(op)
      BY <2>6 DEF CountedOf
    <3>. QED
      BY <2>5, <2>6, <3>1 DEF StagesInv, AccountsSound, Attempted
  <2>10. ResultsSound'
    BY <2>2, <2>5, <2>6
       DEF StagesInv, ResultsSound, ResultsAreWinners, PaidResultsKept, Succeeded, Is
  <2>11. RunFollows
    BY <2>2, <2>5, <2>6 DEF RunFollows, Attempted
  <2>12. Works(h)
    BY <1>1, <1>2 DEF Works
  <2>13. \A g \in Handlers \ {h} : FenceKept(g)
    BY <2>2, <2>5, <2>12 DEF FenceKept, StagesInv, OneWorker
  <2>14. LedgerSound' /\ LedgerGrows
    BY <2>6, LedgerStays DEF StagesInv
  <2>15. Sound(h)'
    <3>1. SnapSound(h)'
      BY <1>2, <2>2, <2>3, <2>4, <2>5 DEF SnapSound
    <3>2. PayloadSound(h)' /\ StepSound(h)'
      BY <1>2, <2>3, <2>4 DEF PayloadSound, StepSound, Step
    <3>3. WorkSound(h)'
      BY <1>1, <1>2, <2>3, <2>4, <2>5, <2>6, <2>12 DEF WorkSound, Step, Attempted
    <3>. QED
      BY <3>1, <3>2, <3>3 DEF Sound
  <2>16. HandlersSound' /\ OneWorker'
    <3>1. WorksAlone(h)
      BY <2>3, <2>4, <2>12 DEF WorksAlone
    <3>. QED
      BY <2>4, <2>11, <2>13, <2>14, <2>15, <3>1, OneHandler DEF StagesInv
  <2>. QED
    BY <2>7, <2>8, <2>9, <2>10, <2>14, <2>16 DEF StagesInv
<1>. QED
  BY <1>4, <1>5

(* A handler goes on to commit what it found, and works on nothing there.  *)
LEMMA BringStep ==
  ASSUME StagesInv, NEW h \in Handlers, Step(h) = "reconcile", NEW r \in Requests,
         NEW task \in Task, task.req = r, task.snap = handler[h].snap, task.op = handler[h].op,
         \/ task.step = "fail"
         \/ task.step = "store" /\ task.payload = r /\ r \in Succeeded(task.op),
         handler' = [handler EXCEPT ![h] = task],
         UNCHANGED <<run, artifacts, ledger, crashes, called, counted>>
  PROVE  StagesInv'
<1>1. SnapSound(h)
  BY DEF StagesInv, HandlersSound, Sound
<1>2. /\ handler' \in [Handlers -> {Idle} \cup Task] /\ handler'[h] = task
      /\ \A g \in Handlers \ {h} : handler'[g] = handler[g]
  BY DEF StagesInv, Typed
<1>3. ~Works(h)'
  BY <1>2, ConstantsAssumption DEF Works, Step
<1>4. SnapSound(h)'
  BY <1>1, <1>2 DEF SnapSound
<1>5. PayloadSound(h)' /\ StepSound(h)'
  BY <1>2, ConstantsAssumption DEF PayloadSound, StepSound, Step, Succeeded, Is
<1>6. Sound(h)'
  BY <1>3, <1>4, <1>5 DEF Sound, WorkSound
<1>. QED
  BY <1>2, <1>3, <1>6, HandlerOnly

(* reconcileRunningLifecycleModel.                                         *)
LEMMA ReconcileStep ==
  ASSUME StagesInv, NEW h \in Handlers, Reconcile(h)
  PROVE  StagesInv'
<1>. DEFINE r == handler[h].snap.active
<1>1. /\ Step(h) = "reconcile" /\ Step(h) # "idle"
      /\ UNCHANGED <<run, artifacts, ledger, crashes, called, counted>>
  BY DEF Reconcile
<1>2. /\ handler[h] \in Task /\ handler[h].op \in Ops /\ r \in Requests
      /\ ledger[r].op = handler[h].op
  BY <1>1, InFlight DEF StagesInv, HandlersSound, Sound, StepSound, StartedOf
<1>3. CASE Finish(h)
  BY <1>1, <1>3, EndStep DEF StagesInv, Typed
<1>4. CASE /\ ledger[r].status = "succeeded"
           /\ handler' = [handler EXCEPT ![h].step = "store", ![h].req = r, ![h].payload = r]
  <2>. DEFINE task == [handler[h] EXCEPT !.step = "store", !.req = r, !.payload = r]
  <2>1. /\ task \in Task /\ task.req = r /\ task.snap = handler[h].snap
        /\ task.op = handler[h].op /\ task.step = "store" /\ task.payload = r
    BY <1>2 DEF Task, Steps
  <2>2. r \in Succeeded(handler[h].op) /\ handler' = [handler EXCEPT ![h] = task]
    BY <1>2, <1>4 DEF Succeeded, Is
  <2>. HIDE DEF task
  <2>. QED
    BY <1>1, <1>2, <2>1, <2>2, BringStep
<1>5. CASE handler' = [handler EXCEPT ![h].step = "fail", ![h].req = r]
  <2>. DEFINE task == [handler[h] EXCEPT !.step = "fail", !.req = r]
  <2>1. /\ task \in Task /\ task.req = r /\ task.snap = handler[h].snap
        /\ task.op = handler[h].op /\ task.step = "fail"
    BY <1>2 DEF Task, Steps
  <2>2. handler' = [handler EXCEPT ![h] = task]
    BY <1>5
  <2>. HIDE DEF task
  <2>. QED
    BY <1>1, <1>2, <2>1, <2>2, BringStep
<1>. QED
  BY <1>3, <1>4, <1>5 DEF Reconcile

(* A failure is counted: its request fenced the run, so it was not counted *)
(* before.                                                                 *)
LEMMA FailStep ==
  ASSUME StagesInv, NEW h \in Handlers, Fail(h)
  PROVE  StagesInv'
<1>1. Step(h) = "fail" /\ Step(h) # "idle" /\ Finish(h)
  BY DEF Fail
<1>2. handler[h].op \in Ops /\ handler[h].req \in Requests
  BY <1>1, InFlight DEF StagesInv, HandlersSound, Sound, StepSound
<1>3. CASE ~MayFail(h)
  BY <1>1, <1>3, EndStep DEF Fail, StagesInv, Typed
<1>4. CASE MayFail(h)
  <2>a. PICK op \in Ops : op = handler[h].op
    BY <1>2
  <2>b. PICK q \in Requests : q = handler[h].req
    BY <1>2
  <2>c. PICK to : to = AfterFailure(op)
    OBVIOUS
  <2>1. /\ run.state = Running[op] /\ run.active = q /\ run.failed[op] < FailureLimit
        /\ ledger[q].op = op /\ ledger[q].status \in EndedBadly
    BY <1>4, <2>a, <2>b DEF MayFail, Is
  <2>2. /\ run' = [Unfenced(Advance(to)) EXCEPT !.failed[op] = @ + 1]
        /\ counted' = counted \cup {q}
        /\ UNCHANGED <<artifacts, ledger, crashes, called>>
    BY <1>4, <2>a, <2>b, <2>c DEF Fail
  <2>3. /\ FailureLimit \in Nat /\ run.failed \in [Ops -> 0..FailureLimit]
        /\ run.revision \in Nat
    BY ConstantsAssumption DEF StagesInv, Typed, Row
  <2>4. \/ to = Unavailable[op] /\ run.failed[op] + 1 = FailureLimit
        \/ to = Pending[op] /\ run.failed[op] + 1 # FailureLimit
    BY <2>1, <2>3, <2>c DEF AfterFailure
  <2>5. \/ /\ op = "portia" /\ run.state = "portia_running"
           /\ to \in {"portia_unavailable", "portia_pending"}
        \/ /\ op = "charlotte" /\ run.state = "charlotte_running"
           /\ to \in {"charlotte_unavailable", "charlotte_pending"}
    BY <2>1, <2>4, StageStates
  <2>6. to \in LifecycleStates
    BY <2>5, StageStates DEF Unreviewed, Judged
  <2>7. /\ run' \in Row /\ run'.state = to /\ run'.revision = run.revision + 1
        /\ run'.active = None /\ run'.drafts = run.drafts
        /\ run'.failed = [run.failed EXCEPT ![op] = run.failed[op] + 1]
    <3>. DEFINE row == Advance(to)
    <3>1. /\ row \in Row /\ row.state = to /\ row.revision = run.revision + 1
          /\ row.failed = run.failed /\ row.drafts = run.drafts
      BY <2>6, AdvancedRow DEF StagesInv, Typed
    <3>. DEFINE open == [row EXCEPT !.active = None]
    <3>2. run' = [open EXCEPT !.failed[op] = @ + 1]
      BY <2>2 DEF Unfenced
    <3>. HIDE DEF row
    <3>3. /\ open \in Row /\ open.state = to /\ open.revision = run.revision + 1
          /\ open.failed = run.failed /\ open.drafts = run.drafts /\ open.active = None
      BY <3>1 DEF Row
    <3>. HIDE DEF open
    <3>4. run' = [open EXCEPT !.failed = [run.failed EXCEPT ![op] = run.failed[op] + 1]]
      BY <3>2, <3>3 DEF Row
    <3>5. [run.failed EXCEPT ![op] = run.failed[op] + 1] \in [Ops -> 0..FailureLimit]
      BY <2>1, <2>3
    <3>. QED
      BY <3>3, <3>4, <3>5 DEF Row
  <2>8. /\ review' = review /\ gate' = gate /\ quality' = quality /\ answered' = answered
        /\ ledger' = ledger /\ crashes' = crashes /\ called' = called
    BY <2>2 DEF artifacts
  <2>9. /\ handler' \in [Handlers -> {Idle} \cup Task]
        /\ \A g \in Handlers \ {h} : handler'[g] = handler[g]
        /\ Sound(h)' /\ WorksAlone(h)
    BY <1>1, Finishing DEF StagesInv, WorksAlone
  <2>10. Typed'
    BY <2>2, <2>7, <2>8, <2>9 DEF StagesInv, Typed
  <2>11. StageSound'
    <3>1. \A o \in Ops : run'.state # Running[o]
      BY <2>5, <2>7, StageStates
    <3>2. /\ run'.state \in Unreviewed \cup {"portia_complete"} \cup Judged
          /\ (review' = None) <=> run'.state \in Unreviewed
          /\ (gate' = None) <=> run'.state \notin Judged
          /\ (quality' = None) <=> run'.state # "charlotte_complete"
      BY <2>5, <2>7, <2>8 DEF StagesInv, StageSound, Unreviewed, Judged
    <3>3. /\ run'.state \in Approved => Passes(ledger'[gate'].verdict)
          /\ run'.state \in Approved \ {"gate_passed"} => answered'
      BY <2>5, <2>7, <2>8 DEF StagesInv, StageSound, Approved
    <3>. QED
      BY <2>7, <3>1, <3>2, <3>3 DEF StageSound
  <2>12. AccountsSound'
    <3>1. q \notin counted /\ None \notin counted'
      BY <2>1, <2>2, ConstantsAssumption DEF StagesInv, AccountsSound, Typed
    <3>2. \A o \in Ops : run'.failed[o] = Cardinality(CountedOf(o)')
      <4>1. CountedOf(op)' = CountedOf(op) \cup {q} /\ q \notin CountedOf(op)
        BY <2>1, <2>2, <2>8, <3>1 DEF CountedOf
      <4>2. IsFiniteSet(CountedOf(op))
        <5>1. CountedOf(op) \subseteq Requests
          BY DEF CountedOf, StagesInv, Typed
        <5>. QED
          BY <5>1, FS_Subset, ConstantsAssumption
      <4>3. run.failed[op] = Cardinality(CountedOf(op))
        BY DEF StagesInv, AccountsSound
      <4>4. Cardinality(CountedOf(op) \cup {q}) = run.failed[op] + 1
        BY <4>1, <4>2, <4>3, FS_AddElement
      <4>5. ASSUME NEW o \in Ops, o # op
            PROVE  run'.failed[o] = Cardinality(CountedOf(o)')
        <5>1. CountedOf(o)' = CountedOf(o)
          BY <2>1, <2>2, <2>8, <4>5 DEF CountedOf
        <5>2. run'.failed[o] = run.failed[o]
          BY <2>3, <2>7, <4>5
        <5>. QED
          BY <5>1, <5>2 DEF StagesInv, AccountsSound
      <4>6. run'.failed[op] = Cardinality(CountedOf(op)')
        BY <2>3, <2>7, <4>1, <4>4
      <4>. QED
        BY <4>5, <4>6
    <3>3. \A o \in Ops : run'.failed[o] = FailureLimit <=> run'.state = Unavailable[o]
      <4>1. run'.failed[op] = FailureLimit <=> run'.state = Unavailable[op]
        BY <2>3, <2>4, <2>7, StageStates
      <4>2. ASSUME NEW o \in Ops, o # op
            PROVE  run'.failed[o] # FailureLimit /\ run'.state # Unavailable[o]
        <5>1. run'.failed[o] = run.failed[o]
          BY <2>3, <2>7, <4>2
        <5>2. run.state # Unavailable[o] /\ run'.state # Unavailable[o]
          BY <2>5, <2>7, <4>2, StageStates
        <5>. QED
          BY <5>1, <5>2 DEF StagesInv, AccountsSound
      <4>. QED
        BY <4>1, <4>2
    <3>4. \A r \in called' : ledger'[r].status # "absent" /\ Attempted(r)'
      BY <2>1, <2>2, <2>7, <2>8 DEF StagesInv, AccountsSound, Attempted
    <3>5. \A r \in counted' : ledger'[r].status \in EndedBadly
      BY <2>1, <2>2, <2>8 DEF StagesInv, AccountsSound
    <3>. QED
      BY <2>7, <3>1, <3>2, <3>3, <3>4, <3>5 DEF AccountsSound
  <2>13. ResultsSound'
    <3>1. ResultsAreWinners'
      BY <2>8 DEF StagesInv, ResultsSound, ResultsAreWinners, Succeeded, Is
    <3>2. PaidResultsKept'
      <4>1. \A o \in Ops : Succeeded(o)' = Succeeded(o)
        BY <2>8 DEF Succeeded, Is
      <4>2. \A o \in Ops : q \notin Succeeded(o)
        BY <2>1 DEF Succeeded, Is, EndedBadly
      <4>. QED
        BY <2>1, <2>8, <4>1, <4>2, StageStates DEF StagesInv, ResultsSound, PaidResultsKept
    <3>. QED
      BY <2>7, <3>1, <3>2, ConstantsAssumption DEF ResultsSound
  <2>14. RunFollows
    <3>1. \A r \in Requests : Attempted(r) => Attempted(r)'
      BY <2>1, <2>2, <2>8 DEF Attempted
    <3>. QED
      BY <2>3, <2>7, <2>8, <3>1 DEF RunFollows
  <2>15. \A g \in Handlers : FenceKept(g)
    <3>1. \A g \in Handlers : Works(g) => handler[g].req \in Requests
      BY DEF StagesInv, HandlersSound, Sound, StepSound, Works
    <3>. QED
      BY <2>7, <3>1, ConstantsAssumption DEF FenceKept
  <2>16. LedgerSound' /\ LedgerGrows
    BY <2>8, LedgerStays DEF StagesInv
  <2>17. HandlersSound' /\ OneWorker'
    BY <2>9, <2>14, <2>15, <2>16, OneHandler DEF StagesInv
  <2>. QED
    BY <2>10, <2>11, <2>12, <2>13, <2>16, <2>17 DEF StagesInv
<1>. QED
  BY <1>3, <1>4

(* A result is stored under the fence of its own attempt.                  *)
LEMMA StoreStep ==
  ASSUME StagesInv, NEW h \in Handlers, NEW op \in Ops, NEW q \in Requests, NEW drafts \in Drafts,
         run.state = Running[op], run.active = q, q \in Succeeded(op), drafts = run.drafts,
         run' = [Unfenced(Advance(Complete[op])) EXCEPT !.drafts = drafts],
         \/ op = "portia" /\ review' = q /\ quality' = quality
         \/ op = "charlotte" /\ quality' = q /\ review' = review,
         UNCHANGED <<gate, answered, ledger, crashes, called, counted>>,
         handler' \in [Handlers -> {Idle} \cup Task],
         \A g \in Handlers \ {h} : handler'[g] = handler[g],
         Sound(h)', WorksAlone(h)
  PROVE  StagesInv'
<1>. DEFINE to == Complete[op]
<1>1. \/ /\ op = "portia" /\ run.state = "portia_running" /\ to = "portia_complete"
         /\ review = None /\ review' = q /\ quality' = quality /\ quality = None /\ gate = None
      \/ /\ op = "charlotte" /\ run.state = "charlotte_running" /\ to = "charlotte_complete"
         /\ quality = None /\ quality' = q /\ review' = review
  BY StageStates DEF Complete, StagesInv, StageSound, Unreviewed, Judged
<1>2. to \in LifecycleStates
  BY <1>1, StageStates DEF Judged
<1>. HIDE DEF to
<1>3. /\ run' \in Row /\ run'.state = to /\ run'.revision = run.revision + 1
      /\ run'.active = None /\ run'.drafts = run.drafts /\ run'.failed = run.failed
  <2>. DEFINE row == Advance(to)
  <2>1. /\ row \in Row /\ row.state = to /\ row.revision = run.revision + 1
        /\ row.failed = run.failed /\ row.drafts = run.drafts
    BY <1>2, AdvancedRow DEF StagesInv, Typed
  <2>2. run' = [[row EXCEPT !.active = None] EXCEPT !.drafts = drafts]
    BY DEF Unfenced, to
  <2>. HIDE DEF row
  <2>. QED
    BY <2>1, <2>2 DEF Row
<1>4. run.revision \in Nat /\ q # None
  BY ConstantsAssumption DEF StagesInv, Typed, Row
<1>5. /\ gate' = gate /\ answered' = answered /\ ledger' = ledger /\ crashes' = crashes
      /\ called' = called /\ counted' = counted
  OBVIOUS
<1>6. Typed'
  BY <1>1, <1>3, <1>5 DEF StagesInv, Typed
<1>7. StageSound'
  <2>1. \A o \in Ops : run'.state # Running[o]
    BY <1>1, <1>3, StageStates
  <2>2. /\ run'.state \in Unreviewed \cup {"portia_complete"} \cup Judged
        /\ (review' = None) <=> run'.state \in Unreviewed
        /\ (gate' = None) <=> run'.state \notin Judged
        /\ (quality' = None) <=> run'.state # "charlotte_complete"
    BY <1>1, <1>3, <1>4, <1>5 DEF StagesInv, StageSound, Unreviewed, Judged
  <2>3. /\ run'.state \in Approved => Passes(ledger'[gate'].verdict)
        /\ run'.state \in Approved \ {"gate_passed"} => answered'
    BY <1>1, <1>3, <1>5 DEF StagesInv, StageSound, Approved
  <2>. QED
    BY <1>3, <2>1, <2>2, <2>3 DEF StageSound
<1>8. AccountsSound'
  <2>1. \A o \in Ops : CountedOf(o)' = CountedOf(o)
    BY <1>5 DEF CountedOf
  <2>2. \A o \in Ops : run.state # Unavailable[o] /\ run'.state # Unavailable[o]
    BY <1>1, <1>3, StageStates
  <2>3. None \notin counted /\ \A r \in called : r # None
    BY ConstantsAssumption DEF StagesInv, Typed
  <2>4. \A r \in called : Attempted(r)'
    BY <1>1, <1>5, <2>3 DEF StagesInv, AccountsSound, Attempted
  <2>. QED
    BY <1>3, <1>5, <2>1, <2>2, <2>3, <2>4 DEF StagesInv, AccountsSound
<1>9. ResultsSound'
  <2>1. \A o \in Ops : Succeeded(o)' = Succeeded(o)
    BY <1>5 DEF Succeeded, Is
  <2>2. ResultsAreWinners'
    BY <1>1, <1>5, <2>1, StageStates DEF StagesInv, ResultsSound, ResultsAreWinners
  <2>3. \A o \in Ops : \A r \in Succeeded(o) : r # None /\ (r = q => o = op)
    BY ConstantsAssumption DEF Succeeded, Is
  <2>4. PaidResultsKept'
    BY <1>1, <2>1, <2>3, StageStates DEF StagesInv, ResultsSound, PaidResultsKept
  <2>. QED
    BY <1>3, <2>2, <2>4, ConstantsAssumption DEF ResultsSound
<1>10. RunFollows
  <2>1. \A r \in Requests : Attempted(r) => Attempted(r)'
    BY <1>1, <1>5, ConstantsAssumption DEF Attempted
  <2>. QED
    BY <1>1, <1>3, <1>4, <1>5, <2>1 DEF RunFollows
<1>11. \A g \in Handlers : FenceKept(g)
  <2>1. \A g \in Handlers : Works(g) => handler[g].req \in Requests
    BY DEF StagesInv, HandlersSound, Sound, StepSound, Works
  <2>. QED
    BY <1>3, <2>1, ConstantsAssumption DEF FenceKept
<1>12. LedgerSound' /\ LedgerGrows
  BY <1>5, LedgerStays DEF StagesInv
<1>13. HandlersSound' /\ OneWorker'
  BY <1>10, <1>11, <1>12, OneHandler DEF StagesInv
<1>. QED
  BY <1>6, <1>7, <1>8, <1>9, <1>12, <1>13 DEF StagesInv

(* A commit that is refused changes nothing.                               *)
LEMMA ConflictStep ==
  ASSUME StagesInv, NEW h \in Handlers, Step(h) = "store", StoreConflict(h),
         UNCHANGED <<ledger, crashes, called, counted>>
  PROVE  StagesInv'
<1>1. UNCHANGED <<run, artifacts, ledger, crashes, called, counted>>
  BY DEF StoreConflict
<1>2. Finish(h)
  BY DEF StoreConflict
<1>. QED
  BY <1>1, <1>2, EndStep DEF StagesInv, Typed

(* What a handler that may store holds: the result of its own request.     *)
LEMMA OwnResult ==
  ASSUME StagesInv, NEW h \in Handlers, Step(h) = "store", MayStore(h)
  PROVE  /\ handler[h].req \in Requests /\ handler[h].payload = handler[h].req
         /\ run.state = Running[handler[h].op] /\ run.active = handler[h].req
         /\ handler[h].req \in Succeeded(handler[h].op)
         /\ run.drafts = ledger[handler[h].req].work
<1>1. StepSound(h) /\ PayloadSound(h)
  BY DEF StagesInv, HandlersSound, Sound
<1>2. handler[h].req \in Requests
  BY <1>1 DEF StepSound
<1>. QED
  BY <1>1, <1>2
     DEF MayStore, PayloadSound, Succeeded, Is, StagesInv, ResultsSound

LEMMA StorePortiaStep ==
  ASSUME StagesInv, NEW h \in Handlers, StorePortia(h)
  PROVE  StagesInv'
<1>1. Step(h) = "store" /\ Step(h) # "idle" /\ handler[h].op = "portia"
      /\ UNCHANGED <<ledger, crashes, called, counted>>
  BY DEF StorePortia
<1>2. /\ SnapSound(h) /\ StepSound(h) /\ handler[h].payload \in Succeeded("portia")
      /\ handler[h].payload # None
  BY <1>1 DEF StagesInv, HandlersSound, Sound, PayloadSound
<1>3. CASE ~(run.state = "portia_complete" \/ MayStore(h))
  BY <1>1, <1>3, ConflictStep DEF StorePortia
<1>4. CASE run.state = "portia_complete" \/ MayStore(h)
  <2>1. Goto(h, "reread") /\ UNCHANGED <<gate, answered, quality>>
    BY <1>4 DEF StorePortia
  <2>2. /\ handler' \in [Handlers -> {Idle} \cup Task]
        /\ handler'[h].step = "reread" /\ handler'[h].payload = handler[h].payload
        /\ handler'[h].req = handler[h].req /\ handler'[h].snap = handler[h].snap
        /\ \A g \in Handlers \ {h} : handler'[g] = handler[g]
    BY <1>1, <2>1, GoingOn DEF StagesInv, Steps
  <2>3. ~Works(h)' /\ StepSound(h)'
    BY <2>2 DEF Works, Step, StepSound
  <2>4. review' = handler[h].payload => PayloadSound(h)'
    BY <1>2, <2>2 DEF PayloadSound, Step
  <2>5. CASE run.state = "portia_complete"
    <3>1. UNCHANGED <<run, artifacts>>
      BY <2>1, <2>5 DEF StorePortia, artifacts
    <3>2. handler[h].payload = review /\ review' = review
      BY <1>2, <2>5, <3>1, PaidIsStored, StageStates DEF artifacts
    <3>3. SnapSound(h)'
      BY <1>2, <2>2, <3>1 DEF SnapSound
    <3>4. Sound(h)'
      BY <2>3, <2>4, <3>2, <3>3 DEF Sound, WorkSound
    <3>. QED
      BY <1>1, <2>2, <2>3, <3>1, <3>4, HandlerOnly
  <2>6. CASE run.state # "portia_complete"
    <3>. DEFINE q == handler[h].req
    <3>1. /\ q \in Requests /\ handler[h].payload = q /\ run.state = Running["portia"]
          /\ run.active = q /\ q \in Succeeded("portia") /\ run.drafts = ledger[q].work
      BY <1>1, <1>4, <2>6, OwnResult
    <3>2. /\ run' = [Unfenced(Advance(Complete["portia"])) EXCEPT !.drafts = run.drafts]
          /\ review' = q /\ quality' = quality
      BY <1>4, <2>1, <2>6, <3>1 DEF StorePortia, Complete
    <3>3. run.revision \in Nat /\ run.drafts \in Drafts
      BY DEF StagesInv, Typed, Row
    <3>4. run'.revision = run.revision + 1
      <4>1. "portia_complete" \in LifecycleStates
        BY StageStates
      <4>2. Advance("portia_complete") \in Row
            /\ Advance("portia_complete").revision = run.revision + 1
        BY <4>1, AdvancedRow DEF StagesInv, Typed
      <4>. QED
        BY <3>2, <4>2 DEF Unfenced, Complete, Row
    <3>5. SnapSound(h)'
      <4>1. handler[h].snap \in Row
        BY <1>1, InFlight DEF StagesInv
      <4>. QED
        BY <1>2, <2>2, <3>3, <3>4, <4>1 DEF SnapSound, Row
    <3>6. Sound(h)' /\ WorksAlone(h)
      BY <2>3, <2>4, <3>1, <3>2, <3>5 DEF Sound, WorkSound, WorksAlone
    <3>. HIDE DEF q
    <3>7. UNCHANGED <<gate, answered, ledger, crashes, called, counted>>
      BY <1>1, <2>1
    <3>. QED
      BY <2>2, <3>1, <3>2, <3>3, <3>6, <3>7, StoreStep, StageStates
  <2>. QED
    BY <2>5, <2>6
<1>. QED
  BY <1>3, <1>4

LEMMA StoreCharlotteStep ==
  ASSUME StagesInv, NEW h \in Handlers, StoreCharlotte(h)
  PROVE  StagesInv'
<1>1. Step(h) = "store" /\ Step(h) # "idle" /\ handler[h].op = "charlotte"
      /\ UNCHANGED <<ledger, crashes, called, counted>>
  BY DEF StoreCharlotte
<1>2. CASE run.state = "charlotte_complete"
  BY <1>1, <1>2, EndStep DEF StoreCharlotte, StagesInv, Typed
<1>3. CASE run.state # "charlotte_complete" /\ ~MayStore(h)
  BY <1>1, <1>3, ConflictStep DEF StoreCharlotte
<1>4. CASE run.state # "charlotte_complete" /\ MayStore(h)
  <2>. DEFINE q == handler[h].req
  <2>1. /\ q \in Requests /\ handler[h].payload = q /\ run.state = Running["charlotte"]
        /\ run.active = q /\ q \in Succeeded("charlotte")
    BY <1>1, <1>4, OwnResult
  <2>2. /\ run' = Unfenced(Advance(Complete["charlotte"])) /\ quality' = q /\ review' = review
        /\ Finish(h) /\ UNCHANGED <<gate, answered, ledger, crashes, called, counted>>
    BY <1>1, <1>4, <2>1 DEF StoreCharlotte, Complete
  <2>3. run' = [Unfenced(Advance(Complete["charlotte"])) EXCEPT !.drafts = run.drafts]
        /\ run.drafts \in Drafts
    <3>1. Complete["charlotte"] \in LifecycleStates
      BY StageStates DEF Complete, Judged
    <3>2. Advance(Complete["charlotte"]) \in Row
          /\ Advance(Complete["charlotte"]).drafts = run.drafts /\ run \in Row
      BY <3>1, AdvancedRow DEF StagesInv, Typed
    <3>. QED
      BY <2>2, <3>2 DEF Unfenced, Row
  <2>4. /\ handler' \in [Handlers -> {Idle} \cup Task]
        /\ \A g \in Handlers \ {h} : handler'[g] = handler[g]
        /\ Sound(h)' /\ WorksAlone(h)
    BY <2>2, Finishing DEF StagesInv, WorksAlone
  <2>. HIDE DEF q
  <2>. QED
    BY <2>1, <2>2, <2>3, <2>4, StoreStep, StageStates
<1>. QED
  BY <1>2, <1>3, <1>4

(* The Gate judges the review that is stored.                              *)
LEMMA JudgeStep ==
  ASSUME StagesInv, NEW h \in Handlers, Judge(h)
  PROVE  StagesInv'
<1>1. Step(h) = "judge" /\ Step(h) # "idle"
      /\ UNCHANGED <<review, answered, quality, ledger, crashes, called, counted>>
  BY DEF Judge
<1>2. SnapSound(h) /\ StepSound(h) /\ handler[h].payload = review /\ review # None
      /\ handler[h].snap \in Row
  BY <1>1, InFlight DEF StagesInv, HandlersSound, Sound, PayloadSound
<1>3. PICK to \in {"gate_passed", "gate_failed"} :
        to = IF Passes(ledger[review].verdict) THEN "gate_passed" ELSE "gate_failed"
  OBVIOUS
<1>4. ASSUME Goto(h, "reread"), review' = review
      PROVE  /\ handler' \in [Handlers -> {Idle} \cup Task]
             /\ \A g \in Handlers \ {h} : handler'[g] = handler[g]
             /\ handler'[h].snap = handler[h].snap
             /\ PayloadSound(h)' /\ StepSound(h)' /\ ~Works(h)'
  <2>1. /\ handler' \in [Handlers -> {Idle} \cup Task]
        /\ handler'[h].step = "reread" /\ handler'[h].payload = handler[h].payload
        /\ handler'[h].req = handler[h].req /\ handler'[h].snap = handler[h].snap
        /\ \A g \in Handlers \ {h} : handler'[g] = handler[g]
    BY <1>1, <1>4, GoingOn DEF StagesInv, Steps
  <2>. QED
    BY <1>2, <1>4, <2>1 DEF PayloadSound, StepSound, Works, Step
<1>5. CASE ~(run.state = "portia_complete" /\ run.revision = handler[h].snap.revision)
  <2>1. UNCHANGED <<run, artifacts, ledger, crashes, called, counted>>
        /\ (Goto(h, "reread") \/ Finish(h))
    BY <1>1, <1>5 DEF Judge, artifacts
  <2>2. CASE Finish(h)
    BY <2>1, <2>2, EndStep DEF StagesInv, Typed
  <2>3. CASE Goto(h, "reread")
    <3>1. review' = review
      BY <2>1 DEF artifacts
    <3>2. SnapSound(h)'
      BY <1>2, <1>4, <2>1, <2>3, <3>1 DEF SnapSound
    <3>3. Sound(h)'
      BY <1>4, <2>3, <3>1, <3>2 DEF Sound, WorkSound
    <3>. QED
      BY <1>4, <2>1, <2>3, <3>1, <3>3, HandlerOnly
  <2>. QED
    BY <2>1, <2>2, <2>3
<1>6. CASE run.state = "portia_complete" /\ run.revision = handler[h].snap.revision
  <2>1. run' = Advance(to) /\ gate' = review /\ Goto(h, "reread")
    BY <1>2, <1>3, <1>6 DEF Judge
  <2>2. to \in LifecycleStates /\ run.revision \in Nat
    BY StageStates DEF Judged, StagesInv, Typed, Row
  <2>3. /\ run' \in Row /\ run'.state = to /\ run'.revision = run.revision + 1
        /\ run'.active = run.active /\ run'.failed = run.failed /\ run'.drafts = run.drafts
    BY <2>1, <2>2, AdvancedRow DEF StagesInv, Typed
  <2>4. /\ review' = review /\ quality' = quality /\ answered' = answered
        /\ ledger' = ledger /\ crashes' = crashes /\ called' = called /\ counted' = counted
    BY <1>1
  <2>5. /\ handler' \in [Handlers -> {Idle} \cup Task]
        /\ \A g \in Handlers \ {h} : handler'[g] = handler[g]
        /\ handler'[h].snap = handler[h].snap
        /\ PayloadSound(h)' /\ StepSound(h)' /\ ~Works(h)'
    BY <1>4, <2>1, <2>4
  <2>6. Typed'
    BY <2>1, <2>3, <2>4, <2>5 DEF StagesInv, Typed
  <2>7. StageSound'
    <3>1. \A o \in Ops : run.state # Running[o] /\ run'.state # Running[o]
      BY <1>6, <2>3, StageStates
    <3>2. /\ run'.state \in Unreviewed \cup {"portia_complete"} \cup Judged
          /\ (review' = None) <=> run'.state \in Unreviewed
          /\ (gate' = None) <=> run'.state \notin Judged
          /\ (quality' = None) <=> run'.state # "charlotte_complete"
      BY <1>2, <1>6, <2>1, <2>3, <2>4 DEF StagesInv, StageSound, Unreviewed, Judged
    <3>3. /\ run'.state \in Approved => Passes(ledger'[gate'].verdict)
          /\ run'.state \in Approved \ {"gate_passed"} => answered'
      BY <1>3, <2>1, <2>3, <2>4 DEF Approved
    <3>. QED
      BY <2>3, <3>1, <3>2, <3>3 DEF StagesInv, StageSound
  <2>8. AccountsSound'
    <3>1. \A o \in Ops : CountedOf(o)' = CountedOf(o)
      BY <2>4 DEF CountedOf
    <3>2. \A o \in Ops : run.state # Unavailable[o] /\ run'.state # Unavailable[o]
      BY <1>6, <2>3, StageStates
    <3>. QED
      BY <2>3, <2>4, <3>1, <3>2 DEF StagesInv, AccountsSound, Attempted
  <2>9. ResultsSound'
    BY <2>1, <2>3, <2>4
       DEF StagesInv, ResultsSound, ResultsAreWinners, PaidResultsKept, Succeeded, Is
  <2>10. RunFollows /\ \A g \in Handlers : FenceKept(g)
    BY <2>2, <2>3, <2>4 DEF RunFollows, FenceKept, Attempted
  <2>11. LedgerSound' /\ LedgerGrows
    BY <2>4, LedgerStays DEF StagesInv
  <2>12. Sound(h)' /\ WorksAlone(h)
    <3>1. SnapSound(h)'
      BY <1>2, <2>2, <2>3, <2>5 DEF SnapSound, Row
    <3>. QED
      BY <2>5, <3>1 DEF Sound, WorkSound, WorksAlone
  <2>13. HandlersSound' /\ OneWorker'
    BY <2>5, <2>10, <2>11, <2>12, OneHandler DEF StagesInv
  <2>. QED
    BY <2>6, <2>7, <2>8, <2>9, <2>11, <2>13 DEF StagesInv
<1>. QED
  BY <1>5, <1>6

(* The row is read again, and the next step follows from it.               *)
LEMMA RereadStep ==
  ASSUME StagesInv, NEW h \in Handlers, Reread(h)
  PROVE  StagesInv'
<1>1. Step(h) = "reread" /\ Step(h) # "idle"
      /\ UNCHANGED <<run, artifacts, ledger, crashes, called, counted>>
  BY DEF Reread
<1>2. /\ handler[h] \in Task /\ handler[h].payload = review /\ review # None
      /\ run \in Row /\ run.revision \in Nat
  BY <1>1, InFlight DEF StagesInv, HandlersSound, Sound, PayloadSound, Typed, Row
<1>3. CASE Finish(h)
  BY <1>1, <1>3, EndStep DEF StagesInv, Typed
<1>4. ASSUME NEW step \in {"judge", "conclude"}, step = "conclude" => run.state = "gate_failed",
             handler' = [handler EXCEPT ![h] = [handler[h] EXCEPT !.snap = run, !.step = step]]
      PROVE  StagesInv'
  <2>. DEFINE task == [handler[h] EXCEPT !.snap = run, !.step = step]
  <2>1. /\ task \in Task /\ task.step = step /\ task.snap = run /\ task.payload = review
    BY <1>2 DEF Task, Steps
  <2>. HIDE DEF task
  <2>2. /\ handler' \in [Handlers -> {Idle} \cup Task] /\ handler'[h] = task
        /\ \A g \in Handlers \ {h} : handler'[g] = handler[g]
    BY <1>4, <2>1 DEF StagesInv, Typed, task
  <2>3. ~Works(h)'
    BY <2>1, <2>2 DEF Works, Step
  <2>4. run' = run /\ review' = review
    BY <1>1 DEF artifacts
  <2>5. SnapSound(h)'
    BY <1>2, <2>1, <2>2, <2>4 DEF SnapSound
  <2>6. PayloadSound(h)' /\ StepSound(h)'
    BY <1>2, <1>4, <2>1, <2>2, <2>4 DEF PayloadSound, StepSound, Step
  <2>7. Sound(h)'
    BY <2>3, <2>5, <2>6 DEF Sound, WorkSound
  <2>. QED
    BY <1>1, <2>2, <2>3, <2>7, HandlerOnly
<1>5. CASE run.state = "portia_complete"
  <2>1. handler' = [handler EXCEPT ![h] = [handler[h] EXCEPT !.snap = run, !.step = "judge"]]
    BY <1>5 DEF Reread
  <2>. QED
    BY <1>4, <2>1
<1>6. CASE run.state = "gate_failed" /\ Recommendation = "insufficient_basis"
  <2>1. handler' = [handler EXCEPT ![h] = [handler[h] EXCEPT !.snap = run, !.step = "conclude"]]
    BY <1>6 DEF Reread
  <2>. QED
    BY <1>4, <1>6, <2>1
<1>7. CASE /\ run.state # "portia_complete"
           /\ ~(run.state = "gate_failed" /\ Recommendation = "insufficient_basis")
  BY <1>3, <1>7 DEF Reread, Finish
<1>. QED
  BY <1>5, <1>6, <1>7

(* The board answer is attached.                                           *)
LEMMA AnswerBoardStep ==
  ASSUME StagesInv, AnswerBoard
  PROVE  StagesInv'
<1>1. /\ run' = run /\ review' = review /\ gate' = gate /\ quality' = quality
      /\ answered' = TRUE /\ called' = called /\ counted' = counted /\ crashes' = crashes
      /\ handler' = handler /\ ledger' = ledger
  BY DEF AnswerBoard
<1>2. Typed'
  BY <1>1 DEF StagesInv, Typed
<1>3. LedgerSound' /\ LedgerGrows /\ NoNewWin
  BY <1>1, LedgerStays DEF StagesInv, NoNewWin
<1>4. StageSound' /\ AccountsSound' /\ ResultsSound'
  BY <1>1, <1>2, <1>3, QuietStep DEF StagesInv, CallsAttempted
<1>5. RunFollows /\ \A g \in Handlers : FenceKept(g)
  BY <1>1, RunStays DEF StagesInv
<1>6. \A g \in Handlers : Sound(g)'
  BY <1>1, <1>3, <1>5, SoundKept DEF StagesInv, HandlersSound
<1>7. HandlersSound' /\ OneWorker'
  BY <1>1, <1>6 DEF StagesInv, HandlersSound, OneWorker, Works, Step
<1>. QED
  BY <1>2, <1>3, <1>4, <1>7 DEF StagesInv

-----------------------------------------------------------------------------
(* Every step.                                                             *)

(* A handler in flight takes a step.                                       *)
LEMMA AdvancesStep ==
  ASSUME StagesInv, NEW h \in Handlers, Advances(h)
  PROVE  StagesInv'
<1>1. CASE Prepare(h) \/ Authorize(h) \/ Conclude(h)
  BY <1>1, TransitionStep
<1>2. CASE Reserve(h)
  BY <1>2, ReserveStep
<1>3. CASE ReserveFindsResult(h)
  BY <1>3, FoundStep
<1>4. CASE ReserveFindsFailure(h)
  BY <1>4, ToFail DEF ReserveFindsFailure
<1>5. CASE ReserveRefused(h) \/ GenerationUnknown(h)
  <2>1. Conflict(h)
    BY <1>5 DEF ReserveRefused, GenerationUnknown
  <2>. QED
    BY <2>1, EndStep DEF Conflict, StagesInv, Typed
<1>6. CASE Begin(h)
  BY <1>6, BeginStep
<1>7. CASE Attempt(h)
  BY <1>7, AttemptStep
<1>8. CASE Load(h)
  BY <1>8, LoadStep
<1>9. CASE Assess(h)
  BY <1>9, AssessStep
<1>10. ASSUME NEW v \in Reviews, Generated(h, v)
       PROVE  StagesInv'
  <2>1. v \in Review \cup {None} /\ Step(h) = "call"
    BY <1>10, ConstantsAssumption DEF Generated
  <2>2. /\ handler' = [handler EXCEPT ![h] = [handler[h] EXCEPT !.step = "settle", !.verdict = v]]
        /\ UNCHANGED <<run, artifacts, ledger, crashes, called, counted>>
    BY <1>10 DEF Generated
  <2>. QED
    BY <2>1, <2>2, GeneratedStep
<1>11. CASE GenerationFailed(h)
  <2>1. Step(h) = "call" /\ UNCHANGED <<run, artifacts, ledger, crashes, called, counted>>
    BY <1>11 DEF GenerationFailed
  <2>2. handler[h] \in Task /\ handler[h].verdict \in Review \cup {None}
    BY <2>1, InFlight DEF StagesInv
  <2>3. handler' = [handler EXCEPT ![h] =
                      [handler[h] EXCEPT !.step = "refuse", !.verdict = handler[h].verdict]]
    BY <1>11, <2>2 DEF GenerationFailed, Goto, Task
  <2>. QED
    BY <2>1, <2>2, <2>3, GeneratedStep
<1>12. CASE SettleSuccess(h)
  BY <1>12, WinStep
<1>13. CASE SettleLate(h)
  BY <1>13, LateStep
<1>14. CASE SettleFailure(h)
  BY <1>14, FailureStep
<1>15. CASE Reconcile(h)
  BY <1>15, ReconcileStep
<1>16. CASE Fail(h)
  BY <1>16, FailStep
<1>17. CASE StorePortia(h) \/ StoreCharlotte(h)
  BY <1>17, StorePortiaStep, StoreCharlotteStep
<1>18. CASE Reread(h)
  BY <1>18, RereadStep
<1>19. CASE Judge(h)
  BY <1>19, JudgeStep
<1>. QED
  BY <1>1, <1>2, <1>3, <1>4, <1>5, <1>6, <1>7, <1>8, <1>9, <1>10, <1>11, <1>12, <1>13, <1>14,
     <1>15, <1>16, <1>17, <1>18, <1>19 DEF Advances

(* The invariant is inductive.                                             *)
LEMMA StagesStep == StagesInv /\ [Next]_vars => StagesInv'
<1>. SUFFICES ASSUME StagesInv, [Next]_vars
              PROVE  StagesInv'
  OBVIOUS
<1>1. ASSUME NEW h \in Handlers, Poll(h)
      PROVE  StagesInv'
  BY <1>1, PollStep
<1>2. ASSUME NEW h \in Handlers, NEW r \in Requests, OpenPortia(h, r) \/ OpenCharlotte(h, r)
      PROVE  StagesInv'
  BY <1>2, OpenStep
<1>3. ASSUME NEW h \in Handlers, Advances(h)
      PROVE  StagesInv'
  BY <1>3, AdvancesStep
<1>4. ASSUME NEW h \in Handlers, Crash(h)
      PROVE  StagesInv'
  <2>1. crashes' \in 0..MaxCrashes
    BY <1>4, ConstantsAssumption DEF Crash, StagesInv, Typed
  <2>2. Finish(h) /\ UNCHANGED <<run, artifacts, ledger, called, counted>>
    BY <1>4 DEF Crash
  <2>. QED
    BY <2>1, <2>2, EndStep
<1>5. ASSUME NEW r \in Requests, Expire(r)
      PROVE  StagesInv'
  BY <1>5, ExpireStep
<1>6. CASE AnswerBoard
  BY <1>6, AnswerBoardStep
<1>7. CASE UNCHANGED vars
  <2>1. /\ run' = run /\ review' = review /\ gate' = gate /\ quality' = quality
        /\ answered' = answered /\ called' = called /\ counted' = counted /\ crashes' = crashes
        /\ handler' = handler /\ ledger' = ledger
    BY <1>7 DEF vars, artifacts
  <2>2. Typed' /\ LedgerSound' /\ OneWorker'
    BY <2>1 DEF StagesInv, Typed, LedgerSound, OneWorker, Works, Step
  <2>3. LedgerGrows /\ NoNewWin /\ CallsAttempted
    BY <2>1, LedgerStays DEF NoNewWin, CallsAttempted
  <2>4. StageSound' /\ AccountsSound' /\ ResultsSound'
    BY <2>1, <2>2, <2>3, QuietStep DEF StagesInv
  <2>5. RunFollows /\ \A g \in Handlers : FenceKept(g)
    BY <2>1, RunStays DEF StagesInv
  <2>6. HandlersSound'
    BY <2>1, <2>3, <2>5, SoundKept DEF StagesInv, HandlersSound
  <2>. QED
    BY <2>2, <2>4, <2>6 DEF StagesInv
<1>. QED
  BY <1>1, <1>2, <1>3, <1>4, <1>5, <1>6, <1>7 DEF Next

(* The run, its artifacts, the ledger and what every handler remembers of  *)
(* them agree at every step.                                               *)
THEOREM StagesInvariant == Spec => []StagesInv
  BY StagesInit, StagesStep, PTL DEF Spec

-----------------------------------------------------------------------------
(* What follows from the invariant.                                        *)

(* The one request of a stage that was attempted and not counted.          *)
Outstanding(op) ==
  IF run.state = Running[op] THEN run.active ELSE IF op = "portia" THEN review ELSE quality

(* A call is counted or outstanding, and nothing is outstanding once the   *)
(* budget is spent.                                                        *)
LEMMA CallsAccounted ==
  ASSUME StagesInv, NEW op \in Ops
  PROVE  /\ CalledOf(op) \subseteq CountedOf(op) \cup {Outstanding(op)}
         /\ run.failed[op] = FailureLimit => Outstanding(op) = None
<1>1. /\ review # None => ledger[review].op = "portia"
      /\ quality # None => ledger[quality].op = "charlotte"
  BY DEF StagesInv, ResultsSound, ResultsAreWinners, Succeeded, Is
<1>2. \A o \in Ops : run.state = Running[o] => ledger[run.active].op = o
  BY DEF StagesInv, StageSound, StartedOf
<1>3. (\A o \in Ops : run.state # Running[o]) => run.active = None
  BY DEF StagesInv, StageSound
<1>4. /\ run.state = "portia_running" => review = None /\ quality = None
      /\ run.state = "charlotte_running" => quality = None
      /\ run.state = "portia_unavailable" => review = None
      /\ run.state = "charlotte_unavailable" => quality = None
  BY DEF StagesInv, StageSound, Unreviewed
<1>5. ASSUME NEW r \in CalledOf(op), r \notin counted
      PROVE  r = Outstanding(op)
  <2>1. r \in Requests /\ r # None /\ ledger[r].op = op /\ Attempted(r)
    BY <1>5, ConstantsAssumption DEF CalledOf, StagesInv, Typed, AccountsSound
  <2>2. r \in {run.active, review, quality}
    BY <1>5, <2>1 DEF Attempted
  <2>3. CASE op = "portia"
    BY <1>1, <1>2, <1>3, <1>4, <2>1, <2>2, <2>3, StageStates DEF Outstanding
  <2>4. CASE op = "charlotte"
    BY <1>1, <1>2, <1>3, <1>4, <2>1, <2>2, <2>4, StageStates DEF Outstanding
  <2>. QED
    BY <2>3, <2>4, StageStates
<1>6. CalledOf(op) \subseteq CountedOf(op) \cup {Outstanding(op)}
  BY <1>5 DEF CalledOf, CountedOf
<1>7. run.failed[op] = FailureLimit => Outstanding(op) = None
  <2>. SUFFICES ASSUME run.failed[op] = FailureLimit
                PROVE  Outstanding(op) = None
    OBVIOUS
  <2>1. run.state = Unavailable[op]
    BY DEF StagesInv, AccountsSound
  <2>. QED
    BY <1>4, <2>1, StageStates DEF Outstanding
<1>. QED
  BY <1>6, <1>7

(* The provider is asked at most once more than it has failed.             *)
LEMMA CallsBounded ==
  ASSUME StagesInv, NEW op \in Ops
  PROVE  Cardinality(CalledOf(op)) <= FailureLimit
<1>1. /\ CalledOf(op) \subseteq CountedOf(op) \cup {Outstanding(op)}
      /\ run.failed[op] = FailureLimit => Outstanding(op) = None
  BY CallsAccounted
<1>2. /\ run.failed[op] = Cardinality(CountedOf(op)) /\ FailureLimit \in Nat
      /\ run.failed[op] \in 0..FailureLimit
  BY ConstantsAssumption DEF StagesInv, AccountsSound, Typed, Row
<1>3. CalledOf(op) \subseteq Requests /\ CountedOf(op) \subseteq Requests
  BY DEF StagesInv, Typed, CalledOf, CountedOf
<1>4. IsFiniteSet(CountedOf(op))
  BY <1>3, FS_Subset, ConstantsAssumption
<1>5. CASE run.failed[op] = FailureLimit
  <2>1. CalledOf(op) \subseteq CountedOf(op)
    BY <1>1, <1>3, <1>5, ConstantsAssumption
  <2>2. Cardinality(CalledOf(op)) <= Cardinality(CountedOf(op))
    BY <1>4, <2>1, FS_Subset
  <2>. QED
    BY <1>2, <1>5, <2>2
<1>6. CASE run.failed[op] # FailureLimit
  <2>. DEFINE all == CountedOf(op) \cup {Outstanding(op)}
  <2>1. IsFiniteSet(all) /\ Cardinality(all) \in {run.failed[op], run.failed[op] + 1}
    BY <1>2, <1>4, FS_AddElement
  <2>2. IsFiniteSet(CalledOf(op)) /\ Cardinality(CalledOf(op)) <= Cardinality(all)
    BY <1>1, <2>1, FS_Subset
  <2>. HIDE DEF all
  <2>3. Cardinality(CalledOf(op)) \in Nat
    BY <2>2, FS_CardinalityType
  <2>. QED
    BY <1>2, <1>6, <2>1, <2>2, <2>3
<1>. QED
  BY <1>5, <1>6

(* Every attempt is counted once and no budget is overdrawn, however many  *)
(* handlers die and clients retry (failPortiaAttempt, failCharlotteAttempt *)
(* and the fences of every statement between).                             *)
THEOREM AttemptsAlwaysCounted == Spec => []AttemptsAreCounted
<1>1. StagesInv => AttemptsAreCounted
  <2>. SUFFICES ASSUME StagesInv
                PROVE  AttemptsAreCounted
    OBVIOUS
  <2>1. TypeOK
    BY DEF StagesInv, Typed, StageSound, TypeOK
  <2>2. FailuresCountOnce
    BY DEF StagesInv, AccountsSound, FailuresCountOnce
  <2>3. CallsWithinLimit
    BY CallsBounded DEF CallsWithinLimit
  <2>. QED
    BY <2>1, <2>2, <2>3 DEF AttemptsAreCounted
<1>. QED
  BY <1>1, StagesInvariant, PTL

(* What the run stores was won, what was won is kept, and each stage rests *)
(* on the approved result of the one before it (storePortia, storeGate,    *)
(* storeCharlotte and what may overtake them).                             *)
THEOREM ResultsAlwaysSound == Spec => []ResultsAreSound
<1>1. StagesInv => ResultsAreSound
  <2>. SUFFICES ASSUME StagesInv
                PROVE  ResultsAreSound
    OBVIOUS
  <2>1. QualifiesApprovedAnswers
    BY DEF StagesInv, StageSound, QualifiesApprovedAnswers, Approved, Judged
  <2>. QED
    BY <2>1 DEF StagesInv, ResultsSound, ResultsAreSound
<1>. QED
  BY <1>1, StagesInvariant, PTL

(* A sequence is a prefix of itself, and of itself with one more element.  *)
LEMMA PrefixGrows ==
  ASSUME NEW s \in Seq(Requests), NEW r \in Requests
  PROVE  IsPrefix(s, s) /\ IsPrefix(s, Append(s, r))
<1>1. /\ Append(s, r) \in Seq(Requests) /\ Len(Append(s, r)) = Len(s) + 1
      /\ Len(s) \in Nat
      /\ \A i \in 1..Len(s) : Append(s, r)[i] = s[i]
  OBVIOUS
<1>2. SubSeq(s, 1, Len(s)) = SubSeq(Append(s, r), 1, Len(s))
  BY <1>1
<1>. QED
  BY <1>1, <1>2 DEF IsPrefix

(* The drafts change only where Portia persists another assessment.        *)
LEMMA DraftsChange ==
  ASSUME StagesInv, [Next]_vars
  PROVE  \/ run'.drafts = run.drafts
         \/ \E r \in Requests : run'.drafts = Append(run.drafts, r)
<1>a. /\ \A to : Advance(to).drafts = run.drafts
      /\ \A to, x : [Advance(to) EXCEPT !.active = x].drafts = run.drafts
      /\ \A to, x, d : [Advance(to) EXCEPT !.active = x, !.drafts = d].drafts = d
  BY DEF StagesInv, Typed, Row, Advance
<1>1. ASSUME run' = run
      PROVE  run'.drafts = run.drafts
  BY <1>1
<1>2. ASSUME NEW h \in Handlers, Prepare(h) \/ Authorize(h) \/ Conclude(h)
      PROVE  run'.drafts = run.drafts
  BY <1>a, <1>2 DEF Prepare, Authorize, Conclude, Transition
<1>3. ASSUME NEW h \in Handlers, Attempt(h)
      PROVE  run'.drafts = run.drafts
  <2>1. \/ run' = run
        \/ run' = [Advance(Running[handler[h].op]) EXCEPT !.active = handler[h].req]
    BY <1>3 DEF Attempt
  <2>. QED
    BY <2>1 DEF Advance, StagesInv, Typed, Row
<1>4. ASSUME NEW h \in Handlers, Assess(h), run' # run
      PROVE  \E r \in Requests : run'.drafts = Append(run.drafts, r)
  <2>. DEFINE q == handler[h].req
  <2>1. /\ Step(h) = "call" /\ Step(h) # "idle" /\ run.active = q
        /\ run' = [run EXCEPT !.drafts = Append(handler[h].work, q)]
    BY <1>4 DEF Assess, MayProgress
  <2>2. /\ q \in Requests /\ WorkSound(h) /\ handler[h].payload = None
    BY <2>1 DEF StagesInv, HandlersSound, Sound, StepSound, PayloadSound
  <2>3. run.drafts = handler[h].work
    BY <2>1, <2>2 DEF WorkSound, Works
  <2>4. run'.drafts = Append(run.drafts, q)
    BY <2>1, <2>3 DEF StagesInv, Typed, Row
  <2>. QED
    BY <2>2, <2>4
<1>5. ASSUME NEW h \in Handlers, Fail(h)
      PROVE  run'.drafts = run.drafts
  <2>1. CASE run' = run
    BY <2>1
  <2>2. CASE run' # run
    <3>. DEFINE row == [Advance(AfterFailure(handler[h].op)) EXCEPT !.active = None]
    <3>1. run' = [row EXCEPT !.failed[handler[h].op] = @ + 1]
      BY <1>5, <2>2 DEF Fail, Unfenced
    <3>2. row.drafts = run.drafts
      BY <1>a
    <3>3. run'.drafts = row.drafts
      BY <3>1 DEF Advance, StagesInv, Typed, Row
    <3>. QED
      BY <3>2, <3>3
  <2>. QED
    BY <2>1, <2>2
<1>6. ASSUME NEW h \in Handlers, StorePortia(h)
      PROVE  run'.drafts = run.drafts
  <2>1. CASE run' = run
    BY <2>1
  <2>2. CASE run' # run
    <3>1. /\ Step(h) = "store" /\ MayStore(h)
          /\ run' = [Unfenced(Advance("portia_complete"))
                       EXCEPT !.drafts = ledger[handler[h].payload].work]
      BY <1>6, <2>2 DEF StorePortia, StoreConflict
    <3>2. run'.drafts = ledger[handler[h].payload].work
      BY <1>a, <3>1 DEF Unfenced
    <3>. QED
      BY <3>1, <3>2, OwnResult
  <2>. QED
    BY <2>1, <2>2
<1>7. ASSUME NEW h \in Handlers, StoreCharlotte(h)
      PROVE  run'.drafts = run.drafts
  <2>1. run' = run \/ run' = [Advance("charlotte_complete") EXCEPT !.active = None]
    BY <1>7 DEF StoreCharlotte, StoreConflict, Unfenced
  <2>. QED
    BY <2>1 DEF Advance, StagesInv, Typed, Row
<1>8. ASSUME NEW h \in Handlers, Judge(h)
      PROVE  run'.drafts = run.drafts
  BY <1>a, <1>8 DEF Judge
<1>9. ASSUME NEW h \in Handlers, Advances(h), run' # run
      PROVE  \/ run'.drafts = run.drafts
             \/ \E r \in Requests : run'.drafts = Append(run.drafts, r)
  <2>1. \/ Prepare(h) \/ Authorize(h) \/ Conclude(h) \/ Attempt(h) \/ Assess(h) \/ Fail(h)
        \/ StorePortia(h) \/ StoreCharlotte(h) \/ Judge(h)
    BY <1>9
       DEF Advances, Reserve, ReserveFindsResult, ReserveFindsFailure, ReserveRefused, Conflict,
           Begin, Load, Generated, GenerationFailed, GenerationUnknown, SettleSuccess, SettleLate,
           SettleFailure, Reconcile, Reread
  <2>. QED
    BY <1>2, <1>3, <1>4, <1>5, <1>6, <1>7, <1>8, <1>9, <2>1
<1>10. ASSUME run' # run
       PROVE  \E h \in Handlers : Advances(h)
  BY <1>10 DEF Next, vars, Poll, OpenPortia, OpenCharlotte, Opening, Crash, Expire, AnswerBoard
<1>. QED
  BY <1>1, <1>9, <1>10

(* Portia's assessments are never lost: across failed and resumed attempts *)
(* and the review finally stored, the persisted drafts only grow           *)
(* (updatePortiaProgress, storePortia).                                    *)
THEOREM DraftsAlwaysGrow == Spec => DraftsOnlyGrow
<1>1. StagesInv /\ [Next]_vars => [IsPrefix(run.drafts, run'.drafts)]_run
  <2>. SUFFICES ASSUME StagesInv, [Next]_vars
                PROVE  IsPrefix(run.drafts, run'.drafts)
    OBVIOUS
  <2>1. run.drafts \in Seq(Requests)
    BY DraftsAreSequences DEF StagesInv, Typed, Row
  <2>2. \/ run'.drafts = run.drafts
        \/ \E r \in Requests : run'.drafts = Append(run.drafts, r)
    BY DraftsChange
  <2>3. IsPrefix(run.drafts, run.drafts)
    BY <2>1 DEF IsPrefix
  <2>. QED
    BY <2>1, <2>2, <2>3, PrefixGrows
<1>. QED
  BY <1>1, StagesInvariant, PTL DEF Spec, DraftsOnlyGrow
=============================================================================
