------------------------- MODULE DivisionRouteProofs -------------------------
(***************************************************************************)
(* The divide route for any number of divisions, calls, polls and faults:  *)
(* what an account's fields, runs and answers are worth, and who may fail  *)
(* a division that was paid for.  The argument is that every copy a        *)
(* handler holds stays true, because requests and games only move forward, *)
(* and that the call which made a reservation is the only one to use it.   *)
(***************************************************************************)
EXTENDS DivisionRoute, FiniteSetTheorems, TLAPS

-----------------------------------------------------------------------------
(* The inductive invariant.                                                *)

Statuses == {"absent", "reserved", "in_progress", "succeeded", "failed", "indeterminate"}
Stages == {"absent", "dividing", "mapped", "playing", "division_failed"}
Good == {"mapped", "playing"}
Over == {"failed", "indeterminate"}

PollSteps == {"observe", "adopt", "find", "finish", "fail", "tell"}
Before == {"shell", "look", "link", "attach", "begin", "release"}
Steps == PollSteps \cup Before \cup {"idle", "generate", "settle", "settle_failure", "ensure"}

Row == [status : Statuses, attached : BOOLEAN, overdue : BOOLEAN]
Task == [step : Steps, d : Divisions \cup {None}, mine : BOOLEAN, seen : Stages,
         saw : BOOLEAN, cause : {"none", "error"}]

Typed ==
  /\ request \in [Divisions -> Row]
  /\ game \in [Divisions -> Stages]
  /\ handler \in [Handlers -> Task]
  /\ runs \subseteq Divisions
  /\ told \subseteq Divisions \X BOOLEAN \X Stages

(* What was seen of a game is still so, as far as it cannot change.        *)
Agrees(d, seen) ==
  /\ seen \in Good => game[d] \in Good
  /\ seen = "division_failed" => game[d] = "division_failed"

(* What a handler's copy t says of the database.                           *)
Fits(h, t) ==
  t.step # "idle" =>
    /\ t.d \in Divisions /\ request[t.d].status # "absent" /\ Agrees(t.d, t.seen)
    /\ h \in Polls => t.step \in PollSteps /\ ~t.mine /\ t.cause = "none"
    /\ t.step \in {"begin", "generate", "settle", "settle_failure", "release"} => t.mine
    /\ t.step \in {"observe", "adopt", "find"} => ~t.mine
    /\ t.step \in {"adopt", "find"} => t.seen = "dividing"
    /\ t.step \in {"begin", "generate", "settle", "settle_failure", "find", "finish"} =>
         request[t.d].attached
    /\ t.step = "finish" => request[t.d].status = "succeeded"
    /\ t.mine /\ t.step \in Before \cup {"fail"} => ~Paid(t.d)
    /\ t.step = "fail" /\ ~t.mine /\ t.cause # "error" => request[t.d].status \in Over
    /\ t.step = "tell" /\ h \in Divides => t.seen \notin Good
    /\ t.step = "ensure" => t.seen \in Good

HandlersFit == \A h \in Handlers : Fits(h, handler[h])

(* The handler h owns the reservation of d.                                *)
Owns(h, d) == handler[h].step # "idle" /\ handler[h].mine /\ handler[h].d = d

OneOwner == \A h, x \in Handlers, d \in Divisions : Owns(h, d) /\ Owns(x, d) => h = x

OnePending == \A d, e \in Divisions : Pending(d) /\ Pending(e) => d = e

GamesArePaid ==
  \A d \in Divisions :
    /\ game[d] # "absent" => request[d].status # "absent"
    /\ game[d] \in Good => request[d].status = "succeeded" /\ request[d].attached

(* What was answered is still so.                                          *)
Told ==
  /\ \A d \in runs : game[d] \in Good
  /\ \A d \in Divisions, x \in BOOLEAN, seen \in Stages : <<d, x, seen>> \in told =>
       Agrees(d, seen) /\ (x /\ seen = "mapped" => d \in runs)

DivInv == Typed /\ HandlersFit /\ OneOwner /\ OnePending /\ GamesArePaid /\ Told

-----------------------------------------------------------------------------
(* Requests and games only move forward.                                   *)

RequestsMove ==
  \A d \in Divisions :
    /\ request[d].status # "absent" => request'[d].status # "absent"
    /\ request[d].status = "succeeded" => request'[d].status = "succeeded"
    /\ request[d].status \in Over => request'[d].status \in Over
    /\ request[d].attached => request'[d].attached

GamesMove ==
  \A d \in Divisions :
    /\ game[d] \in Good => game'[d] \in Good
    /\ game[d] = "division_failed" => game'[d] = "division_failed"

(* A handler that does nothing in a step is as right as before, if the     *)
(* request it owns was not begun by another.                               *)
LEMMA HandlerKept ==
  ASSUME Typed, RequestsMove, GamesMove, NEW h \in Handlers, Fits(h, handler[h]),
         handler'[h] = handler[h],
         \A d \in Divisions : Owns(h, d) => (Paid(d)' => Paid(d))
  PROVE  Fits(h, handler[h])'
<1>1. PICK t \in Task : t = handler[h]
  BY DEF Typed
<1>2. Fits(h, t)
  BY <1>1
<1>. SUFFICES ASSUME t.step # "idle"
              PROVE  Fits(h, t)'
  BY <1>1 DEF Fits
<1>3. PICK d \in Divisions : d = t.d
  BY <1>2 DEF Fits
<1>4. Agrees(d, t.seen)'
  BY <1>2, <1>3 DEF Fits, Agrees, GamesMove
<1>5. t.mine => (Paid(d)' => Paid(d))
  BY <1>1, <1>3 DEF Owns
<1>6. t.mine /\ t.step \in Before \cup {"fail"} => ~Paid(d)'
  BY <1>2, <1>3, <1>5 DEF Fits
<1>7. /\ request'[d].status # "absent"
      /\ request[d].status = "succeeded" => request'[d].status = "succeeded"
      /\ request[d].status \in Over => request'[d].status \in Over
      /\ request[d].attached => request'[d].attached
  BY <1>2, <1>3 DEF Fits, RequestsMove
<1>. QED
  BY <1>2, <1>3, <1>4, <1>6, <1>7 DEF Fits

(* The shape of every step: the database moves forward, handlers keep      *)
(* their copies or have new ones that fit, and new answers are right.      *)
LEMMA Moves ==
  ASSUME DivInv, Typed', RequestsMove, GamesMove, OneOwner', OnePending', GamesArePaid',
         \A h \in Handlers :
           \/ Fits(h, handler[h])'
           \/ /\ handler'[h] = handler[h]
              /\ \A d \in Divisions : Owns(h, d) => (Paid(d)' => Paid(d)),
         \A d \in runs' : d \in runs \/ game'[d] \in Good,
         runs \subseteq runs',
         \A d \in Divisions, x \in BOOLEAN, seen \in Stages : <<d, x, seen>> \in told' =>
           \/ <<d, x, seen>> \in told
           \/ Agrees(d, seen)' /\ (x /\ seen = "mapped" => d \in runs')
  PROVE  DivInv'
<1>1. HandlersFit'
  BY HandlerKept DEF DivInv, HandlersFit
<1>2. \A d \in Divisions, seen \in Stages : Agrees(d, seen) => Agrees(d, seen)'
  BY DEF Agrees, GamesMove
<1>3. \A d \in runs' : game'[d] \in Good
  BY DEF DivInv, Typed, Told, GamesMove
<1>4. Told'
  BY <1>2, <1>3 DEF DivInv, Told
<1>. QED
  BY <1>1, <1>4 DEF DivInv

(* One handler acts, on requests at most.                                  *)
LEMMA RequestStep ==
  ASSUME DivInv, NEW h \in Handlers, NEW t \in Task, handler' = [handler EXCEPT ![h] = t],
         request' \in [Divisions -> Row], RequestsMove, UNCHANGED <<game, runs, told>>,
         Fits(h, t)',
         t.step # "idle" /\ t.mine => Owns(h, t.d),
         \A d \in Divisions : (Pending(d)' => Pending(d)) /\ (Paid(d)' => Paid(d) \/ Owns(h, d))
  PROVE  DivInv'
<1>1. game' = game /\ runs' = runs /\ told' = told
  OBVIOUS
<1>2. /\ handler' \in [Handlers -> Task] /\ handler'[h] = t
      /\ \A x \in Handlers \ {h} : handler'[x] = handler[x]
  BY DEF DivInv, Typed
<1>3. Typed'
  BY <1>1, <1>2 DEF DivInv, Typed
<1>4. GamesMove
  BY <1>1 DEF GamesMove
<1>5. \A x \in Handlers, d \in Divisions : Owns(x, d)' => Owns(x, d)
  BY <1>2 DEF Owns
<1>6. OneOwner'
  BY <1>5 DEF DivInv, OneOwner
<1>7. OnePending'
  BY DEF DivInv, OnePending
<1>8. GamesArePaid'
  BY <1>1 DEF DivInv, GamesArePaid, RequestsMove
<1>9. \A x \in Handlers \ {h} : /\ handler'[x] = handler[x]
                              /\ \A d \in Divisions : Owns(x, d) => (Paid(d)' => Paid(d))
  BY <1>2 DEF DivInv, OneOwner
<1>10. Fits(h, handler[h])'
  BY <1>2 DEF Fits
<1>11. \A d \in runs' : d \in runs \/ game'[d] \in Good
  BY <1>1
<1>. QED
  BY <1>1, <1>3, <1>4, <1>6, <1>7, <1>8, <1>9, <1>10, <1>11, Moves

(* One handler acts and writes nothing.                                    *)
LEMMA ReadStep ==
  ASSUME DivInv, NEW h \in Handlers, NEW t \in Task, handler' = [handler EXCEPT ![h] = t],
         UNCHANGED <<request, game, runs, told>>, Fits(h, t),
         t.step # "idle" /\ t.mine => Owns(h, t.d)
  PROVE  DivInv'
<1>1. request' = request /\ game' = game
  OBVIOUS
<1>2. RequestsMove /\ request' \in [Divisions -> Row]
  BY <1>1 DEF DivInv, Typed, RequestsMove
<1>3. Fits(h, t)'
  BY <1>1 DEF Fits, Agrees, Paid
<1>. QED
  BY <1>1, <1>2, <1>3, RequestStep DEF Pending, Paid

(* A handler ends.                                                         *)
LEMMA IdleFits ==
  /\ Idle \in Task /\ Idle.step = "idle"
  /\ \A h \in Handlers : Fits(h, Idle) /\ Fits(h, Idle)'
BY DEF Idle, Task, Steps, Stages, Fits

-----------------------------------------------------------------------------
(* Steps of one handler.                                                   *)

(* A handler in flight has a task that fits.                               *)
LEMMA InFlight ==
  ASSUME DivInv, NEW h \in Handlers, handler[h].step # "idle"
  PROVE  \E t \in Task : /\ t = handler[h] /\ Fits(h, t) /\ t.d \in Divisions
                         /\ request[t.d] \in Row /\ game[t.d] \in Stages
                         /\ t.mine => Owns(h, t.d)
BY DEF DivInv, Typed, HandlersFit, Fits, Owns

LEMMA DoneStep ==
  ASSUME DivInv, NEW h \in Handlers, Done(h), UNCHANGED <<request, game, runs, told>>
  PROVE  DivInv'
BY IdleFits, ReadStep DEF Done

(* An error before the provider is called.                                 *)
LEMMA CaughtStep ==
  ASSUME DivInv, NEW h \in Handlers, h \notin Polls, handler[h].step # "idle", Caught(h),
         UNCHANGED <<request, game, runs, told>>,
         handler[h].mine => handler[h].step \in Before
  PROVE  DivInv'
<1>1. PICK t \in Task : t = handler[h] /\ Fits(h, t) /\ t.d \in Divisions /\ (t.mine => Owns(h, t.d))
  BY InFlight
<1>. DEFINE caught == IF handler[h].mine THEN [handler[h] EXCEPT !.step = "release", !.cause = "error"]
                      ELSE IF handler[h].seen = "dividing"
                           THEN [handler[h] EXCEPT !.step = "fail", !.cause = "error"]
                           ELSE Idle
<1>a. handler' = [handler EXCEPT ![h] = caught]
  BY DEF Caught
<1>b. /\ t.mine => caught = [t EXCEPT !.step = "release", !.cause = "error"]
      /\ ~t.mine /\ t.seen = "dividing" => caught = [t EXCEPT !.step = "fail", !.cause = "error"]
      /\ ~t.mine /\ t.seen # "dividing" => caught = Idle
  <2>1. handler[h].mine = t.mine /\ handler[h].seen = t.seen /\ t.mine \in BOOLEAN
    BY <1>1 DEF Task
  <2>2. t.mine => caught = [handler[h] EXCEPT !.step = "release", !.cause = "error"]
    BY <2>1
  <2>3. ~t.mine /\ t.seen = "dividing" =>
          caught = [handler[h] EXCEPT !.step = "fail", !.cause = "error"]
    BY <2>1
  <2>4. ~t.mine /\ t.seen # "dividing" => caught = Idle
    BY <2>1
  <2>. QED
    BY <1>1, <2>2, <2>3, <2>4
<1>c. t.mine \in BOOLEAN /\ t.step # "idle" /\ (t.mine => t.step \in Before)
  BY <1>1 DEF Task
<1>. HIDE DEF caught
<1>2. CASE t.mine
  <2>. DEFINE new == [t EXCEPT !.step = "release", !.cause = "error"]
  <2>1. /\ new \in Task /\ new.step = "release" /\ new.mine = t.mine /\ new.d = t.d
        /\ new.seen = t.seen
    BY DEF Task, Steps, Before
  <2>2. handler' = [handler EXCEPT ![h] = new]
    BY <1>2, <1>a, <1>b
  <2>. HIDE DEF new
  <2>3. Fits(h, new)
    BY <1>1, <1>2, <1>c, <2>1 DEF Fits
  <2>. QED
    BY <1>1, <2>1, <2>2, <2>3, ReadStep
<1>3. CASE ~t.mine /\ t.seen = "dividing"
  <2>. DEFINE new == [t EXCEPT !.step = "fail", !.cause = "error"]
  <2>1. /\ new \in Task /\ new.step = "fail" /\ new.mine = t.mine /\ new.d = t.d
        /\ new.seen = t.seen /\ new.cause = "error"
    BY DEF Task, Steps, PollSteps
  <2>2. handler' = [handler EXCEPT ![h] = new]
    BY <1>3, <1>a, <1>b
  <2>. HIDE DEF new
  <2>3. Fits(h, new)
    BY <1>1, <1>3, <1>c, <2>1 DEF Fits
  <2>. QED
    BY <1>1, <1>3, <2>1, <2>2, <2>3, ReadStep
<1>4. CASE ~t.mine /\ t.seen # "dividing"
  <2>1. Done(h)
    BY <1>4, <1>a, <1>b DEF Done
  <2>. QED
    BY <2>1, DoneStep
<1>. QED
  BY <1>2, <1>3, <1>4

(* A handler goes on to another step with the copy it has.                 *)
LEMMA OnStep ==
  ASSUME DivInv, NEW h \in Handlers, handler[h].step # "idle", NEW step \in Steps, To(h, step),
         UNCHANGED <<request, game, runs, told>>, Fits(h, [handler[h] EXCEPT !.step = step])
  PROVE  DivInv'
<1>1. PICK t \in Task : t = handler[h] /\ t.d \in Divisions /\ (t.mine => Owns(h, t.d))
  BY InFlight
<1>. DEFINE new == [t EXCEPT !.step = step]
<1>2. new \in Task /\ new.mine = t.mine /\ new.d = t.d
  BY DEF Task
<1>3. handler' = [handler EXCEPT ![h] = new]
  BY <1>1 DEF To
<1>4. Fits(h, new)
  BY <1>1
<1>. HIDE DEF new
<1>5. new.step # "idle" /\ new.mine => Owns(h, new.d)
  BY <1>1, <1>2
<1>. QED
  BY <1>2, <1>3, <1>4, <1>5, ReadStep

LEMMA LookStep ==
  ASSUME DivInv, NEW h \in Handlers, Look(h)
  PROVE  DivInv'
<1>1. handler[h].step = "look" /\ UNCHANGED <<request, game, runs, told>>
  BY DEF Look, At
<1>2. PICK t \in Task : t = handler[h] /\ Fits(h, t) /\ t.d \in Divisions /\ (t.mine => Owns(h, t.d))
  BY <1>1, InFlight
<1>. DEFINE saw == t.d \in links
<1>3. saw \in BOOLEAN
  OBVIOUS
<1>. DEFINE new == [t EXCEPT !.saw = saw, !.step = "link"]
<1>4. /\ new \in Task /\ new.step = "link" /\ new.mine = t.mine /\ new.d = t.d
      /\ new.seen = t.seen /\ new.cause = t.cause
  <2>. HIDE DEF saw
  <2>. QED
    BY <1>3 DEF Task, Steps, Before
<1>5. handler' = [handler EXCEPT ![h] = new]
  BY <1>2 DEF Look, DivInv, Typed
<1>. HIDE DEF new
<1>6. Fits(h, new)
  BY <1>1, <1>2, <1>4 DEF Fits, Before, PollSteps
<1>. QED
  BY <1>1, <1>2, <1>4, <1>5, <1>6, ReadStep

LEMMA LinkStep ==
  ASSUME DivInv, NEW h \in Handlers, Link(h)
  PROVE  DivInv'
<1>1. handler[h].step = "link" /\ UNCHANGED <<request, game, runs, told>>
  BY DEF Link, At
<1>2. PICK t \in Task : t = handler[h] /\ Fits(h, t) /\ t.d \in Divisions /\ (t.mine => Owns(h, t.d))
  BY <1>1, InFlight
<1>3. h \notin Polls
  BY <1>1, <1>2 DEF Fits, PollSteps
<1>4. CASE Caught(h)
  BY <1>1, <1>3, <1>4, CaughtStep DEF Before
<1>5. CASE handler' = [handler EXCEPT ![h].step = "attach", ![h].saw = FALSE]
  <2>. DEFINE new == [t EXCEPT !.step = "attach", !.saw = FALSE]
  <2>1. /\ new \in Task /\ new.step = "attach" /\ new.mine = t.mine /\ new.d = t.d
        /\ new.seen = t.seen /\ new.cause = t.cause
    BY DEF Task, Steps, Before
  <2>2. handler' = [handler EXCEPT ![h] = new]
    BY <1>2, <1>5 DEF DivInv, Typed
  <2>. HIDE DEF new
  <2>3. Fits(h, new)
    BY <1>1, <1>2, <2>1 DEF Fits, Before, PollSteps
  <2>. QED
    BY <1>1, <1>2, <2>1, <2>2, <2>3, ReadStep
<1>. QED
  BY <1>4, <1>5 DEF Link

(* Of a step taken with To, what it has to keep.                           *)
LEMMA ToFits ==
  ASSUME NEW h \in Handlers, NEW t \in Task, NEW step \in Steps, step # "idle",
         Fits(h, t), t.step # "idle",
         h \in Polls => step \in PollSteps,
         step \in {"begin", "generate", "settle", "settle_failure", "release"} => t.mine,
         step \in {"observe", "adopt", "find"} => ~t.mine,
         step \in {"adopt", "find"} => t.seen = "dividing",
         step \in {"begin", "generate", "settle", "settle_failure", "find", "finish"} =>
           request[t.d].attached,
         step = "finish" => request[t.d].status = "succeeded",
         t.mine /\ step \in Before \cup {"fail"} => ~Paid(t.d),
         step = "fail" /\ ~t.mine /\ t.cause # "error" => request[t.d].status \in Over,
         step = "tell" /\ h \in Divides => t.seen \notin Good,
         step = "ensure" => t.seen \in Good
  PROVE  /\ [t EXCEPT !.step = step] \in Task
         /\ Fits(h, [t EXCEPT !.step = step])
<1>. DEFINE new == [t EXCEPT !.step = step]
<1>1. /\ new \in Task /\ new.step = step /\ new.mine = t.mine /\ new.d = t.d
      /\ new.seen = t.seen /\ new.cause = t.cause
  BY DEF Task
<1>. HIDE DEF new
<1>2. Fits(h, new)
  BY <1>1 DEF Fits
<1>. QED
  BY <1>1, <1>2 DEF new

LEMMA GenerateStep ==
  ASSUME DivInv, NEW h \in Handlers, Generate(h)
  PROVE  DivInv'
<1>1. handler[h].step = "generate" /\ UNCHANGED <<request, game, runs, told>>
  BY DEF Generate, At
<1>2. PICK t \in Task : t = handler[h] /\ Fits(h, t)
  BY <1>1, InFlight
<1>3. PICK step \in {"settle", "settle_failure"} : To(h, step)
  BY DEF Generate
<1>4. Fits(h, [t EXCEPT !.step = step]) /\ step \in Steps
  BY <1>1, <1>2, ToFits DEF Fits, PollSteps, Before, Steps
<1>. QED
  BY <1>1, <1>2, <1>3, <1>4, OnStep

LEMMA ObserveStep ==
  ASSUME DivInv, NEW h \in Handlers, Observe(h)
  PROVE  DivInv'
<1>1. handler[h].step = "observe" /\ UNCHANGED <<request, game, runs, told>>
  BY DEF Observe, At
<1>2. PICK t \in Task : t = handler[h] /\ Fits(h, t)
  BY <1>1, InFlight
<1>. DEFINE d == t.d
            step == IF t.seen # "dividing" THEN After(h, t.seen)
                    ELSE IF Linked(d) THEN "find"
                    ELSE IF Adoptable(d) THEN "adopt" ELSE "tell"
<1>3. To(h, step)
  BY <1>2 DEF Observe
<1>4. /\ step \in {"tell", "ensure", "find", "adopt"} /\ ~t.mine
      /\ h \in Polls => step # "ensure"
      /\ step = "find" => t.seen = "dividing" /\ request[d].attached
      /\ step = "adopt" => t.seen = "dividing"
      /\ step = "tell" /\ h \notin Polls => t.seen \notin Good
      /\ step = "ensure" => t.seen \in Good
  BY <1>1, <1>2 DEF After, Linked, Fits, Good
<1>. HIDE DEF step
<1>5. Fits(h, [t EXCEPT !.step = step]) /\ step \in Steps
  <2>1. step \in Steps /\ step # "idle"
    BY <1>4 DEF Steps, PollSteps
  <2>2. h \in Polls => step \in PollSteps
    BY <1>4 DEF PollSteps
  <2>3. h \in Divides => h \notin Polls
    BY DivisionAssumption
  <2>. QED
    BY <1>1, <1>2, <1>4, <2>1, <2>2, <2>3, ToFits
<1>. QED
  BY <1>1, <1>2, <1>3, <1>5, OnStep

-----------------------------------------------------------------------------
(* Steps that write the request.                                           *)

(* What row may become of the request of d.                                *)
RowMoves(d, row) ==
  /\ row \in Row /\ row.status # "absent"
  /\ request[d].status = "succeeded" => row.status = "succeeded"
  /\ request[d].status \in Over => row.status \in Over
  /\ request[d].attached => row.attached

LEMMA OneRow ==
  ASSUME DivInv, NEW d \in Divisions, NEW row, RowMoves(d, row),
         request' = [request EXCEPT ![d] = row]
  PROVE  /\ request' \in [Divisions -> Row] /\ RequestsMove /\ request'[d] = row
         /\ \A e \in Divisions \ {d} : request'[e] = request[e]
BY DEF DivInv, Typed, RowMoves, RequestsMove

(* A handler writes the request of its division and ends.                  *)
LEMMA LastRowStep ==
  ASSUME DivInv, NEW h \in Handlers, NEW d \in Divisions, NEW row, RowMoves(d, row),
         request' = [request EXCEPT ![d] = row], UNCHANGED <<game, runs, told>>, Done(h),
         row.status \in Live => Pending(d),
         row.status \in {"in_progress", "succeeded"} => Paid(d)
  PROVE  DivInv'
<1>1. /\ request' \in [Divisions -> Row] /\ RequestsMove /\ request'[d] = row
      /\ \A e \in Divisions \ {d} : request'[e] = request[e]
  BY OneRow
<1>2. \A e \in Divisions : (Pending(e)' => Pending(e)) /\ (Paid(e)' => Paid(e))
  BY <1>1 DEF Pending, Paid
<1>. QED
  BY <1>1, <1>2, IdleFits, RequestStep DEF Done

(* A handler writes the request of its division and goes on to another     *)
(* step with the copy it has.                                              *)
LEMMA RowStep ==
  ASSUME DivInv, NEW h \in Handlers, NEW t \in Task, t = handler[h], t.step # "idle",
         NEW row, RowMoves(t.d, row), request' = [request EXCEPT ![t.d] = row],
         UNCHANGED <<game, runs, told>>,
         row.status \in Live => Pending(t.d),
         row.status \in {"in_progress", "succeeded"} => Paid(t.d) \/ t.mine,
         NEW step \in Steps, step # "idle", To(h, step),
         h \in Polls => step \in PollSteps,
         step \in {"begin", "generate", "settle", "settle_failure", "release"} => t.mine,
         step \in {"observe", "adopt", "find"} => ~t.mine,
         step \in {"adopt", "find"} => t.seen = "dividing",
         step \in {"begin", "generate", "settle", "settle_failure", "find", "finish"} =>
           row.attached,
         step = "finish" => row.status = "succeeded",
         t.mine /\ step \in Before \cup {"fail"} => row.status \notin {"in_progress", "succeeded"},
         step = "fail" /\ ~t.mine /\ t.cause # "error" => row.status \in Over,
         step = "tell" /\ h \in Divides => t.seen \notin Good,
         step = "ensure" => t.seen \in Good
  PROVE  DivInv'
<1>1. Fits(h, t) /\ t.d \in Divisions /\ (t.mine => Owns(h, t.d))
  BY InFlight
<1>2. PICK d \in Divisions : d = t.d
  BY <1>1
<1>3. /\ request' \in [Divisions -> Row] /\ RequestsMove /\ request'[d] = row
      /\ \A e \in Divisions \ {d} : request'[e] = request[e]
  BY <1>2, OneRow
<1>4. \A e \in Divisions : (Pending(e)' => Pending(e)) /\ (Paid(e)' => Paid(e) \/ Owns(h, e))
  BY <1>1, <1>2, <1>3 DEF Pending, Paid
<1>. DEFINE new == [t EXCEPT !.step = step]
<1>5. /\ new \in Task /\ new.step = step /\ new.mine = t.mine /\ new.d = d
      /\ new.seen = t.seen /\ new.cause = t.cause
  BY <1>2 DEF Task
<1>6. handler' = [handler EXCEPT ![h] = new]
  BY DEF To
<1>. HIDE DEF new
<1>7. Agrees(d, t.seen)'
  BY <1>1, <1>2 DEF Fits, Agrees
<1>8. Paid(d)' <=> row.status \in {"in_progress", "succeeded"}
  BY <1>3 DEF Paid
<1>9. row.status # "absent"
  BY DEF RowMoves
<1>10. Fits(h, new)'
  <2>1. h \in Polls => ~t.mine /\ t.cause = "none"
    BY <1>1 DEF Fits
  <2>. QED
    BY <1>3, <1>5, <1>7, <1>8, <1>9, <2>1 DEF Fits
<1>. QED
  BY <1>1, <1>2, <1>3, <1>4, <1>5, <1>6, <1>10, RequestStep

LEMMA AttachStep ==
  ASSUME DivInv, NEW h \in Handlers, Attach(h)
  PROVE  DivInv'
<1>1. handler[h].step = "attach" /\ UNCHANGED <<game, runs, told>>
  BY DEF Attach, At
<1>2. PICK t \in Task : /\ t = handler[h] /\ Fits(h, t) /\ t.d \in Divisions
                        /\ request[t.d] \in Row
  BY <1>1, InFlight
<1>3. h \notin Polls
  BY <1>1, <1>2 DEF Fits, PollSteps
<1>. DEFINE row == [request[t.d] EXCEPT !.attached = TRUE]
            step == IF t.mine THEN "begin" ELSE "observe"
<1>4. CASE request[t.d].attached \/ request[t.d].status = "reserved"
  <2>1. request' = [request EXCEPT ![t.d] = row] /\ To(h, step)
    BY <1>2, <1>4 DEF Attach, Attached, DivInv, Typed
  <2>2. row \in Row /\ row.status = request[t.d].status /\ row.attached = TRUE
    BY <1>2 DEF Row
  <2>. HIDE DEF row
  <2>3. RowMoves(t.d, row)
    BY <1>1, <1>2, <2>2 DEF RowMoves, Fits
  <2>4. /\ row.status \in Live => Pending(t.d)
        /\ row.status \in {"in_progress", "succeeded"} => Paid(t.d)
        /\ t.mine => row.status \notin {"in_progress", "succeeded"}
    BY <1>1, <1>2, <2>2 DEF Pending, Paid, Fits, Before
  <2>5. /\ step \in Steps /\ step # "idle" /\ step \in {"begin", "observe"}
        /\ step = "begin" => t.mine
        /\ step = "observe" => ~t.mine
    BY DEF Steps, PollSteps, Before
  <2>. HIDE DEF step
  <2>. QED
    BY <1>1, <1>2, <1>3, <2>1, <2>2, <2>3, <2>4, <2>5, RowStep
<1>5. CASE ~(request[t.d].attached \/ request[t.d].status = "reserved")
  <2>1. Caught(h) /\ UNCHANGED request
    BY <1>2, <1>5 DEF Attach
  <2>. QED
    BY <1>1, <1>3, <2>1, CaughtStep DEF Before
<1>. QED
  BY <1>4, <1>5

LEMMA BeginStep ==
  ASSUME DivInv, NEW h \in Handlers, Begin(h)
  PROVE  DivInv'
<1>1. handler[h].step = "begin" /\ UNCHANGED <<game, runs, told>>
  BY DEF Begin, At
<1>2. PICK t \in Task : /\ t = handler[h] /\ Fits(h, t) /\ t.d \in Divisions
                        /\ request[t.d] \in Row
  BY <1>1, InFlight
<1>3. h \notin Polls /\ t.mine /\ request[t.d].attached
  BY <1>1, <1>2 DEF Fits, PollSteps
<1>. DEFINE row == [request[t.d] EXCEPT !.status = "in_progress"]
<1>4. CASE MayBegin(t.d)
  <2>1. request' = [request EXCEPT ![t.d] = row] /\ To(h, "generate")
    BY <1>2, <1>4 DEF Begin, DivInv, Typed
  <2>2. row \in Row /\ row.status = "in_progress" /\ row.attached = request[t.d].attached
    BY <1>2 DEF Row, Statuses
  <2>. HIDE DEF row
  <2>3. RowMoves(t.d, row) /\ Pending(t.d)
    BY <1>4, <2>2 DEF RowMoves, MayBegin, Over, Pending, Live
  <2>. QED
    BY <1>1, <1>2, <1>3, <2>1, <2>2, <2>3, RowStep DEF Steps, PollSteps, Before
<1>5. CASE ~MayBegin(t.d)
  <2>1. Caught(h) /\ UNCHANGED request
    BY <1>2, <1>5 DEF Begin
  <2>. QED
    BY <1>1, <1>3, <2>1, CaughtStep DEF Before
<1>. QED
  BY <1>4, <1>5

(* A result is settled, and the handler goes on to step.                   *)
LEMMA Settling ==
  ASSUME DivInv, NEW h \in Handlers, handler[h].step = "settle", Settles(handler[h].d),
         request' = [request EXCEPT ![handler[h].d].status = "succeeded"],
         NEW step \in {"finish", "settle_failure"}, To(h, step), UNCHANGED <<game, runs, told>>
  PROVE  DivInv'
<1>1. PICK t \in Task : /\ t = handler[h] /\ Fits(h, t) /\ t.d \in Divisions
                        /\ request[t.d] \in Row
  BY InFlight
<1>2. h \notin Polls /\ t.mine /\ request[t.d].attached
  BY <1>1 DEF Fits, PollSteps
<1>. DEFINE row == [request[t.d] EXCEPT !.status = "succeeded"]
<1>3. request' = [request EXCEPT ![t.d] = row]
  BY <1>1 DEF DivInv, Typed
<1>4. row \in Row /\ row.status = "succeeded" /\ row.attached = request[t.d].attached
  BY <1>1 DEF Row, Statuses
<1>. HIDE DEF row
<1>5. RowMoves(t.d, row) /\ row.status \notin Live
  BY <1>1, <1>4 DEF RowMoves, Settles, Over, Live
<1>6. step \in Steps /\ step \notin Before
  BY DEF Steps, PollSteps, Before
<1>. QED
  BY <1>1, <1>2, <1>3, <1>4, <1>5, <1>6, RowStep

LEMMA SettleStep ==
  ASSUME DivInv, NEW h \in Handlers, Settle(h) \/ SettleUnheard(h)
  PROVE  DivInv'
<1>1. handler[h].step = "settle" /\ UNCHANGED <<game, runs, told>>
  BY DEF Settle, SettleUnheard, At
<1>2. CASE SettleUnheard(h) \/ Settles(handler[h].d)
  BY <1>1, <1>2, Settling DEF Settle, SettleUnheard
<1>3. CASE Settle(h) /\ ~Settles(handler[h].d)
  <2>1. PICK t \in Task : t = handler[h] /\ Fits(h, t)
    BY <1>1, InFlight
  <2>. DEFINE step == IF Committed(t.d) THEN "finish" ELSE "settle_failure"
  <2>2. UNCHANGED request /\ To(h, step)
    BY <1>3, <2>1 DEF Settle
  <2>3. /\ step \in {"finish", "settle_failure"}
        /\ step = "finish" => request[t.d].attached /\ request[t.d].status = "succeeded"
    BY DEF Committed
  <2>. HIDE DEF step
  <2>4. step \in Steps /\ step \notin Before /\ h \notin Polls /\ t.mine /\ request[t.d].attached
    BY <1>1, <2>1, <2>3 DEF Steps, PollSteps, Before, Fits
  <2>5. Fits(h, [t EXCEPT !.step = step])
    BY <1>1, <2>1, <2>3, <2>4, ToFits
  <2>. QED
    BY <1>1, <2>1, <2>2, <2>4, <2>5, OnStep
<1>. QED
  BY <1>2, <1>3

LEMMA SettleFailureStep ==
  ASSUME DivInv, NEW h \in Handlers, SettleFailure(h)
  PROVE  DivInv'
<1>1. handler[h].step = "settle_failure" /\ UNCHANGED <<game, runs, told>>
  BY DEF SettleFailure, At
<1>2. PICK t \in Task : /\ t = handler[h] /\ Fits(h, t) /\ t.d \in Divisions
                        /\ request[t.d] \in Row
  BY <1>1, InFlight
<1>3. h \notin Polls /\ t.mine /\ request[t.d].attached
  BY <1>1, <1>2 DEF Fits, PollSteps
<1>4. CASE Settles(t.d)
  <2>1. PICK status \in Over : request' = [request EXCEPT ![t.d].status = status]
    BY <1>2, <1>4 DEF SettleFailure, Over
  <2>. DEFINE row == [request[t.d] EXCEPT !.status = status]
  <2>2. request' = [request EXCEPT ![t.d] = row] /\ To(h, "fail")
    BY <1>2, <1>4, <2>1 DEF SettleFailure, DivInv, Typed
  <2>3. row \in Row /\ row.status = status /\ row.attached = request[t.d].attached
    BY <1>2 DEF Row, Statuses, Over
  <2>. HIDE DEF row
  <2>4. RowMoves(t.d, row) /\ row.status \notin Live /\ row.status \notin {"in_progress", "succeeded"}
    BY <1>4, <2>3 DEF RowMoves, Settles, Over, Live
  <2>. QED
    BY <1>1, <1>2, <1>3, <2>2, <2>3, <2>4, RowStep DEF Steps, PollSteps, Before
<1>5. CASE ~Settles(t.d)
  BY <1>1, <1>2, <1>5, DoneStep DEF SettleFailure
<1>. QED
  BY <1>4, <1>5

LEMMA AdoptStep ==
  ASSUME DivInv, NEW h \in Handlers, Adopt(h)
  PROVE  DivInv'
<1>1. handler[h].step = "adopt" /\ UNCHANGED <<game, runs, told>>
  BY DEF Adopt, At
<1>2. PICK t \in Task : /\ t = handler[h] /\ Fits(h, t) /\ t.d \in Divisions
                        /\ request[t.d] \in Row
  BY <1>1, InFlight
<1>. DEFINE row == [request[t.d] EXCEPT !.attached = TRUE]
<1>3. CASE Linked(t.d) \/ Adoptable(t.d)
  <2>1. request' = [request EXCEPT ![t.d] = row] /\ To(h, "find")
    BY <1>2, <1>3 DEF Adopt, Attached, DivInv, Typed
  <2>2. row \in Row /\ row.status = request[t.d].status /\ row.attached = TRUE
    BY <1>2 DEF Row
  <2>. HIDE DEF row
  <2>3. RowMoves(t.d, row)
    BY <1>1, <1>2, <2>2 DEF RowMoves, Fits
  <2>4. /\ row.status \in Live => Pending(t.d)
        /\ row.status \in {"in_progress", "succeeded"} => Paid(t.d)
        /\ ~t.mine /\ t.seen = "dividing"
    BY <1>1, <1>2, <2>2 DEF Pending, Paid, Fits
  <2>. QED
    BY <1>1, <1>2, <2>1, <2>2, <2>3, <2>4, RowStep DEF Steps, PollSteps, Before
<1>4. CASE ~(Linked(t.d) \/ Adoptable(t.d))
  BY <1>1, <1>2, <1>4, DoneStep DEF Adopt
<1>. QED
  BY <1>3, <1>4

LEMMA ReleaseStep ==
  ASSUME DivInv, NEW h \in Handlers, Release(h)
  PROVE  DivInv'
<1>1. handler[h].step = "release" /\ UNCHANGED <<game, runs, told>>
  BY DEF Release, At
<1>2. PICK t \in Task : /\ t = handler[h] /\ Fits(h, t) /\ t.d \in Divisions
                        /\ request[t.d] \in Row
  BY <1>1, InFlight
<1>3. h \notin Polls /\ t.mine /\ ~Paid(t.d) /\ request[t.d].status # "absent"
  BY <1>1, <1>2 DEF Fits, PollSteps, Before
<1>. DEFINE row == IF request[t.d].status = "reserved" /\ ~request[t.d].overdue
                   THEN [request[t.d] EXCEPT !.status = "failed"] ELSE request[t.d]
<1>4. request' = [request EXCEPT ![t.d] = row]
  BY <1>2 DEF Release, DivInv, Typed
<1>5. /\ row \in Row /\ row.attached = request[t.d].attached
      /\ \/ request[t.d].status = "reserved" /\ row.status = "failed"
         \/ row.status = request[t.d].status
  BY <1>2 DEF Row, Statuses
<1>. HIDE DEF row
<1>6. /\ RowMoves(t.d, row) /\ row.status \notin {"in_progress", "succeeded"}
      /\ row.status \in Live => Pending(t.d)
  BY <1>3, <1>5 DEF RowMoves, Paid, Pending, Over, Live
<1>7. CASE t.seen = "dividing"
  <2>1. To(h, "fail")
    <3>1. handler' = [handler EXCEPT ![h] = [t EXCEPT !.seen = t.seen, !.step = "fail"]]
      BY <1>2, <1>7 DEF Release, Saw
    <3>2. [t EXCEPT !.seen = t.seen, !.step = "fail"] = [t EXCEPT !.step = "fail"]
      BY DEF Task
    <3>. QED
      BY <1>2, <3>1, <3>2 DEF To
  <2>. QED
    BY <1>1, <1>2, <1>3, <1>4, <1>6, <2>1, RowStep DEF Steps, PollSteps, Before
<1>8. CASE t.seen # "dividing"
  <2>1. Done(h)
    BY <1>2, <1>8 DEF Release, Saw, Done
  <2>. QED
    BY <1>1, <1>2, <1>4, <1>6, <2>1, LastRowStep
<1>. QED
  BY <1>7, <1>8

-----------------------------------------------------------------------------
(* Sweeps.                                                                 *)

(* What a sweep leaves of a request.                                       *)
LEMMA Sweeping ==
  ASSUME DivInv
  PROVE  /\ Swept \in [Divisions -> Row]
         /\ \A d \in Divisions :
              /\ Swept[d].status = "absent" <=> request[d].status = "absent"
              /\ request[d].status = "succeeded" => Swept[d].status = "succeeded"
              /\ request[d].status \in Over => Swept[d].status \in Over
              /\ Swept[d].attached = request[d].attached
              /\ Swept[d].status \in Live => Pending(d)
              /\ Swept[d].status \in {"in_progress", "succeeded"} => Paid(d)
<1>. SUFFICES ASSUME NEW d \in Divisions
              PROVE  /\ Swept[d] \in Row
                     /\ Swept[d].status = "absent" <=> request[d].status = "absent"
                     /\ request[d].status = "succeeded" => Swept[d].status = "succeeded"
                     /\ request[d].status \in Over => Swept[d].status \in Over
                     /\ Swept[d].attached = request[d].attached
                     /\ Swept[d].status \in Live => Pending(d)
                     /\ Swept[d].status \in {"in_progress", "succeeded"} => Paid(d)
  BY DEF Swept
<1>1. PICK row \in Row : row = request[d]
  BY DEF DivInv, Typed
<1>2. CASE Pending(d) /\ request[d].overdue
  <2>. DEFINE new == [row EXCEPT !.status = IF @ = "reserved" THEN "failed" ELSE "indeterminate",
                                 !.overdue = FALSE]
  <2>1. Swept[d] = new
    BY <1>1, <1>2 DEF Swept
  <2>2. new \in Row /\ new.status \in Over /\ new.attached = row.attached
    BY DEF Row, Statuses, Over
  <2>. HIDE DEF new
  <2>. QED
    BY <1>1, <1>2, <2>1, <2>2 DEF Pending, Live, Over
<1>3. CASE ~(Pending(d) /\ request[d].overdue)
  <2>1. Swept[d] = row
    BY <1>1, <1>3 DEF Swept
  <2>. QED
    BY <1>1, <2>1 DEF Pending, Paid
<1>. QED
  BY <1>2, <1>3

(* One handler sweeps.                                                     *)
LEMMA SweepStep ==
  ASSUME DivInv, NEW h \in Handlers, NEW t \in Task, handler' = [handler EXCEPT ![h] = t],
         request' = Swept, UNCHANGED <<game, runs, told>>, Fits(h, t)',
         t.step # "idle" /\ t.mine => Owns(h, t.d)
  PROVE  DivInv'
<1>1. request' \in [Divisions -> Row] /\ RequestsMove
  BY Sweeping DEF RequestsMove
<1>2. \A d \in Divisions : (Pending(d)' => Pending(d)) /\ (Paid(d)' => Paid(d))
  BY Sweeping DEF Pending, Paid
<1>. QED
  BY <1>1, <1>2, RequestStep

LEMMA ExistingStep ==
  ASSUME DivInv, NEW h \in Divides, NEW d \in Divisions, Existing(h, d)
  PROVE  DivInv'
<1>. DEFINE t == [Idle EXCEPT !.step = "shell", !.d = d]
<1>1. /\ h \in Handlers /\ h \notin Polls
      /\ handler' = [handler EXCEPT ![h] = t] /\ request' = Swept
      /\ UNCHANGED <<game, runs, told>> /\ request[d].status # "absent"
  BY DivisionAssumption DEF Existing, Handlers
<1>2. /\ t \in Task /\ t.step = "shell" /\ t.d = d /\ t.mine = FALSE /\ t.seen = "absent"
  BY DEF Idle, Task, Steps, Before, Stages
<1>. HIDE DEF t
<1>3. request'[d].status # "absent"
  BY <1>1, Sweeping
<1>4. Fits(h, t)'
  BY <1>1, <1>2, <1>3 DEF Fits, Agrees, Good
<1>. QED
  BY <1>1, <1>2, <1>4, SweepStep

LEMMA FindStep ==
  ASSUME DivInv, NEW h \in Handlers, Find(h)
  PROVE  DivInv'
<1>1. handler[h].step = "find" /\ request' = Swept /\ UNCHANGED <<game, runs, told>>
  BY DEF Find, At
<1>2. PICK t \in Task : t = handler[h] /\ Fits(h, t) /\ t.d \in Divisions
  BY <1>1, InFlight
<1>3. PICK d \in Divisions : d = t.d
  BY <1>2
<1>4. PICK step \in {"finish", "tell", "fail"} :
        /\ step = Verdict(Swept[d].status)
        /\ step = "finish" => Swept[d].status = "succeeded"
        /\ step = "fail" => Swept[d].status \notin Live \cup {"succeeded"}
  <2>1. CASE Swept[d].status = "succeeded"
    BY <2>1 DEF Verdict, Live
  <2>2. CASE Swept[d].status \in Live
    BY <2>2 DEF Verdict, Live
  <2>3. CASE Swept[d].status \notin Live \cup {"succeeded"}
    BY <2>3 DEF Verdict
  <2>. QED
    BY <2>1, <2>2, <2>3
<1>. DEFINE new == [t EXCEPT !.step = step]
<1>5. /\ new \in Task /\ new.step = step /\ new.mine = t.mine /\ new.d = d
      /\ new.seen = t.seen /\ new.cause = t.cause
  BY <1>3 DEF Task, Steps, PollSteps
<1>6. handler' = [handler EXCEPT ![h] = new]
  BY <1>2, <1>3, <1>4 DEF Find, To
<1>. HIDE DEF new
<1>7. /\ request[d].status # "absent" /\ request[d].attached /\ t.seen = "dividing" /\ ~t.mine
      /\ h \in Polls => t.cause = "none"
  BY <1>1, <1>2, <1>3 DEF Fits
<1>8. /\ request'[d].status # "absent" /\ request'[d].attached /\ request'[d].status \in Statuses
      /\ step = "finish" => request'[d].status = "succeeded"
      /\ step = "fail" => request'[d].status \in Over
  <2>1. Swept[d].status \in Statuses /\ Swept[d].status # "absent" /\ Swept[d].attached
    BY <1>7, Sweeping DEF Row
  <2>. QED
    BY <1>1, <1>4, <2>1 DEF Statuses, Live, Over
<1>9. Fits(h, new)'
  <2>1. Agrees(d, "dividing")'
    BY DEF Agrees, Good
  <2>. QED
    BY <1>4, <1>5, <1>7, <1>8, <2>1 DEF Fits, PollSteps, Before, Good
<1>. QED
  BY <1>1, <1>5, <1>6, <1>7, <1>9, SweepStep

(* A new key is nobody's yet, and its reservation is the account's only    *)
(* pending one.                                                            *)
LEMMA ReserveStep ==
  ASSUME DivInv, NEW h \in Divides, NEW d \in Divisions, Reserve(h, d)
  PROVE  DivInv'
<1>. DEFINE t == [Idle EXCEPT !.step = "shell", !.d = d, !.mine = TRUE]
            row == [Swept[d] EXCEPT !.status = "reserved"]
<1>1. /\ h \in Handlers /\ h \notin Polls /\ handler[h].step = "idle"
      /\ handler' = [handler EXCEPT ![h] = t]
      /\ request[d].status = "absent" /\ \A x \in Divisions : Swept[x].status \notin Live
      /\ game' = game /\ runs' = runs /\ told' = told
  BY DivisionAssumption DEF Reserve, Handlers, At
<1>2. /\ t \in Task /\ t.step = "shell" /\ t.d = d /\ t.mine = TRUE /\ t.seen = "absent"
  BY DEF Idle, Task, Steps, Before, Stages
<1>3. Swept \in [Divisions -> Row]
  BY Sweeping
<1>4. row \in Row /\ row.status = "reserved"
  BY <1>3 DEF Row, Statuses
<1>5. request' = [Swept EXCEPT ![d] = row]
  BY <1>3 DEF Reserve
<1>. HIDE DEF t, row
<1>6. /\ request' \in [Divisions -> Row] /\ request'[d].status = "reserved"
      /\ \A e \in Divisions \ {d} : request'[e] = Swept[e]
  BY <1>3, <1>4, <1>5
<1>7. /\ handler' \in [Handlers -> Task] /\ handler'[h] = t
      /\ \A x \in Handlers \ {h} : handler'[x] = handler[x]
  BY <1>1, <1>2 DEF DivInv, Typed
<1>8. Typed'
  BY <1>1, <1>6, <1>7 DEF DivInv, Typed
<1>9. RequestsMove
  <2>. SUFFICES ASSUME NEW e \in Divisions
                PROVE  /\ request[e].status # "absent" => request'[e].status # "absent"
                       /\ request[e].status = "succeeded" => request'[e].status = "succeeded"
                       /\ request[e].status \in Over => request'[e].status \in Over
                       /\ request[e].attached => request'[e].attached
    BY DEF RequestsMove
  <2>1. CASE e # d
    BY <1>6, <2>1, Sweeping
  <2>2. CASE e = d
    <3>1. row.attached = request[d].attached
      BY <1>3, Sweeping DEF row, Row
    <3>. QED
      BY <1>1, <1>3, <1>5, <2>2, <3>1 DEF Over
  <2>. QED
    BY <2>1, <2>2
<1>10. GamesMove
  BY <1>1 DEF GamesMove
<1>11. \A x \in Handlers : ~Owns(x, d)
  BY <1>1 DEF DivInv, HandlersFit, Fits, Owns
<1>12. \A x \in Handlers, e \in Divisions : Owns(x, e)' => Owns(x, e) \/ (x = h /\ e = d)
  BY <1>2, <1>7 DEF Owns
<1>13. OneOwner'
  <2>1. \A x \in Handlers : Owns(x, d)' => x = h
    BY <1>11, <1>12
  <2>. QED
    BY <1>12, <2>1 DEF DivInv, OneOwner
<1>14. OnePending'
  BY <1>1, <1>6 DEF OnePending, Pending
<1>15. GamesArePaid'
  BY <1>1, <1>9 DEF DivInv, GamesArePaid, RequestsMove
<1>16. Fits(h, handler[h])'
  <2>1. Fits(h, t)'
    BY <1>1, <1>2, <1>6 DEF Fits, Agrees, Good, Paid, Over
  <2>. QED
    BY <1>7, <2>1 DEF Fits
<1>17. \A e \in Divisions : Paid(e)' => Paid(e)
  <2>1. ASSUME NEW e \in Divisions, Paid(e)'
        PROVE  Paid(e)
    <3>1. e # d
      BY <1>6, <2>1 DEF Paid
    <3>. QED
      BY <1>6, <2>1, <3>1, Sweeping DEF Paid
  <2>. QED
    BY <2>1
<1>. QED
  BY <1>1, <1>7, <1>8, <1>9, <1>10, <1>13, <1>14, <1>15, <1>16, <1>17, Moves

(* A lease runs out, or the player starts.                                 *)
LEMMA WorldStep ==
  ASSUME DivInv, NEW d \in Divisions, Expire(d) \/ Start(d)
  PROVE  DivInv'
<1>1. handler' = handler /\ runs' = runs /\ told' = told
  BY DEF Expire, Start
<1>2. CASE Expire(d)
  <2>. DEFINE row == [request[d] EXCEPT !.overdue = TRUE]
  <2>1. /\ game' = game /\ request' = [request EXCEPT ![d] = row] /\ Pending(d)
        /\ request[d] \in Row
    BY <1>2 DEF Expire, DivInv, Typed
  <2>2. row \in Row /\ row.status = request[d].status /\ row.attached = request[d].attached
    BY <2>1 DEF Row
  <2>. HIDE DEF row
  <2>3. RowMoves(d, row)
    BY <2>1, <2>2 DEF RowMoves, Pending, Live
  <2>4. /\ request' \in [Divisions -> Row] /\ RequestsMove /\ request'[d] = row
        /\ \A e \in Divisions \ {d} : request'[e] = request[e]
    BY <2>1, <2>3, OneRow
  <2>5. \A e \in Divisions : request'[e].status = request[e].status
    BY <2>2, <2>4
  <2>6. Typed' /\ GamesMove
    BY <1>1, <2>1, <2>4 DEF DivInv, Typed, GamesMove
  <2>7. OnePending' /\ GamesArePaid'
    BY <2>1, <2>4, <2>5 DEF DivInv, OnePending, Pending, GamesArePaid, RequestsMove
  <2>8. OneOwner'
    BY <1>1 DEF DivInv, OneOwner, Owns
  <2>9. \A e \in Divisions : Paid(e)' => Paid(e)
    BY <2>5 DEF Paid
  <2>. QED
    BY <1>1, <2>4, <2>6, <2>7, <2>8, <2>9, Moves
<1>3. CASE Start(d)
  <2>1. /\ request' = request /\ game[d] = "mapped" /\ game' = [game EXCEPT ![d] = "playing"]
    BY <1>3 DEF Start
  <2>2. /\ game' \in [Divisions -> Stages] /\ game'[d] = "playing"
        /\ \A e \in Divisions \ {d} : game'[e] = game[e]
    BY <2>1 DEF DivInv, Typed, Stages
  <2>3. Typed' /\ GamesMove /\ RequestsMove
    BY <1>1, <2>1, <2>2 DEF DivInv, Typed, GamesMove, RequestsMove, Good
  <2>4. OnePending' /\ OneOwner'
    BY <1>1, <2>1 DEF DivInv, OnePending, Pending, OneOwner, Owns
  <2>5. GamesArePaid'
    BY <2>1, <2>2 DEF DivInv, GamesArePaid, Good
  <2>6. \A e \in Divisions : Paid(e)' => Paid(e)
    BY <2>1 DEF Paid
  <2>. QED
    BY <1>1, <2>3, <2>4, <2>5, <2>6, Moves
<1>. QED
  BY <1>2, <1>3

-----------------------------------------------------------------------------
(* Steps that write or look at the game.                                   *)

(* A handler takes what it saw of its game to step.                        *)
LEMMA SawStep ==
  ASSUME DivInv, NEW h \in Handlers, NEW t \in Task, t = handler[h], t.step # "idle",
         UNCHANGED <<request, runs, told>>,
         game' \in [Divisions -> Stages], GamesMove,
         \A e \in Divisions : e # t.d => game'[e] = game[e],
         game'[t.d] \in Good => request[t.d].status = "succeeded" /\ request[t.d].attached,
         NEW seen \in Stages, NEW step \in {"look", "attach", "ensure", "tell", "idle"},
         Saw(h, seen, step), Agrees(t.d, seen)',
         h \in Polls => step \in {"tell", "idle"},
         step \in {"look", "attach"} /\ t.mine => ~Paid(t.d),
         step = "tell" /\ h \in Divides => seen \notin Good,
         step = "ensure" => seen \in Good
  PROVE  DivInv'
<1>1. Fits(h, t) /\ t.d \in Divisions /\ (t.mine => Owns(h, t.d))
  BY InFlight
<1>2. PICK d \in Divisions : d = t.d
  BY <1>1
<1>3. request' = request /\ runs' = runs /\ told' = told
  OBVIOUS
<1>. DEFINE new == IF step = "idle" THEN Idle ELSE [t EXCEPT !.seen = seen, !.step = step]
<1>4. /\ new \in Task /\ new.step = step
      /\ step # "idle" =>
           new.mine = t.mine /\ new.d = d /\ new.seen = seen /\ new.cause = t.cause
  <2>1. CASE step = "idle"
    BY <2>1, IdleFits
  <2>2. CASE step # "idle"
    BY <1>2, <2>2 DEF Task, Steps, PollSteps, Before
  <2>. QED
    BY <2>1, <2>2
<1>5. handler' = [handler EXCEPT ![h] = new]
  BY DEF Saw
<1>. HIDE DEF new
<1>6. /\ handler' \in [Handlers -> Task] /\ handler'[h] = new
      /\ \A x \in Handlers \ {h} : handler'[x] = handler[x]
  BY <1>4, <1>5 DEF DivInv, Typed
<1>7. Fits(h, new)'
  <2>1. Paid(d)' <=> Paid(d)
    BY <1>3 DEF Paid
  <2>2. Agrees(d, seen)'
    BY <1>2
  <2>3. /\ request[d].status # "absent"
        /\ h \in Polls => ~t.mine /\ t.cause = "none"
    BY <1>1, <1>2 DEF Fits
  <2>. QED
    BY <1>2, <1>3, <1>4, <2>1, <2>2, <2>3 DEF Fits, PollSteps, Before
<1>8. Fits(h, handler[h])'
  BY <1>6, <1>7 DEF Fits
<1>9. Typed' /\ RequestsMove
  BY <1>3, <1>6 DEF DivInv, Typed, RequestsMove
<1>10. OnePending'
  BY <1>3 DEF DivInv, OnePending, Pending
<1>11. \A x \in Handlers, e \in Divisions : Owns(x, e)' => Owns(x, e)
  BY <1>1, <1>2, <1>4, <1>6 DEF Owns
<1>12. OneOwner'
  BY <1>11 DEF DivInv, OneOwner
<1>13. GamesArePaid'
  <2>1. \A e \in Divisions \ {d} :
          /\ game'[e] # "absent" => request[e].status # "absent"
          /\ game'[e] \in Good => request[e].status = "succeeded" /\ request[e].attached
    BY <1>2 DEF DivInv, GamesArePaid
  <2>2. request[d].status # "absent"
    BY <1>1, <1>2 DEF Fits
  <2>. QED
    BY <1>2, <1>3, <2>1, <2>2 DEF GamesArePaid
<1>14. \A e \in Divisions : Paid(e)' => Paid(e)
  BY <1>3 DEF Paid
<1>15. \A e \in runs' : e \in runs \/ game'[e] \in Good
  BY <1>3
<1>. QED
  BY <1>3, <1>6, <1>8, <1>9, <1>10, <1>12, <1>13, <1>14, <1>15, Moves

(* A game that was not decided yet is written.                             *)
LEMMA OneGame ==
  ASSUME DivInv, NEW d \in Divisions, NEW stage \in Stages,
         game[d] \notin Good \cup {"division_failed"}, game' = [game EXCEPT ![d] = stage]
  PROVE  /\ game' \in [Divisions -> Stages] /\ GamesMove /\ game'[d] = stage
         /\ \A e \in Divisions : e # d => game'[e] = game[e]
BY DEF DivInv, Typed, GamesMove

LEMMA NoGame ==
  ASSUME DivInv, game' = game
  PROVE  game' \in [Divisions -> Stages] /\ GamesMove
BY DEF DivInv, Typed, GamesMove

LEMMA ShellStep ==
  ASSUME DivInv, NEW h \in Handlers, Shell(h)
  PROVE  DivInv'
<1>1. handler[h].step = "shell" /\ UNCHANGED <<request, runs, told>>
  BY DEF Shell, At
<1>2. PICK t \in Task : /\ t = handler[h] /\ Fits(h, t) /\ t.d \in Divisions
                        /\ game[t.d] \in Stages
  BY <1>1, InFlight
<1>3. h \notin Polls /\ (t.mine => ~Paid(t.d))
  BY <1>1, <1>2 DEF Fits, PollSteps, Before
<1>4. PICK step \in {"look", "attach"} : step = IF t.d \in Remembering THEN "look" ELSE "attach"
  OBVIOUS
<1>5. CASE MakeShell(h, t.d)
  <2>1. game[t.d] = "absent" /\ game' = [game EXCEPT ![t.d] = "dividing"]
        /\ Saw(h, "dividing", step)
    BY <1>4, <1>5 DEF MakeShell
  <2>2. /\ game' \in [Divisions -> Stages] /\ GamesMove /\ game'[t.d] = "dividing"
        /\ \A e \in Divisions : e # t.d => game'[e] = game[e]
    BY <1>2, <2>1, OneGame DEF Stages, Good
  <2>3. Agrees(t.d, "dividing")'
    BY DEF Agrees, Good
  <2>. QED
    BY <1>1, <1>2, <1>3, <2>1, <2>2, <2>3, SawStep DEF Good, Stages
<1>6. CASE FindShell(h, t.d)
  <2>1. game' = game /\ Saw(h, game[t.d], step)
    BY <1>4, <1>6 DEF FindShell
  <2>2. PICK seen \in Stages : seen = game[t.d]
    BY <1>2
  <2>3. Agrees(t.d, seen)'
    BY <2>1, <2>2 DEF Agrees
  <2>4. game'[t.d] \in Good => request[t.d].status = "succeeded" /\ request[t.d].attached
    BY <1>2, <2>1 DEF DivInv, GamesArePaid
  <2>. QED
    BY <1>1, <1>2, <1>3, <2>1, <2>2, <2>3, <2>4, NoGame, SawStep
<1>7. CASE NoShell(h, t.d)
  BY <1>1, <1>3, <1>7, CaughtStep DEF NoShell, Before
<1>. QED
  BY <1>2, <1>5, <1>6, <1>7 DEF Shell

LEMMA FinishStep ==
  ASSUME DivInv, NEW h \in Handlers, Finish(h)
  PROVE  DivInv'
<1>1. handler[h].step = "finish" /\ UNCHANGED <<request, runs, told>>
  BY DEF Finish, At
<1>2. PICK t \in Task : /\ t = handler[h] /\ Fits(h, t) /\ t.d \in Divisions
                        /\ game[t.d] \in Stages
  BY <1>1, InFlight
<1>3. request[t.d].status = "succeeded" /\ request[t.d].attached
  BY <1>1, <1>2 DEF Fits
<1>4. ASSUME NEW seen \in Stages
      PROVE  /\ After(h, seen) \in {"ensure", "tell", "idle"}
             /\ h \in Polls => After(h, seen) = "tell"
             /\ After(h, seen) = "tell" /\ h \in Divides => seen \notin Good
             /\ After(h, seen) = "ensure" => seen \in Good
  <2>1. h \in Divides => h \notin Polls
    BY DivisionAssumption
  <2>2. t.mine \in BOOLEAN
    BY DEF Task
  <2>. QED
    BY <1>2, <2>1, <2>2 DEF After, Good
<1>5. CASE game[t.d] = "dividing" /\ game' = [game EXCEPT ![t.d] = "mapped"]
           /\ Saw(h, "mapped", After(h, "mapped"))
  <2>1. /\ game' \in [Divisions -> Stages] /\ GamesMove /\ game'[t.d] = "mapped"
        /\ \A e \in Divisions : e # t.d => game'[e] = game[e]
    BY <1>2, <1>5, OneGame DEF Stages, Good
  <2>2. Agrees(t.d, "mapped")'
    BY <2>1 DEF Agrees, Good
  <2>3. PICK step \in {"ensure", "tell", "idle"} : step = After(h, "mapped")
    BY <1>4 DEF Stages
  <2>. QED
    BY <1>1, <1>2, <1>3, <1>4, <1>5, <2>1, <2>2, <2>3, SawStep DEF Stages
<1>6. CASE game' = game /\ Saw(h, game[t.d], After(h, game[t.d]))
  <2>1. PICK seen \in Stages : seen = game[t.d]
    BY <1>2
  <2>2. Agrees(t.d, seen)'
    BY <1>6, <2>1 DEF Agrees
  <2>3. PICK step \in {"ensure", "tell", "idle"} : step = After(h, seen)
    BY <1>4
  <2>. QED
    BY <1>1, <1>2, <1>3, <1>4, <1>6, <2>1, <2>2, <2>3, NoGame, SawStep
<1>7. CASE game' = game /\ Done(h)
  BY <1>1, <1>7, DoneStep
<1>. QED
  BY <1>2, <1>5, <1>6, <1>7 DEF Finish, Held

LEMMA FailStep ==
  ASSUME DivInv, NEW h \in Handlers, Fail(h)
  PROVE  DivInv'
<1>1. handler[h].step = "fail" /\ UNCHANGED <<request, runs, told>>
  BY DEF Fail, At
<1>2. PICK t \in Task : /\ t = handler[h] /\ Fits(h, t) /\ t.d \in Divisions
                        /\ game[t.d] \in Stages
  BY <1>1, InFlight
<1>3. PICK next \in {"idle", "tell"} :
        next = IF t.mine \/ t.cause = "error" THEN "idle" ELSE "tell"
  OBVIOUS
<1>4. next = "tell" => game[t.d] \notin Good
  <2>1. next = "tell" => request[t.d].status \in Over
    BY <1>1, <1>2, <1>3 DEF Fits
  <2>. QED
    BY <1>2, <2>1 DEF DivInv, GamesArePaid, Over
<1>5. CASE game[t.d] = "dividing" /\ game' = [game EXCEPT ![t.d] = "division_failed"]
           /\ Saw(h, "division_failed", next)
  <2>1. /\ game' \in [Divisions -> Stages] /\ GamesMove /\ game'[t.d] = "division_failed"
        /\ \A e \in Divisions : e # t.d => game'[e] = game[e]
    BY <1>2, <1>5, OneGame DEF Stages, Good
  <2>2. Agrees(t.d, "division_failed")'
    BY <2>1 DEF Agrees, Good
  <2>. QED
    BY <1>1, <1>2, <1>5, <2>1, <2>2, SawStep DEF Stages, Good
<1>6. CASE game' = game /\ Saw(h, game[t.d], next)
  <2>1. PICK seen \in Stages : seen = game[t.d]
    BY <1>2
  <2>2. Agrees(t.d, seen)'
    BY <1>6, <2>1 DEF Agrees
  <2>3. game'[t.d] \in Good => request[t.d].status = "succeeded" /\ request[t.d].attached
    BY <1>2, <1>6 DEF DivInv, GamesArePaid
  <2>. QED
    BY <1>1, <1>2, <1>4, <1>6, <2>1, <2>2, <2>3, NoGame, SawStep
<1>7. CASE game' = game /\ Done(h)
  BY <1>1, <1>7, DoneStep
<1>. QED
  BY <1>2, <1>3, <1>5, <1>6, <1>7 DEF Fail, Held

LEMMA PollStep ==
  ASSUME DivInv, NEW h \in Polls, NEW d \in Divisions, Poll(h, d)
  PROVE  DivInv'
<1>. DEFINE t == [Idle EXCEPT !.step = "observe", !.d = d, !.seen = game[d]]
<1>1. /\ h \in Handlers /\ h \notin Divides /\ game[d] # "absent" /\ game[d] \in Stages
      /\ handler' = [handler EXCEPT ![h] = t] /\ UNCHANGED <<request, game, runs, told>>
  BY DivisionAssumption DEF Poll, Handlers, DivInv, Typed
<1>2. /\ t \in Task /\ t.step = "observe" /\ t.d = d /\ t.mine = FALSE /\ t.seen = game[d]
      /\ t.cause = "none"
  BY <1>1 DEF Idle, Task, Steps, PollSteps, Stages
<1>. HIDE DEF t
<1>3. request[d].status # "absent"
  BY <1>1 DEF DivInv, GamesArePaid
<1>4. Fits(h, t)
  BY <1>2, <1>3 DEF Fits, Agrees, PollSteps
<1>. QED
  BY <1>1, <1>2, <1>4, ReadStep

-----------------------------------------------------------------------------
(* Answers.                                                                *)

(* A handler answers what it saw, and ends.                                *)
LEMMA AnswerStep ==
  ASSUME DivInv, NEW h \in Handlers, handler[h].step \in {"ensure", "tell"},
         Tells(h, handler[h].seen), Done(h), UNCHANGED <<request, game>>,
         \/ handler[h].step = "ensure" /\ runs' = runs \cup {handler[h].d}
         \/ handler[h].step = "tell" /\ runs' = runs
  PROVE  DivInv'
<1>1. PICK t \in Task : t = handler[h] /\ Fits(h, t) /\ t.d \in Divisions
  BY InFlight
<1>2. /\ handler' \in [Handlers -> Task] /\ handler'[h] = Idle
      /\ \A x \in Handlers \ {h} : handler'[x] = handler[x]
  BY IdleFits DEF Done, DivInv, Typed
<1>3. request' = request /\ game' = game
  OBVIOUS
<1>4. PICK duplicate \in BOOLEAN : duplicate = (h \in Divides)
  <2>1. (h \in Divides) \in BOOLEAN
    OBVIOUS
  <2>. QED
    BY <2>1
<1>5. told' = told \/ told' = told \cup {<<t.d, duplicate, t.seen>>}
  BY <1>1, <1>4 DEF Tells
<1>6. t.seen \in Stages
  BY DEF Task
<1>7. told' \subseteq Divisions \X BOOLEAN \X Stages
  BY <1>1, <1>5, <1>6 DEF DivInv, Typed
<1>8. runs' \subseteq Divisions /\ runs \subseteq runs'
  BY <1>1 DEF DivInv, Typed
<1>9. Typed'
  BY <1>2, <1>3, <1>7, <1>8 DEF DivInv, Typed
<1>10. Agrees(t.d, t.seen)'
  BY <1>1, <1>3 DEF Fits, Agrees
<1>11. duplicate /\ t.seen = "mapped" => t.d \in runs'
  BY <1>1, <1>4 DEF Fits, Good
<1>12. \A d \in Divisions, x \in BOOLEAN, seen \in Stages : <<d, x, seen>> \in told' =>
         \/ <<d, x, seen>> \in told
         \/ Agrees(d, seen)' /\ (x /\ seen = "mapped" => d \in runs')
  <2>. SUFFICES ASSUME NEW d \in Divisions, NEW x \in BOOLEAN, NEW seen \in Stages,
                       <<d, x, seen>> \in told', <<d, x, seen>> \notin told
                PROVE  Agrees(d, seen)' /\ (x /\ seen = "mapped" => d \in runs')
    OBVIOUS
  <2>1. <<d, x, seen>> = <<t.d, duplicate, t.seen>>
    BY <1>5
  <2>2. d = t.d /\ x = duplicate /\ seen = t.seen
    BY <2>1
  <2>. QED
    BY <1>10, <1>11, <2>2
<1>13. \A d \in runs' : d \in runs \/ game'[d] \in Good
  BY <1>1, <1>3 DEF Fits, Agrees
<1>14. /\ RequestsMove /\ GamesMove /\ OnePending' /\ GamesArePaid'
  BY <1>3 DEF DivInv, RequestsMove, GamesMove, OnePending, Pending, GamesArePaid
<1>15. OneOwner'
  BY <1>2, IdleFits DEF DivInv, OneOwner, Owns
<1>16. Fits(h, handler[h])'
  BY <1>2, IdleFits DEF Fits
<1>17. \A e \in Divisions : Paid(e)' => Paid(e)
  BY <1>3 DEF Paid
<1>. QED
  BY <1>2, <1>8, <1>9, <1>12, <1>13, <1>14, <1>15, <1>16, <1>17, Moves

-----------------------------------------------------------------------------
(* Every step.                                                             *)

LEMMA DivInit == Init => DivInv
<1>. SUFFICES ASSUME Init
              PROVE  DivInv
  OBVIOUS
<1>1. Typed
  BY IdleFits DEF Init, Typed, Row, Statuses, Stages
<1>2. HandlersFit
  BY IdleFits DEF Init, HandlersFit
<1>3. OneOwner
  BY IdleFits DEF Init, OneOwner, Owns
<1>4. OnePending /\ GamesArePaid
  BY DEF Init, OnePending, Pending, Live, GamesArePaid, Good
<1>5. Told
  BY DEF Init, Told
<1>. QED
  BY <1>1, <1>2, <1>3, <1>4, <1>5 DEF DivInv

LEMMA RouteStep ==
  ASSUME DivInv, NEW h \in Handlers, Route(h)
  PROVE  DivInv'
<1>1. CASE Shell(h) \/ Look(h) \/ Link(h) \/ Attach(h) \/ Begin(h) \/ Generate(h)
  BY <1>1, ShellStep, LookStep, LinkStep, AttachStep, BeginStep, GenerateStep
<1>2. CASE Settle(h) \/ SettleFailure(h) \/ Finish(h) \/ Release(h) \/ Fail(h)
  BY <1>2, SettleStep, SettleFailureStep, FinishStep, ReleaseStep, FailStep
<1>3. CASE Observe(h) \/ Adopt(h) \/ Find(h)
  BY <1>3, ObserveStep, AdoptStep, FindStep
<1>4. CASE Ensure(h) \/ Tell(h)
  BY <1>4, AnswerStep DEF Ensure, Tell, At
<1>. QED
  BY <1>1, <1>2, <1>3, <1>4 DEF Route

LEMMA DivStep == DivInv /\ [Next]_divisionVars => DivInv'
<1>. SUFFICES ASSUME DivInv, [Next]_divisionVars
              PROVE  DivInv'
  OBVIOUS
<1>1. ASSUME NEW h \in Divides, NEW d \in Divisions, Reserve(h, d) \/ Existing(h, d)
      PROVE  DivInv'
  BY <1>1, ReserveStep, ExistingStep
<1>2. ASSUME NEW h \in Polls, NEW d \in Divisions, Poll(h, d)
      PROVE  DivInv'
  BY <1>2, PollStep
<1>3. ASSUME NEW h \in Handlers, Route(h)
      PROVE  DivInv'
  BY <1>3, RouteStep
<1>4. ASSUME NEW h \in Divides, SettleUnheard(h)
      PROVE  DivInv'
  BY <1>4, SettleStep DEF Handlers
<1>5. ASSUME NEW h \in Divides, Throw(h)
      PROVE  DivInv'
  <2>1. h \in Handlers /\ h \notin Polls
    BY DivisionAssumption DEF Handlers
  <2>2. /\ \/ handler[h].step \in {"shell", "look", "attach", "begin", "observe", "find"}
           \/ handler[h].step \in {"finish", "fail"} /\ ~handler[h].mine
        /\ Caught(h) /\ UNCHANGED <<request, game, runs, told>>
    BY <1>5 DEF Throw
  <2>3. handler[h].mine => handler[h].step \in Before
    BY <2>1, <2>2 DEF DivInv, HandlersFit, Fits, Before
  <2>. QED
    BY <2>1, <2>2, <2>3, CaughtStep
<1>6. ASSUME NEW h \in Handlers, Crash(h)
      PROVE  DivInv'
  BY <1>6, DoneStep DEF Crash
<1>7. ASSUME NEW d \in Divisions, Expire(d) \/ Start(d)
      PROVE  DivInv'
  BY <1>7, WorldStep
<1>8. CASE UNCHANGED divisionVars
  <2>1. request' = request /\ game' = game /\ handler' = handler /\ runs' = runs /\ told' = told
    BY <1>8 DEF divisionVars
  <2>2. Typed' /\ RequestsMove /\ GamesMove /\ OnePending' /\ GamesArePaid' /\ OneOwner'
    BY <2>1 DEF DivInv, Typed, RequestsMove, GamesMove, OnePending, Pending, GamesArePaid,
                OneOwner, Owns
  <2>3. \A e \in Divisions : Paid(e)' => Paid(e)
    BY <2>1 DEF Paid
  <2>. QED
    BY <2>1, <2>2, <2>3, Moves
<1>. QED
  BY <1>1, <1>2, <1>3, <1>4, <1>5, <1>6, <1>7, <1>8 DEF Next

(* The inductive invariant holds of every behaviour.                       *)
THEOREM DivisionsInvariant == Spec => []DivInv
<1>1. Init => DivInv
  BY DivInit
<1>2. DivInv /\ [Next]_divisionVars => DivInv'
  BY DivStep
<1>. QED
  BY <1>1, <1>2, PTL DEF Spec

-----------------------------------------------------------------------------
(* What the runs check.                                                    *)

(* A field exists only where a linked request paid for it and a run only   *)
(* where a field exists; an account has one live request at most; and the  *)
(* answers given for one division, by calls, duplicates and polls, never   *)
(* contradict each other.                                                  *)
THEOREM DivisionsAlwaysAccounted == Spec => []DivisionsAreAccounted
<1>1. ASSUME DivInv
      PROVE  DivisionsAreAccounted
  <2>1. ASSUME NEW d \in Divisions
        PROVE  /\ game[d] \in Good => request[d].status = "succeeded" /\ request[d].attached
               /\ d \in runs => game[d] \in Good
               /\ <<d, TRUE, "mapped">> \in told => d \in runs
               /\ \A x, y \in BOOLEAN : \A good \in Good :
                    ~ {<<d, x, "division_failed">>, <<d, y, good>>} \subseteq told
    <3>1. /\ game[d] \in Good => request[d].status = "succeeded" /\ request[d].attached
          /\ d \in runs => game[d] \in Good
      BY <1>1 DEF DivInv, GamesArePaid, Told
    <3>2. \A x \in BOOLEAN, seen \in Stages : <<d, x, seen>> \in told =>
            Agrees(d, seen) /\ (x /\ seen = "mapped" => d \in runs)
      BY <1>1 DEF DivInv, Told
    <3>3. <<d, TRUE, "mapped">> \in told => d \in runs
      BY <3>2 DEF Stages
    <3>4. ASSUME NEW x \in BOOLEAN, NEW y \in BOOLEAN, NEW good \in Good,
                 <<d, x, "division_failed">> \in told, <<d, y, good>> \in told
          PROVE  FALSE
      <4>1. Agrees(d, "division_failed") /\ Agrees(d, good)
        BY <3>2, <3>4 DEF Stages, Good
      <4>. QED
        BY <4>1 DEF Agrees, Good
    <3>. QED
      BY <3>1, <3>3, <3>4
  <2>2. Cardinality({d \in Divisions : Pending(d)}) <= 1
    <3>1. CASE {d \in Divisions : Pending(d)} = {}
      BY <3>1, FS_EmptySet
    <3>2. CASE {d \in Divisions : Pending(d)} # {}
      <4>1. PICK d \in Divisions : Pending(d)
        BY <3>2
      <4>2. {e \in Divisions : Pending(e)} = {d}
        BY <1>1, <4>1 DEF DivInv, OnePending
      <4>. QED
        BY <4>2, FS_Singleton
    <3>. QED
      BY <3>1, <3>2
  <2>. QED
    BY <2>1, <2>2 DEF DivisionsAreAccounted, Good
<1>. QED
  BY <1>1, DivisionsInvariant, PTL

(* A division the provider has been called for is failed by nothing but    *)
(* the error path of a duplicate divide.                                   *)
THEOREM NothingElseAbandons == Spec => OnlyDuplicatesAbandon
<1>1. ASSUME DivInv, [Next]_divisionVars, NEW d \in Divisions,
             game[d] = "dividing", game'[d] = "division_failed", Paid(d)
      PROVE  \E h \in Divides : /\ At(h, "fail")
                                /\ handler[h].d = d
                                /\ ~handler[h].mine
                                /\ handler[h].cause = "error"
  <2>1. PICK h \in Handlers : Fail(h)
    <3>1. game' # game
      BY <1>1
    <3>2. ASSUME NEW h \in Handlers, Finish(h)
          PROVE  FALSE
      BY <1>1, <3>2 DEF Finish, DivInv, Typed
    <3>3. ASSUME NEW h \in Handlers, Shell(h)
          PROVE  FALSE
      BY <1>1, <3>3 DEF Shell, MakeShell, FindShell, NoShell, DivInv, Typed
    <3>4. ASSUME NEW e \in Divisions, Start(e)
          PROVE  FALSE
      BY <1>1, <3>4 DEF Start, DivInv, Typed
    <3>. QED
      BY <1>1, <3>1, <3>2, <3>3, <3>4 DEF Next, divisionVars, Route, Reserve, Existing, Poll,
         Look, Link, Attach, Begin, Generate, Settle, SettleFailure, Release, Ensure, Tell,
         Observe, Adopt, Find, SettleUnheard, Throw, Crash, Expire
  <2>2. PICK t \in Task : t = handler[h] /\ t.step = "fail" /\ Fits(h, t)
    BY <1>1, <2>1, InFlight DEF Fail, At
  <2>3. t.d = d
    BY <1>1, <2>1, <2>2 DEF Fail, DivInv, Typed
  <2>4. ~t.mine /\ t.cause = "error"
    BY <1>1, <2>2, <2>3 DEF Fits, Paid, Before, Over
  <2>5. h \in Divides
    BY <2>2, <2>4 DEF Fits, Handlers
  <2>. QED
    BY <2>2, <2>3, <2>4, <2>5 DEF At
<1>2. DivInv /\ [Next]_divisionVars =>
        \A d \in Divisions :
          game[d] = "dividing" /\ game'[d] = "division_failed" /\ Paid(d) =>
            \E h \in Divides : /\ At(h, "fail")
                               /\ handler[h].d = d
                               /\ ~handler[h].mine
                               /\ handler[h].cause = "error"
  BY <1>1
<1>. QED
  BY <1>2, DivisionsInvariant, PTL DEF Spec, OnlyDuplicatesAbandon
=============================================================================
