-------------------------- MODULE AnswerRouteProofs --------------------------
(***************************************************************************)
(* The answer route for any number of invocations, keys, requests and      *)
(* games: what a game holds was won, what was given back was never sent,   *)
(* and nothing is called once a success is committed.  The argument is     *)
(* that requests only move forward, and that the invocation which reserved *)
(* a request is the only one to spend or to return it.                     *)
(***************************************************************************)
EXTENDS AnswerRoute, TLAPS

-----------------------------------------------------------------------------
(* The inductive invariant.                                                *)

Typed ==
  /\ game \in [GameIds -> Games!Row \cup {None}] /\ game[Game] \in Games!Row
  /\ ledger \in [Requests -> Request]
  /\ route \in [Routes -> Invocation \cup {Idle}]
  /\ flying \subseteq Requests /\ called \subseteq Requests /\ refunded \subseteq Requests
  /\ crashes \in 0..MaxCrashes

(* Where an invocation goes on with a request it reserved itself, until it *)
(* knows how that ended; in Opening it has not called the provider yet.    *)
Calling == {"begin", "call", "fence", "wait", "settle"}
Owning == Calling \cup {"settling", "caught", "refused", "unsettled", "undo", "giveback"}
Opening == {"check", "drop", "reread", "reserve", "begin"}
Winning == {"attach", "store", "rejoin"}

(* What the copy t of an invocation says of the ledger.                    *)
Fits(t) ==
  t.step # "idle" =>
    /\ ~t.get => t.key \in Keys
    /\ t.step \in {"reread", "reserve"} => ~t.get
    /\ t.step \in Opening => ~t.started /\ t.turn = 0
    /\ t.step \in {"call", "fence"} => t.turn <= 1
    /\ t.step \in {"undo", "giveback"} => ~t.started
    /\ t.step \in Winning => t.req \in Succeeded
    /\ t.step \in Owning \cup {"existing"} => t.req \in Requests /\ Stored(t.req)
    /\ t.step \in Owning /\ ~t.started => t.req \notin called
    /\ t.step \in Calling => t.req \notin flying
    /\ t.step = "fence" =>
         /\ LedgerStatus(t.req) # "reserved" /\ t.req \notin refunded
         /\ ledger[t.req].late \/ LedgerStatus(t.req) \in Live

RoutesFit == \A h \in Routes : Fits(route[h])

(* The invocation h reserved the request r and has not done with it.       *)
Owns(h, r) == Step(h) \in Owning /\ Req(h) = r

OneOwner == \A h, x \in Routes, r \in Requests : Owns(h, r) /\ Owns(x, r) => h = x

Books ==
  /\ \A r \in called \cup refunded \cup flying : Stored(r)
  /\ \A r \in refunded : LedgerStatus(r) = "failed"
  /\ \A r \in called : LedgerStatus(r) # "reserved"

(* A game has one request that lives or succeeded, at most.                *)
OneChance == \A r, q \in LiveRequests \cup Succeeded : r \in LiveRequests => r = q

AnsInv ==
  /\ Typed /\ RoutesFit /\ OneOwner /\ Books /\ OneChance
  /\ AnswersAreWinners /\ RefundsNotDispatched

-----------------------------------------------------------------------------
(* What steps leave of the ledger, and of an invocation's copy.            *)

(* Requests only move forward.                                             *)
LedgerMoves ==
  \A r \in Requests : Stored(r) =>
    /\ Stored(r)'
    /\ LedgerStatus(r) \in {"succeeded", "failed"} => ledger'[r].status = ledger[r].status
    /\ LedgerStatus(r) # "reserved" => ledger'[r].status # "reserved"
    /\ ledger[r].late => ledger'[r].late

(* Nobody but the ledger's clock touches the request r.                    *)
Quiet(r) ==
  /\ r \in flying' => r \in flying
  /\ r \in called' => r \in called
  /\ r \in refunded' => r \in refunded \/ LedgerStatus(r) = "reserved"
  /\ r \notin flying /\ LedgerStatus(r) \in Live => ledger'[r].late \/ ledger'[r].status \in Live

(* A request that is stored has an entry.                                  *)
LEMMA StoredEntry ==
  ASSUME Typed, NEW r \in Requests, Stored(r)
  PROVE  /\ ledger[r] \in Entry /\ ledger[r] # None
         /\ LedgerStatus(r) \in Live \cup Failed \cup {"succeeded"}
BY DEF Typed, Request, Stored, Entry, LedgerStatus

(* A copy fits on while its request is left alone.                         *)
LEMMA CopyKept ==
  ASSUME LedgerMoves, NEW t \in Invocation \cup {Idle}, Fits(t), t.step \in Owning => Quiet(t.req)
  PROVE  Fits(t)'
<1>. SUFFICES ASSUME t.step # "idle"
              PROVE  Fits(t)'
  BY DEF Fits
<1>1. t.step \in Winning => (t.req \in Succeeded)'
  BY DEF Fits, Succeeded, LedgerMoves, LedgerStatus
<1>2. t.step \in Owning \cup {"existing"} => t.req \in Requests /\ Stored(t.req)'
  BY DEF Fits, LedgerMoves
<1>3. t.step \in Owning /\ ~t.started => t.req \notin called'
  BY DEF Fits, Quiet
<1>4. t.step \in Calling => t.req \notin flying'
  BY DEF Fits, Quiet, Owning
<1>5. t.step = "fence" =>
         /\ LedgerStatus(t.req)' # "reserved" /\ t.req \notin refunded'
         /\ ledger'[t.req].late \/ LedgerStatus(t.req)' \in Live
  BY <1>2 DEF Fits, Quiet, Owning, Calling, LedgerMoves, LedgerStatus
<1>. QED
  BY <1>1, <1>2, <1>3, <1>4, <1>5 DEF Fits

(* The shape of every step: requests move forward, invocations have copies *)
(* that fit, or keep them and have their requests left alone.              *)
LEMMA Moves ==
  ASSUME AnsInv, Typed', LedgerMoves, OneOwner', Books', OneChance', AnswersAreWinners',
         RefundsNotDispatched',
         \A x \in Routes :
           \/ Fits(route[x])'
           \/ route'[x] = route[x] /\ \A r \in Requests : Owns(x, r) => Quiet(r)
  PROVE  AnsInv'
<1>1. ASSUME NEW x \in Routes, route'[x] = route[x],
             \A r \in Requests : Owns(x, r) => Quiet(r)
      PROVE  Fits(route[x])'
  <2>1. PICK t \in Invocation \cup {Idle} : t = route[x]
    BY DEF AnsInv, Typed
  <2>2. Fits(t)
    BY <2>1 DEF AnsInv, RoutesFit
  <2>3. t.step \in Owning => Quiet(t.req)
    BY <1>1, <2>1, <2>2 DEF Owns, Step, Req, Fits, Owning, Calling
  <2>4. Fits(t)'
    BY <2>2, <2>3, CopyKept
  <2>. QED
    BY <1>1, <2>1, <2>4
<1>2. RoutesFit'
  BY <1>1 DEF RoutesFit
<1>. QED
  BY <1>2 DEF AnsInv

(* One invocation acts, on its copy and on the games at most.              *)
LEMMA GamesStep ==
  ASSUME AnsInv, NEW h \in Routes, NEW t \in Invocation \cup {Idle},
         route' = [route EXCEPT ![h] = t], Fits(t), t.step \in Owning => Owns(h, t.req),
         game' \in [GameIds -> Games!Row \cup {None}], game'[Game] \in Games!Row,
         game'[Game].answer = game[Game].answer \/ game'[Game].answer \in Succeeded,
         UNCHANGED <<ledger, flying, called, refunded>>, crashes' \in 0..MaxCrashes
  PROVE  AnsInv'
<1>1. ledger' = ledger /\ flying' = flying /\ called' = called /\ refunded' = refunded
  OBVIOUS
<1>2. /\ route' \in [Routes -> Invocation \cup {Idle}] /\ route'[h] = t
      /\ \A x \in Routes \ {h} : route'[x] = route[x]
  BY DEF AnsInv, Typed
<1>3. Typed'
  BY <1>1, <1>2 DEF AnsInv, Typed
<1>4. LedgerMoves
  BY <1>1 DEF LedgerMoves, Stored, LedgerStatus
<1>5. \A x \in Routes, r \in Requests : Owns(x, r)' => Owns(x, r)
  BY <1>2 DEF Owns, Step, Req
<1>6. OneOwner'
  BY <1>5 DEF AnsInv, OneOwner
<1>7. Succeeded' = Succeeded /\ LiveRequests' = LiveRequests
  BY <1>1 DEF Succeeded, LiveRequests, Stored, LedgerStatus
<1>8. Books' /\ OneChance' /\ RefundsNotDispatched'
  BY <1>1, <1>7 DEF AnsInv, Books, OneChance, RefundsNotDispatched, Stored, LedgerStatus
<1>9. AnswersAreWinners'
  BY <1>7 DEF AnsInv, AnswersAreWinners
<1>10. Fits(t)'
  BY <1>1 DEF Fits, Succeeded, Stored, LedgerStatus
<1>11. Fits(route[h])'
  BY <1>2, <1>10
<1>12. \A r \in Requests : Quiet(r)
  BY <1>1 DEF Quiet, LedgerStatus
<1>. QED
  BY <1>2, <1>3, <1>4, <1>6, <1>8, <1>9, <1>11, <1>12, Moves

(* One invocation acts, on its copy alone.                                 *)
LEMMA ReadStep ==
  ASSUME AnsInv, NEW h \in Routes, NEW t \in Invocation \cup {Idle},
         route' = [route EXCEPT ![h] = t], Fits(t), t.step \in Owning => Owns(h, t.req),
         KeepRows, KeepLedger, KeepCalls
  PROVE  AnsInv'
<1>1. UNCHANGED <<game, ledger, flying, called, refunded, crashes>>
  BY DEF KeepRows, KeepLedger, KeepCalls, rows
<1>2. /\ game' \in [GameIds -> Games!Row \cup {None}] /\ game'[Game] \in Games!Row
      /\ game'[Game].answer = game[Game].answer /\ crashes' \in 0..MaxCrashes
  BY <1>1 DEF AnsInv, Typed
<1>. QED
  BY <1>1, <1>2, GamesStep

(* One request is written, by its owner or by the ledger.                  *)
LEMMA RequestStep ==
  ASSUME AnsInv, NEW r \in Requests, Stored(r), NEW e \in Entry,
         ledger' = [ledger EXCEPT ![r] = e], KeepRows,
         LedgerStatus(r) \in {"succeeded", "failed"} => e.status = LedgerStatus(r),
         LedgerStatus(r) # "reserved" => e.status # "reserved",
         ledger[r].late => e.late,
         e.status \in Live => LedgerStatus(r) \in Live,
         e.status = "succeeded" => LedgerStatus(r) \in Live \cup {"succeeded"},
         route' \in [Routes -> Invocation \cup {Idle}], crashes' \in 0..MaxCrashes,
         flying' \subseteq flying \cup {r}, called' \subseteq called \cup {r},
         refunded' \subseteq refunded \cup {r},
         r \in refunded' => e.status = "failed" /\ r \notin called',
         r \in called' => e.status # "reserved",
         OneOwner',
         \A x \in Routes :
           \/ Fits(route[x])'
           \/ route'[x] = route[x] /\ (Owns(x, r) => Quiet(r))
  PROVE  AnsInv'
<1>1. game' = game
  BY DEF KeepRows, rows
<1>2. e # None /\ ledger[r] \in Entry /\ ledger[r] # None
  BY RouteAssumption, StoredEntry DEF AnsInv
<1>3. /\ ledger' \in [Requests -> Request] /\ ledger'[r] = e
      /\ \A q \in Requests \ {r} : ledger'[q] = ledger[q]
  BY DEF AnsInv, Typed, Request
<1>4. Typed'
  BY <1>1, <1>3 DEF AnsInv, Typed
<1>5. LedgerMoves
  BY <1>2, <1>3 DEF LedgerMoves, Stored, LedgerStatus
<1>6. Books'
  <2>1. \A q \in called' \cup refunded' \cup flying' : q \in Requests /\ Stored(q)'
    BY <1>2, <1>3 DEF AnsInv, Typed, Books, Stored
  <2>2. \A q \in refunded' : LedgerStatus(q)' = "failed"
    BY <1>3, <2>1 DEF AnsInv, Books, LedgerStatus
  <2>3. \A q \in called' : LedgerStatus(q)' # "reserved"
    BY <1>3, <2>1 DEF AnsInv, Books, LedgerStatus
  <2>. QED
    BY <2>1, <2>2, <2>3 DEF Books
<1>7. /\ LiveRequests' \subseteq LiveRequests
      /\ Succeeded' \subseteq Succeeded \cup LiveRequests
      /\ Succeeded \subseteq Succeeded'
      /\ \A q \in Succeeded' : q \notin LiveRequests'
  BY <1>2, <1>3 DEF LiveRequests, Succeeded, Stored, LedgerStatus, Live
<1>8. OneChance'
  BY <1>7 DEF AnsInv, OneChance
<1>9. AnswersAreWinners'
  BY <1>1, <1>7 DEF AnsInv, AnswersAreWinners
<1>10. RefundsNotDispatched'
  <2>1. \A q \in refunded' : q \notin called'
    BY DEF AnsInv, RefundsNotDispatched
  <2>. QED
    BY <2>1 DEF RefundsNotDispatched
<1>11. \A q \in Requests \ {r} : Quiet(q)
  BY <1>3 DEF Quiet, LedgerStatus
<1>12. \A x \in Routes :
         \/ Fits(route[x])'
         \/ route'[x] = route[x] /\ \A q \in Requests : Owns(x, q) => Quiet(q)
  BY <1>11
<1>. QED
  BY <1>4, <1>5, <1>6, <1>8, <1>9, <1>10, <1>12, Moves

(* It is written by its owner.                                             *)
LEMMA OwnerStep ==
  ASSUME AnsInv, NEW h \in Routes, NEW r \in Requests, Owns(h, r), Stored(r), NEW e \in Entry,
         ledger' = [ledger EXCEPT ![r] = e], KeepRows,
         LedgerStatus(r) \in {"succeeded", "failed"} => e.status = LedgerStatus(r),
         LedgerStatus(r) # "reserved" => e.status # "reserved",
         ledger[r].late => e.late,
         e.status \in Live => LedgerStatus(r) \in Live,
         e.status = "succeeded" => LedgerStatus(r) \in Live \cup {"succeeded"},
         NEW t \in Invocation \cup {Idle}, route' = [route EXCEPT ![h] = t], crashes' = crashes,
         t.step \in Owning => t.req = r, Fits(t)',
         flying' \subseteq flying \cup {r}, called' \subseteq called \cup {r},
         refunded' \subseteq refunded \cup {r},
         r \in refunded' => e.status = "failed" /\ r \notin called',
         r \in called' => e.status # "reserved"
  PROVE  AnsInv'
<1>1. /\ route' \in [Routes -> Invocation \cup {Idle}] /\ route'[h] = t
      /\ \A x \in Routes \ {h} : route'[x] = route[x]
  BY DEF AnsInv, Typed
<1>2. \A x \in Routes, q \in Requests : Owns(x, q)' => Owns(x, q)
  BY <1>1 DEF Owns, Step, Req
<1>3. OneOwner'
  BY <1>2 DEF AnsInv, OneOwner
<1>4. \A x \in Routes \ {h} : route'[x] = route[x] /\ (Owns(x, r) => Quiet(r))
  BY <1>1 DEF AnsInv, OneOwner
<1>5. Fits(route[h])'
  BY <1>1
<1>6. crashes' \in 0..MaxCrashes
  BY DEF AnsInv, Typed
<1>. QED
  BY <1>1, <1>3, <1>4, <1>5, <1>6, RequestStep

(* It is written by the ledger.                                            *)
LEMMA LedgerStep ==
  ASSUME AnsInv, NEW r \in Requests, Stored(r), NEW e \in Entry,
         ledger' = [ledger EXCEPT ![r] = e], KeepRows,
         LedgerStatus(r) \in {"succeeded", "failed"} => e.status = LedgerStatus(r),
         LedgerStatus(r) # "reserved" => e.status # "reserved",
         ledger[r].late => e.late,
         e.status \in Live => LedgerStatus(r) \in Live,
         e.status = "succeeded" => LedgerStatus(r) \in Live \cup {"succeeded"},
         UNCHANGED <<route, called, crashes>>, flying' \subseteq flying,
         refunded' \subseteq refunded \cup {r},
         r \in refunded' => e.status = "failed" /\ r \notin called',
         r \in called' => e.status # "reserved",
         Quiet(r)
  PROVE  AnsInv'
<1>1. route' = route /\ called' = called /\ crashes' = crashes
  OBVIOUS
<1>2. OneOwner'
  BY <1>1 DEF AnsInv, OneOwner, Owns, Step, Req
<1>3. route' \in [Routes -> Invocation \cup {Idle}] /\ crashes' \in 0..MaxCrashes
  BY <1>1 DEF AnsInv, Typed
<1>4. flying' \subseteq flying \cup {r} /\ called' \subseteq called \cup {r}
  BY <1>1
<1>. QED
  BY <1>1, <1>2, <1>3, <1>4, RequestStep

-----------------------------------------------------------------------------
(* Steps that read.                                                        *)

LEMMA IdleFits ==
  Idle \in Invocation \cup {Idle} /\ Idle.step = "idle" /\ Fits(Idle) /\ Fits(Idle)'
BY DEF Idle, Fits

(* An invocation in flight has a copy that fits.                           *)
LEMMA InFlight ==
  ASSUME AnsInv, NEW h \in Routes, Step(h) # "idle"
  PROVE  \E t \in Invocation :
           /\ t = route[h] /\ t.step = Step(h) /\ t.req = Req(h) /\ t.step # "idle" /\ Fits(t)
           /\ t.step \in Owning => t.req \in Requests /\ Stored(t.req) /\ Owns(h, t.req)
<1>1. PICK t \in Invocation : t = route[h]
  BY DEF AnsInv, Typed, Step, Idle
<1>2. t.step = Step(h) /\ t.req = Req(h) /\ t.step # "idle" /\ Fits(t)
  BY <1>1 DEF Step, Req, AnsInv, RoutesFit
<1>3. t.step \in Owning => t.req \in Requests /\ Stored(t.req) /\ Owns(h, t.req)
  BY <1>2 DEF Fits, Owns
<1>. QED
  BY <1>1, <1>2, <1>3

LEMMA FinishStep ==
  ASSUME AnsInv, NEW h \in Routes, Finish(h), KeepRows, KeepLedger, KeepCalls
  PROVE  AnsInv'
BY IdleFits, ReadStep DEF Finish, Owning, Calling

(* An invocation goes on with the copy it has.                             *)
LEMMA GotoStep ==
  ASSUME AnsInv, NEW h \in Routes, NEW t \in Invocation, t = route[h], t.step # "idle",
         NEW step \in Steps, Goto(h, step), KeepRows, KeepLedger, KeepCalls,
         step \in {"reread", "reserve"} => ~t.get,
         step \in Opening => t.step \in Opening,
         step \in {"call", "fence"} => t.turn <= 1,
         step \in {"undo", "giveback"} => ~t.started,
         step \in Winning => t.req \in Succeeded,
         step = "existing" => t.step = "existing",
         step \in Owning => t.step \in Owning,
         step \in Calling => t.step \in Calling,
         step # "fence"
  PROVE  AnsInv'
<1>. DEFINE new == [t EXCEPT !.step = step]
<1>1. /\ new \in Invocation /\ new.step = step /\ new.req = t.req /\ new.get = t.get
      /\ new.key = t.key /\ new.turn = t.turn /\ new.started = t.started
  BY DEF Invocation
<1>2. route' = [route EXCEPT ![h] = new]
  BY DEF Goto
<1>. HIDE DEF new
<1>3. Fits(t)
  BY DEF AnsInv, RoutesFit
<1>4. Fits(new)
  BY <1>1, <1>3 DEF Fits
<1>5. new.step \in Owning => Owns(h, new.req)
  BY <1>1, <1>3 DEF Owns, Step, Req
<1>. QED
  BY <1>1, <1>2, <1>4, <1>5, ReadStep

LEMMA CheckStep ==
  ASSUME AnsInv, NEW h \in Routes, Check(h)
  PROVE  AnsInv'
<1>1. Step(h) = "check" /\ KeepRows /\ KeepLedger /\ KeepCalls
  BY DEF Check
<1>2. PICK t \in Invocation : t = route[h] /\ t.step = "check" /\ Fits(t)
  BY <1>1, InFlight
<1>3. \/ Newest \in Succeeded /\ route' = [route EXCEPT ![h].step = "attach", ![h].req = Newest]
      \/ Finish(h)
      \/ Goto(h, "drop")
  BY DEF Check
<1>4. CASE Newest \in Succeeded /\ route' = [route EXCEPT ![h].step = "attach", ![h].req = Newest]
  <2>1. PICK r \in Succeeded : r = Newest
    BY <1>4
  <2>. DEFINE new == [t EXCEPT !.step = "attach", !.req = r]
  <2>2. route' = [route EXCEPT ![h] = new]
    BY <1>2, <1>4, <2>1
  <2>3. /\ new \in Invocation /\ new.step = "attach" /\ new.req = r /\ new.get = t.get
        /\ new.key = t.key
    BY DEF Invocation, Steps, Succeeded
  <2>. HIDE DEF new
  <2>4. Fits(new)
    BY <1>2, <2>3 DEF Fits, Opening, Winning, Owning, Calling
  <2>5. new.step \notin Owning
    BY <2>3 DEF Owning, Calling
  <2>. QED
    BY <1>1, <2>2, <2>3, <2>4, <2>5, ReadStep
<1>5. CASE Finish(h)
  BY <1>1, <1>5, FinishStep
<1>6. CASE Goto(h, "drop")
  BY <1>1, <1>2, <1>6, GotoStep DEF Steps, Opening, Winning, Owning, Calling
<1>. QED
  BY <1>3, <1>4, <1>5, <1>6

(* After a failed game, the route goes on to read it again, the poll ends. *)
LEMMA AfterDropCopy ==
  ASSUME AnsInv, NEW h \in Routes, Step(h) \in {"drop", "fail"}, AfterDrop(h) \/ Finish(h)
  PROVE  \E new \in Invocation \cup {Idle} :
           route' = [route EXCEPT ![h] = new] /\ Fits(new) /\ new.step \notin Owning
<1>1. PICK t \in Invocation : t = route[h] /\ t.step = Step(h) /\ Fits(t)
  BY InFlight
<1>2. CASE Finish(h)
  BY <1>2, IdleFits DEF Finish, Owning, Calling
<1>3. CASE t.step = "drop" /\ ~t.get /\ Goto(h, "reread")
  <2>. DEFINE new == [t EXCEPT !.step = "reread"]
  <2>1. /\ new \in Invocation /\ new.step = "reread" /\ new.req = t.req /\ new.get = t.get
        /\ new.key = t.key /\ new.turn = t.turn /\ new.started = t.started
    BY DEF Invocation, Steps
  <2>2. route' = [route EXCEPT ![h] = new]
    BY <1>1, <1>3 DEF Goto
  <2>. HIDE DEF new
  <2>3. Fits(new) /\ new.step \notin Owning
    BY <1>1, <1>3, <2>1 DEF Fits, Opening, Winning, Owning, Calling
  <2>. QED
    BY <2>1, <2>2, <2>3
<1>. QED
  BY <1>1, <1>2, <1>3 DEF AfterDrop

LEMMA StoreLostStep ==
  ASSUME AnsInv, NEW h \in Routes, StoreLost(h)
  PROVE  AnsInv'
BY FinishStep DEF StoreLost

LEMMA FailLostStep ==
  ASSUME AnsInv, NEW h \in Routes, FailLost(h)
  PROVE  AnsInv'
<1>1. /\ Step(h) \in {"drop", "fail"} /\ (AfterDrop(h) \/ Finish(h))
      /\ KeepRows /\ KeepLedger /\ KeepCalls
  BY DEF FailLost
<1>2. PICK new \in Invocation \cup {Idle} :
        route' = [route EXCEPT ![h] = new] /\ Fits(new) /\ new.step \notin Owning
  BY <1>1, AfterDropCopy
<1>. QED
  BY <1>1, <1>2, ReadStep

(* What a handler reads of the game.                                       *)
LEMMA NowTyped ==
  ASSUME AnsInv
  PROVE  Now \in Copy /\ game[Game].rev \in 0..MaxRevision
BY DEF AnsInv, Typed, Now, Copy, Games!Row

LEMMA RereadStep ==
  ASSUME AnsInv, NEW h \in Routes, Reread(h)
  PROVE  AnsInv'
<1>1. Step(h) = "reread" /\ KeepRows /\ KeepLedger /\ KeepCalls
  BY DEF Reread
<1>2. PICK t \in Invocation : t = route[h] /\ t.step = "reread" /\ Fits(t)
  BY <1>1, InFlight
<1>3. CASE Finish(h)
  BY <1>1, <1>3, FinishStep
<1>4. CASE route' = [route EXCEPT ![h].step = "reserve", ![h].at = Now]
  <2>1. PICK now \in Copy : now = Now
    BY NowTyped
  <2>. DEFINE new == [t EXCEPT !.step = "reserve", !.at = now]
  <2>2. route' = [route EXCEPT ![h] = new]
    BY <1>2, <1>4, <2>1
  <2>3. /\ new \in Invocation /\ new.step = "reserve" /\ new.get = t.get
        /\ new.key = t.key /\ new.turn = t.turn /\ new.started = t.started
    BY DEF Invocation, Steps
  <2>. HIDE DEF new
  <2>4. Fits(new) /\ new.step \notin Owning
    BY <1>2, <2>3 DEF Fits, Opening, Winning, Owning, Calling
  <2>. QED
    BY <1>1, <2>2, <2>3, <2>4, ReadStep
<1>. QED
  BY <1>3, <1>4 DEF Reread

LEMMA ReserveFindsStep ==
  ASSUME AnsInv, NEW h \in Routes, ReserveFinds(h)
  PROVE  AnsInv'
<1>1. Step(h) = "reserve" /\ KeepRows /\ KeepLedger /\ KeepCalls
  BY DEF ReserveFinds
<1>2. PICK t \in Invocation : t = route[h] /\ t.step = "reserve" /\ Fits(t)
  BY <1>1, InFlight
<1>3. PICK r \in Existing(route[h].key) :
        \/ route' = [route EXCEPT ![h].step = "existing", ![h].req = r]
        \/ Finish(h)
  BY DEF ReserveFinds
<1>4. r \in Requests /\ Stored(r)
  BY DEF Existing, WithKey, Succeeded
<1>5. CASE Finish(h)
  BY <1>1, <1>5, FinishStep
<1>6. CASE route' = [route EXCEPT ![h].step = "existing", ![h].req = r]
  <2>. DEFINE new == [t EXCEPT !.step = "existing", !.req = r]
  <2>1. route' = [route EXCEPT ![h] = new]
    BY <1>2, <1>6
  <2>2. /\ new \in Invocation /\ new.step = "existing" /\ new.get = t.get
        /\ new.key = t.key /\ new.req = r
    BY <1>4 DEF Invocation, Steps
  <2>. HIDE DEF new
  <2>3. Fits(new) /\ new.step \notin Owning
    BY <1>2, <1>4, <2>2 DEF Fits, Opening, Winning, Owning, Calling
  <2>. QED
    BY <1>1, <2>1, <2>2, <2>3, ReadStep
<1>. QED
  BY <1>3, <1>5, <1>6

LEMMA UseExistingStep ==
  ASSUME AnsInv, NEW h \in Routes, UseExisting(h)
  PROVE  AnsInv'
<1>1. Step(h) = "existing" /\ KeepRows /\ KeepLedger /\ KeepCalls
  BY DEF UseExisting
<1>2. PICK t \in Invocation : t = route[h] /\ t.step = "existing" /\ t.req = Req(h)
  BY <1>1, InFlight
<1>3. CASE Finish(h)
  BY <1>1, <1>3, FinishStep
<1>4. ASSUME NEW step \in {"attach", "rejoin"}, Goto(h, step), t.req \in Succeeded
      PROVE  AnsInv'
  BY <1>1, <1>2, <1>4, GotoStep DEF Steps, Opening, Winning, Owning, Calling
<1>. QED
  BY <1>2, <1>3, <1>4 DEF UseExisting

(* A client or a poll comes in.                                            *)
LEMMA OpenStep ==
  ASSUME AnsInv, NEW h \in Routes,
         \/ \E k \in Keys : \E exp \in Sent(k) : OpenAnswer(h, k, exp)
         \/ OpenPoll(h)
  PROVE  AnsInv'
<1>1. PICK now \in Copy : now = Now
  BY NowTyped
<1>2. None \in Requests \cup {None} /\ None \in Keys \cup {None}
  OBVIOUS
<1>3. 0 \in 0..2 /\ 0 \in 0..MaxRevision /\ TRUE \in BOOLEAN /\ FALSE \in BOOLEAN
  BY RouteAssumption
<1>4. ASSUME NEW k \in Keys, NEW exp \in Sent(k), OpenAnswer(h, k, exp)
      PROVE  AnsInv'
  <2>1. exp \in 0..MaxRevision
    <3>1. \A r \in WithKey(k) : ledger[r].rev \in 0..MaxRevision
      BY StoredEntry DEF AnsInv, WithKey, Entry
    <3>. QED
      BY <3>1, NowTyped DEF Sent
  <2>2. PICK step \in {"check", "reserve"} :
          route' = [route EXCEPT ![h] =
            [step |-> step, get |-> FALSE, key |-> k, exp |-> exp, at |-> now, req |-> None,
             turn |-> 0, started |-> FALSE, released |-> FALSE]]
    <3>1. PICK step \in {"check", "reserve"} :
            step = IF game[Game].status = "answering" THEN "check" ELSE "reserve"
      OBVIOUS
    <3>. QED
      BY <1>1, <1>4, <3>1 DEF OpenAnswer
  <2>. DEFINE new == [step |-> step, get |-> FALSE, key |-> k, exp |-> exp, at |-> now,
                      req |-> None, turn |-> 0, started |-> FALSE, released |-> FALSE]
  <2>3. /\ new \in Invocation /\ new.step = step /\ new.key = k /\ new.get = FALSE
        /\ new.turn = 0 /\ new.started = FALSE
    BY <1>2, <1>3, <2>1 DEF Invocation, Steps
  <2>4. route' = [route EXCEPT ![h] = new] /\ KeepRows /\ KeepLedger /\ KeepCalls
    BY <1>4, <2>2 DEF OpenAnswer
  <2>. HIDE DEF new
  <2>5. Fits(new) /\ new.step \notin Owning
    BY <2>3 DEF Fits, Opening, Winning, Owning, Calling
  <2>. QED
    BY <2>3, <2>4, <2>5, ReadStep
<1>5. CASE OpenPoll(h)
  <2>. DEFINE new == [step |-> "check", get |-> TRUE, key |-> None, exp |-> 0, at |-> now,
                      req |-> None, turn |-> 0, started |-> FALSE, released |-> FALSE]
  <2>1. /\ new \in Invocation /\ new.step = "check" /\ new.get = TRUE
        /\ new.turn = 0 /\ new.started = FALSE
    BY <1>2, <1>3 DEF Invocation, Steps
  <2>2. route' = [route EXCEPT ![h] = new] /\ KeepRows /\ KeepLedger /\ KeepCalls
    BY <1>1, <1>5 DEF OpenPoll
  <2>. HIDE DEF new
  <2>3. Fits(new) /\ new.step \notin Owning
    BY <2>1 DEF Fits, Opening, Winning, Owning, Calling
  <2>. QED
    BY <2>1, <2>2, <2>3, ReadStep
<1>. QED
  BY <1>4, <1>5
-----------------------------------------------------------------------------
(* Steps that write the game.                                              *)

(* A write puts a row of the game in the place of its row.                 *)
LEMMA PutRow ==
  ASSUME AnsInv, NEW status \in Games!Statuses, game[Game].rev < MaxRevision
  PROVE  \E row \in Games!Row :
           /\ Games!Put(Game, status) = [game EXCEPT ![Game] = row]
           /\ row.answer = game[Game].answer
           /\ row.rev = game[Game].rev + 1
<1>1. PICK old \in Games!Row : old = game[Game]
  BY DEF AnsInv, Typed
<1>. DEFINE row == [old EXCEPT !.status = status, !.rev = old.rev + 1]
<1>2. old.rev \in 0..MaxRevision /\ old.rev + 1 \in 0..MaxRevision
  BY <1>1, RouteAssumption DEF Games!Row
<1>3. row \in Games!Row /\ row.answer = old.answer /\ row.rev = old.rev + 1
  BY <1>2 DEF Games!Row
<1>4. Game \in GameIds
  BY RouteAssumption
<1>5. Games!Put(Game, status) = [game EXCEPT ![Game] = row]
  BY <1>1, <1>4 DEF AnsInv, Typed, Games!Put
<1>. QED
  BY <1>1, <1>3, <1>5

(* Every write of the route but the answer's own keeps the answer.         *)
LEMMA PutTyped ==
  ASSUME AnsInv, NEW status \in Games!Statuses, game[Game].rev < MaxRevision,
         game' = Games!Put(Game, status)
  PROVE  /\ game' \in [GameIds -> Games!Row \cup {None}] /\ game'[Game] \in Games!Row
         /\ game'[Game].answer = game[Game].answer
BY PutRow, RouteAssumption DEF AnsInv, Typed

LEMMA StoreStep ==
  ASSUME AnsInv, NEW h \in Routes, Store(h)
  PROVE  AnsInv'
<1>1. /\ Step(h) \in {"attach", "store"} /\ Finish(h) /\ KeepLedger /\ KeepCalls
      /\ Games!StoreAnswer(Game, At(h).rev, Req(h))
  BY DEF Store
<1>2. PICK t \in Invocation : t = route[h] /\ t.step = Step(h) /\ t.req = Req(h) /\ Fits(t)
  BY <1>1, InFlight
<1>3. t.req \in Succeeded
  BY <1>1, <1>2 DEF Fits, Winning
<1>4. PICK row \in Games!Row : Games!Put(Game, "answered") = [game EXCEPT ![Game] = row]
  <2>1. game[Game].rev < MaxRevision /\ "answered" \in Games!Statuses
    BY <1>1 DEF Games!StoreAnswer, Games!Matches, Games!Statuses
  <2>. QED
    BY <2>1, PutRow
<1>. DEFINE won == [row EXCEPT !.answer = t.req]
<1>5. won \in Games!Row /\ won.answer = t.req
  BY <1>3 DEF Games!Row, Succeeded
<1>6. game' = [game EXCEPT ![Game] = won] /\ Game \in GameIds
  BY <1>1, <1>2, <1>4, RouteAssumption DEF Games!StoreAnswer, AnsInv, Typed
<1>. HIDE DEF won
<1>7. /\ game' \in [GameIds -> Games!Row \cup {None}] /\ game'[Game] \in Games!Row
      /\ game'[Game].answer \in Succeeded
  BY <1>3, <1>5, <1>6 DEF AnsInv, Typed
<1>8. route' = [route EXCEPT ![h] = Idle] /\ Idle.step \notin Owning
  BY <1>1, IdleFits DEF Finish, Owning, Calling
<1>9. UNCHANGED <<ledger, flying, called, refunded, crashes>>
  BY <1>1 DEF KeepLedger, KeepCalls
<1>10. crashes' \in 0..MaxCrashes
  BY <1>9 DEF AnsInv, Typed
<1>. QED
  BY <1>7, <1>8, <1>9, <1>10, IdleFits, GamesStep

LEMMA FailStep ==
  ASSUME AnsInv, NEW h \in Routes, Fail(h)
  PROVE  AnsInv'
<1>1. /\ Step(h) \in {"drop", "fail"} /\ AfterDrop(h) /\ KeepLedger /\ KeepCalls
      /\ Games!FailAnswer(Game, At(h).rev)
  BY DEF Fail
<1>2. PICK new \in Invocation \cup {Idle} :
        route' = [route EXCEPT ![h] = new] /\ Fits(new) /\ new.step \notin Owning
  BY <1>1, AfterDropCopy
<1>3. /\ game' \in [GameIds -> Games!Row \cup {None}] /\ game'[Game] \in Games!Row
      /\ game'[Game].answer = game[Game].answer
  BY <1>1, PutTyped DEF Games!FailAnswer, Games!Matches, Games!Statuses
<1>4. UNCHANGED <<ledger, flying, called, refunded, crashes>> /\ crashes' \in 0..MaxCrashes
  BY <1>1 DEF KeepLedger, KeepCalls, AnsInv, Typed
<1>. QED
  BY <1>2, <1>3, <1>4, GamesStep

(* What an answer that was begun or joined goes on with.                   *)
LEMMA AfterBeginCopy ==
  ASSUME AnsInv, NEW h \in Routes, Step(h) \in {"begin", "rejoin"}, NEW at \in Copy,
         route' = [route EXCEPT ![h].step = AfterBegin(h), ![h].at = at]
  PROVE  \E new \in Invocation : /\ route' = [route EXCEPT ![h] = new] /\ Fits(new)
                                 /\ new.step \in Owning => Owns(h, new.req)
<1>1. PICK t \in Invocation : /\ t = route[h] /\ t.step = Step(h) /\ t.req = Req(h) /\ Fits(t)
                              /\ t.step \in Owning => Owns(h, t.req)
  BY InFlight
<1>2. PICK step \in {"attach", "undo", "call"} :
        /\ step = AfterBegin(h)
        /\ step = "attach" => t.step = "rejoin"
        /\ step # "attach" => t.step = "begin"
  BY <1>1 DEF AfterBegin
<1>. DEFINE new == [t EXCEPT !.step = step, !.at = at]
<1>3. route' = [route EXCEPT ![h] = new]
  BY <1>1, <1>2
<1>4. /\ new \in Invocation /\ new.step = step /\ new.req = t.req /\ new.get = t.get
      /\ new.key = t.key /\ new.turn = t.turn /\ new.started = t.started
  BY DEF Invocation, Steps
<1>. HIDE DEF new
<1>5. Fits(new)
  BY <1>1, <1>2, <1>4 DEF Fits, Opening, Winning, Owning, Calling
<1>6. new.step \in Owning => Owns(h, new.req)
  BY <1>1, <1>2, <1>4 DEF Owning, Calling
<1>. QED
  BY <1>3, <1>4, <1>5, <1>6

LEMMA JoinStep ==
  ASSUME AnsInv, NEW h \in Routes, Join(h)
  PROVE  AnsInv'
<1>1. PICK now \in Copy : now = Now
  BY NowTyped
<1>2. /\ route' = [route EXCEPT ![h].step = AfterBegin(h), ![h].at = now]
      /\ Step(h) \in {"begin", "rejoin"} /\ KeepRows /\ KeepLedger /\ KeepCalls
  BY <1>1 DEF Join
<1>. QED
  BY <1>2, AfterBeginCopy, ReadStep

LEMMA BeginStep ==
  ASSUME AnsInv, NEW h \in Routes, Begin(h)
  PROVE  AnsInv'
<1>1. /\ Step(h) \in {"begin", "rejoin"} /\ KeepLedger /\ KeepCalls
      /\ Games!BeginAnswer(Game, route[h].exp)
  BY DEF Begin
<1>2. game[Game].rev < MaxRevision /\ game[Game].rev = route[h].exp
  BY <1>1 DEF Games!BeginAnswer, Games!Matches
<1>. DEFINE at == [status |-> "answering", rev |-> route[h].exp + 1]
<1>3. at \in Copy
  BY <1>2, NowTyped, RouteAssumption DEF Copy, Games!Statuses
<1>4. route' = [route EXCEPT ![h].step = AfterBegin(h), ![h].at = at]
  BY DEF Begin
<1>. HIDE DEF at
<1>5. PICK new \in Invocation : /\ route' = [route EXCEPT ![h] = new] /\ Fits(new)
                                /\ new.step \in Owning => Owns(h, new.req)
  BY <1>1, <1>3, <1>4, AfterBeginCopy
<1>6. /\ game' \in [GameIds -> Games!Row \cup {None}] /\ game'[Game] \in Games!Row
      /\ game'[Game].answer = game[Game].answer
  BY <1>1, <1>2, PutTyped DEF Games!BeginAnswer, Games!Statuses
<1>7. UNCHANGED <<ledger, flying, called, refunded, crashes>> /\ crashes' \in 0..MaxCrashes
  BY <1>1 DEF KeepLedger, KeepCalls, AnsInv, Typed
<1>. QED
  BY <1>5, <1>6, <1>7, GamesStep

LEMMA BeginRefusedStep ==
  ASSUME AnsInv, NEW h \in Routes, BeginRefused(h)
  PROVE  AnsInv'
<1>1. Step(h) \in {"begin", "rejoin"} /\ KeepRows /\ KeepLedger /\ KeepCalls
  BY DEF BeginRefused
<1>2. PICK t \in Invocation : t = route[h] /\ t.step = Step(h) /\ Fits(t)
  BY <1>1, InFlight
<1>3. CASE t.step = "begin" /\ Goto(h, "giveback")
  <2>1. ~t.started
    BY <1>2, <1>3 DEF Fits, Opening
  <2>. QED
    BY <1>1, <1>2, <1>3, <2>1, GotoStep DEF Steps, Opening, Winning, Owning, Calling
<1>4. CASE Finish(h)
  BY <1>1, <1>4, FinishStep
<1>. QED
  BY <1>2, <1>3, <1>4 DEF BeginRefused

(* The owner plays another game, or abandons this one.                     *)
LEMMA ElsewhereStep ==
  ASSUME AnsInv, PlayElsewhere
  PROVE  AnsInv'
<1>. DEFINE Good == /\ game' \in [GameIds -> Games!Row \cup {None}] /\ game'[Game] \in Games!Row
                    /\ game'[Game].answer = game[Game].answer
<1>1. PICK old \in Games!Row : old = game[Game]
  BY DEF AnsInv, Typed
<1>2. Game \in GameIds /\ Upcoming \in GameIds /\ Other \in GameIds /\ Game # Upcoming
  BY RouteAssumption
<1>3. ASSUME NEW source \in GameIds \cup {None}
      PROVE  Games!Shell(source) \in Games!Row
  BY <1>3, RouteAssumption DEF Games!Shell, Games!Row, Games!Statuses
<1>4. /\ Games!Retired(game) \in [GameIds -> Games!Row \cup {None}]
      /\ Games!Retired(game)[Game] = [old EXCEPT !.current = FALSE]
  <2>1. ASSUME NEW g \in GameIds, game[g] # None
        PROVE  [game[g] EXCEPT !.current = FALSE] \in Games!Row
    <3>1. PICK row \in Games!Row : row = game[g]
      BY <2>1 DEF AnsInv, Typed
    <3>2. [row EXCEPT !.current = FALSE] \in Games!Row
      BY DEF Games!Row
    <3>. QED
      BY <3>1, <3>2
  <2>2. game[Game] # None
    BY <1>1, RouteAssumption DEF AnsInv, Typed
  <2>. QED
    BY <1>1, <1>2, <2>1, <2>2 DEF Games!Retired
<1>5. [old EXCEPT !.current = FALSE] \in Games!Row /\ [old EXCEPT !.current = FALSE].answer = old.answer
  BY DEF Games!Row
<1>6. ASSUME NEW rev \in 0..MaxRevision, Games!ReplayGame(Upcoming, Other, rev)
      PROVE  Good
  <2>1. CASE game' = game
    BY <2>1 DEF AnsInv, Typed
  <2>2. CASE game' = [Games!Retired(game) EXCEPT
                        ![Upcoming] = [Games!Child(Upcoming, Other) EXCEPT !.current = TRUE]]
    <3>1. PICK child \in Games!Row : child = Games!Child(Upcoming, Other)
      <4>1. CASE game[Upcoming] # None
        BY <1>2, <4>1 DEF AnsInv, Typed, Games!Child, Games!Exists
      <4>2. CASE game[Upcoming] = None
        <5>1. PICK shell \in Games!Row : shell = Games!Shell(Other)
          BY <1>2, <1>3
        <5>2. [shell EXCEPT !.status = "mapped"] \in Games!Row
          BY DEF Games!Row, Games!Statuses
        <5>. QED
          BY <4>2, <5>1, <5>2 DEF Games!Child, Games!Exists
      <4>. QED
        BY <4>1, <4>2
    <3>2. [child EXCEPT !.current = TRUE] \in Games!Row
      BY DEF Games!Row
    <3>3. game' = [Games!Retired(game) EXCEPT ![Upcoming] = [child EXCEPT !.current = TRUE]]
      BY <2>2, <3>1
    <3>4. /\ game' \in [GameIds -> Games!Row \cup {None}]
          /\ game'[Game] = [old EXCEPT !.current = FALSE]
      BY <1>2, <1>4, <3>2, <3>3
    <3>. QED
      BY <1>1, <1>5, <3>4
  <2>. QED
    BY <1>6, <2>1, <2>2 DEF Games!ReplayGame
<1>7. ASSUME Games!CreateDivision(Upcoming)
      PROVE  Good
  <2>1. PICK shell \in Games!Row : shell = Games!Shell(None)
    BY <1>3
  <2>2. game' = [Games!Retired(game) EXCEPT ![Upcoming] = shell]
    BY <1>7, <2>1 DEF Games!CreateDivision
  <2>3. /\ game' \in [GameIds -> Games!Row \cup {None}]
        /\ game'[Game] = [old EXCEPT !.current = FALSE]
    BY <1>2, <1>4, <2>2
  <2>. QED
    BY <1>1, <1>5, <2>3
<1>8. ASSUME NEW rev \in 0..MaxRevision, Games!AbandonGame(Game, rev)
      PROVE  Good
  <2>1. game[Game].rev < MaxRevision /\ "abandoned" \in Games!Statuses
    BY <1>8 DEF Games!AbandonGame, Games!Statuses
  <2>2. PICK row \in Games!Row : /\ Games!Put(Game, "abandoned") = [game EXCEPT ![Game] = row]
                                 /\ row.answer = game[Game].answer
    BY <2>1, PutRow
  <2>3. [row EXCEPT !.current = FALSE] \in Games!Row /\ [row EXCEPT !.current = FALSE].answer = row.answer
    BY DEF Games!Row
  <2>4. game' = [game EXCEPT ![Game] = [row EXCEPT !.current = FALSE]]
    BY <1>2, <1>8, <2>2 DEF Games!AbandonGame, AnsInv, Typed
  <2>. QED
    BY <1>2, <2>2, <2>3, <2>4 DEF AnsInv, Typed
<1>9. Good
  BY <1>6, <1>7, <1>8 DEF PlayElsewhere
<1>. HIDE DEF Good
<1>10. UNCHANGED <<ledger, route, flying, called, refunded, crashes>>
  BY DEF PlayElsewhere, KeepLedger, KeepCalls
<1>11. OneOwner'
  BY <1>10 DEF AnsInv, OneOwner, Owns, Step, Req
<1>17. route' = route /\ \A r \in Requests : Quiet(r)
  BY <1>10 DEF Quiet, LedgerStatus
<1>12. Succeeded' = Succeeded /\ LiveRequests' = LiveRequests
  BY <1>10 DEF Succeeded, LiveRequests, Stored, LedgerStatus
<1>13. Typed'
  BY <1>9, <1>10 DEF Good, AnsInv, Typed
<1>14. LedgerMoves
  BY <1>10 DEF LedgerMoves, Stored, LedgerStatus
<1>15. Books' /\ OneChance' /\ RefundsNotDispatched'
  BY <1>10, <1>12 DEF AnsInv, Books, OneChance, RefundsNotDispatched, Stored, LedgerStatus
<1>16. AnswersAreWinners'
  BY <1>9, <1>12 DEF Good, AnsInv, AnswersAreWinners
<1>. QED
  BY <1>11, <1>13, <1>14, <1>15, <1>16, <1>17, Moves
-----------------------------------------------------------------------------
(* Steps of an attempt that read.                                          *)

LEMMA TurnFailsStep ==
  ASSUME AnsInv, NEW h \in Routes, TurnFails(h)
  PROVE  AnsInv'
<1>1. Step(h) = "call" /\ KeepRows /\ KeepLedger /\ KeepCalls /\ Goto(h, Broken(h))
  BY DEF TurnFails
<1>2. PICK t \in Invocation : t = route[h] /\ t.step = "call"
  BY <1>1, InFlight
<1>3. PICK step \in {"unsettled", "undo"} : step = Broken(h) /\ (step = "undo" => ~t.started)
  BY <1>2 DEF Broken
<1>4. Goto(h, step)
  BY <1>1, <1>3
<1>. QED
  BY <1>1, <1>2, <1>3, <1>4, GotoStep DEF Steps, Opening, Winning, Owning, Calling

LEMMA WaitStep ==
  ASSUME AnsInv, NEW h \in Routes, Correct(h) \/ Generated(h) \/ GenerationFails(h) \/ SendLate(h)
  PROVE  AnsInv'
<1>1. Step(h) \in {"wait", "settle"} /\ KeepRows /\ KeepLedger /\ KeepCalls
  BY DEF Correct, Generated, GenerationFails, SendLate
<1>2. PICK t \in Invocation : t = route[h] /\ t.step \in {"wait", "settle"} /\ t.step = Step(h)
  BY <1>1, InFlight
<1>3. PICK step \in {"call", "settle", "unsettled", "caught"} :
        /\ Goto(h, step)
        /\ step = "call" => t.turn = 1
  BY <1>2 DEF Correct, Generated, GenerationFails, SendLate
<1>. QED
  BY <1>1, <1>2, <1>3, GotoStep DEF Steps, Opening, Winning, Owning, Calling

LEMMA SettledStep ==
  ASSUME AnsInv, NEW h \in Routes, Settled(h) \/ SettleBroken(h)
  PROVE  AnsInv'
<1>1. Step(h) = "settling" /\ KeepRows /\ KeepLedger /\ KeepCalls
  BY DEF Settled, SettleBroken
<1>2. PICK t \in Invocation : t = route[h] /\ t.step = "settling" /\ t.req = Req(h)
  BY <1>1, InFlight
<1>3. PICK step \in {"store", "refused", "caught"} :
        /\ Goto(h, step)
        /\ step = "store" => t.req \in Succeeded
  BY <1>2 DEF Settled, SettleBroken
<1>. QED
  BY <1>1, <1>2, <1>3, GotoStep DEF Steps, Opening, Winning, Owning, Calling

LEMMA RecoverStep ==
  ASSUME AnsInv, NEW h \in Routes, Recover(h)
  PROVE  AnsInv'
<1>1. Step(h) \in {"caught", "refused"} /\ KeepRows /\ KeepLedger /\ KeepCalls
  BY DEF Recover
<1>2. PICK t \in Invocation : t = route[h] /\ t.step = Step(h) /\ Fits(t)
  BY <1>1, InFlight
<1>3. PICK r \in Succeeded : route' = [route EXCEPT ![h].step = "store", ![h].req = r]
  BY DEF Recover, Recovered
<1>. DEFINE new == [t EXCEPT !.step = "store", !.req = r]
<1>4. route' = [route EXCEPT ![h] = new]
  BY <1>2, <1>3
<1>5. /\ new \in Invocation /\ new.step = "store" /\ new.req = r /\ new.get = t.get
      /\ new.key = t.key
  BY DEF Invocation, Steps, Succeeded
<1>. HIDE DEF new
<1>6. Fits(new) /\ new.step \notin Owning
  BY <1>1, <1>2, <1>5 DEF Fits, Opening, Winning, Owning, Calling
<1>. QED
  BY <1>1, <1>4, <1>5, <1>6, ReadStep

LEMMA RecoverNothingStep ==
  ASSUME AnsInv, NEW h \in Routes, RecoverNothing(h)
  PROVE  AnsInv'
<1>1. Step(h) \in {"caught", "refused"} /\ KeepRows /\ KeepLedger /\ KeepCalls
  BY DEF RecoverNothing
<1>2. PICK t \in Invocation : t = route[h] /\ t.step = Step(h)
  BY <1>1, InFlight
<1>3. CASE Finish(h)
  BY <1>1, <1>3, FinishStep
<1>4. ASSUME NEW step \in {"unsettled", "fail"}, Goto(h, step)
      PROVE  AnsInv'
  BY <1>1, <1>2, <1>4, GotoStep DEF Steps, Opening, Winning, Owning, Calling
<1>. QED
  BY <1>3, <1>4 DEF RecoverNothing

LEMMA CrashStep ==
  ASSUME AnsInv, NEW h \in Routes, Crash(h)
  PROVE  AnsInv'
<1>1. UNCHANGED <<game, ledger, flying, called, refunded>>
  BY DEF Crash, KeepRows, KeepLedger, rows
<1>2. /\ game' \in [GameIds -> Games!Row \cup {None}] /\ game'[Game] \in Games!Row
      /\ game'[Game].answer = game[Game].answer
  BY <1>1 DEF AnsInv, Typed
<1>3. crashes' \in 0..MaxCrashes
  BY RouteAssumption DEF Crash, AnsInv, Typed
<1>4. route' = [route EXCEPT ![h] = Idle] /\ Idle.step \notin Owning
  BY IdleFits DEF Crash, Finish, Owning, Calling
<1>. QED
  BY <1>1, <1>2, <1>3, <1>4, IdleFits, GamesStep

-----------------------------------------------------------------------------
(* Steps that write a request.                                             *)

(* A request's status is written.                                          *)
LEMMA EndedEntry ==
  ASSUME AnsInv, NEW r \in Requests, Stored(r), NEW status \in Live \cup Failed \cup {"succeeded"}
  PROVE  \E e \in Entry : /\ Ended(r, status) = [ledger EXCEPT ![r] = e]
                          /\ e.status = status /\ e.late = ledger[r].late
<1>1. PICK old \in Entry : old = ledger[r]
  BY StoredEntry DEF AnsInv
<1>. DEFINE e == [old EXCEPT !.status = status]
<1>2. e \in Entry /\ e.status = status /\ e.late = old.late
  BY DEF Entry
<1>3. Ended(r, status) = [ledger EXCEPT ![r] = e]
  BY <1>1 DEF Ended, AnsInv, Typed
<1>. QED
  BY <1>1, <1>2, <1>3

(* It is written as it was.                                                *)
LEMMA SameEntry ==
  ASSUME AnsInv, NEW r \in Requests, Stored(r)
  PROVE  \E e \in Entry : /\ ledger = [ledger EXCEPT ![r] = e] /\ e = ledger[r]
                          /\ e.status = LedgerStatus(r) /\ e.late = ledger[r].late
BY StoredEntry DEF AnsInv, Typed, LedgerStatus

LEMMA BeginTurnStep ==
  ASSUME AnsInv, NEW h \in Routes, BeginTurn(h)
  PROVE  AnsInv'
<1>1. /\ Step(h) = "call" /\ KeepRows /\ KeepCalls /\ refunded' = refunded
      /\ MayStart(Req(h)) /\ ledger' = Ended(Req(h), "in_progress")
      /\ Goto(h, "fence") \/ Goto(h, Broken(h))
  BY DEF BeginTurn
<1>2. PICK t \in Invocation :
        /\ t = route[h] /\ t.step = "call" /\ t.req = Req(h) /\ Fits(t)
        /\ t.req \in Requests /\ Stored(t.req) /\ Owns(h, t.req)
  BY <1>1, InFlight DEF Owning, Calling
<1>3. PICK r \in Requests : r = t.req
  BY <1>2
<1>4. PICK step \in {"fence", "unsettled", "undo"} :
        Goto(h, step) /\ (step = "undo" => ~t.started)
  BY <1>1, <1>2 DEF Broken
<1>5. PICK e \in Entry : /\ ledger' = [ledger EXCEPT ![r] = e]
                         /\ e.status = "in_progress" /\ e.late = ledger[r].late
  BY <1>1, <1>2, <1>3, EndedEntry DEF Live
<1>. DEFINE new == [t EXCEPT !.step = step]
<1>6. /\ new \in Invocation /\ new.step = step /\ new.req = r /\ new.get = t.get
      /\ new.key = t.key /\ new.turn = t.turn /\ new.started = t.started
  BY <1>3 DEF Invocation, Steps
<1>7. route' = [route EXCEPT ![h] = new]
  BY <1>2, <1>4 DEF Goto
<1>. HIDE DEF new
<1>8. /\ flying' = flying /\ called' = called /\ crashes' = crashes /\ refunded' = refunded
      /\ ledger'[r] = e /\ e # None
  BY <1>1, <1>5, RouteAssumption DEF KeepCalls, AnsInv, Typed
<1>9. LedgerStatus(r) \in Live
  BY <1>1, <1>2, <1>3 DEF MayStart
<1>10. r \notin refunded
  BY <1>9 DEF AnsInv, Books, Live
<1>11. Fits(new)'
  <2>1. /\ ~new.get => new.key \in Keys
        /\ new.turn <= 1 /\ (~new.started => r \notin called) /\ r \notin flying
    BY <1>2, <1>3, <1>6 DEF Fits, Owning, Calling
  <2>2. /\ new.step \notin Opening \cup Winning \cup {"giveback", "existing"}
        /\ new.step = "undo" => ~new.started
    BY <1>4, <1>6 DEF Opening, Winning
  <2>3. /\ Stored(r)' /\ LedgerStatus(r)' = "in_progress"
    BY <1>5, <1>8 DEF Stored, LedgerStatus
  <2>. QED
    BY <1>6, <1>8, <1>10, <2>1, <2>2, <2>3 DEF Fits, Opening, Live
<1>. QED
  BY <1>1, <1>2, <1>3, <1>5, <1>6, <1>7, <1>8, <1>9, <1>10, <1>11, OwnerStep DEF Live

LEMMA DispatchStep ==
  ASSUME AnsInv, NEW h \in Routes, Dispatch(h)
  PROVE  AnsInv'
<1>1. /\ Step(h) = "fence" /\ KeepRows /\ ledger' = ledger /\ refunded' = refunded
      /\ flying' = flying /\ crashes' = crashes /\ called' = called \cup {Req(h)}
      /\ route' = [route EXCEPT ![h].step = "wait", ![h].started = TRUE, ![h].turn = @ + 1]
  BY DEF Dispatch, KeepLedger
<1>2. PICK t \in Invocation :
        /\ t = route[h] /\ t.step = "fence" /\ t.req = Req(h) /\ Fits(t)
        /\ t.req \in Requests /\ Stored(t.req) /\ Owns(h, t.req)
  BY <1>1, InFlight DEF Owning, Calling
<1>3. PICK r \in Requests : r = t.req
  BY <1>2
<1>4. PICK e \in Entry : /\ ledger = [ledger EXCEPT ![r] = e] /\ e = ledger[r]
                         /\ e.status = LedgerStatus(r) /\ e.late = ledger[r].late
  BY <1>2, <1>3, SameEntry
<1>5. PICK turn \in 0..2 : turn = t.turn + 1
  <2>1. t.turn \in 0..2 /\ t.turn <= 1
    BY <1>2 DEF Fits, Invocation
  <2>. QED
    BY <2>1
<1>. DEFINE new == [t EXCEPT !.step = "wait", !.started = TRUE, !.turn = turn]
<1>6. /\ new \in Invocation /\ new.step = "wait" /\ new.req = r /\ new.get = t.get
      /\ new.key = t.key /\ new.started = TRUE
  BY <1>3, <1>5 DEF Invocation, Steps
<1>7. route' = [route EXCEPT ![h] = new]
  BY <1>1, <1>2, <1>5 DEF AnsInv, Typed
<1>. HIDE DEF new
<1>8. r \notin refunded /\ LedgerStatus(r) # "reserved" /\ r \notin flying
  BY <1>2, <1>3 DEF Fits, Calling
<1>9. Fits(new)'
  BY <1>1, <1>2, <1>3, <1>6, <1>8 DEF Fits, Opening, Winning, Owning, Calling, Stored
<1>10. /\ ledger' = [ledger EXCEPT ![r] = e] /\ flying' \subseteq flying \cup {r}
       /\ called' \subseteq called \cup {r} /\ refunded' \subseteq refunded \cup {r}
       /\ r \notin refunded'
  BY <1>1, <1>2, <1>3, <1>4, <1>8
<1>11. /\ LedgerStatus(r) \in {"succeeded", "failed"} => e.status = LedgerStatus(r)
       /\ e.status # "reserved" /\ (ledger[r].late => e.late)
       /\ e.status \in Live => LedgerStatus(r) \in Live
       /\ e.status = "succeeded" => LedgerStatus(r) \in Live \cup {"succeeded"}
  BY <1>4, <1>8
<1>12. KeepRows /\ crashes' = crashes /\ Owns(h, r) /\ Stored(r) /\ (new.step \in Owning => new.req = r)
  BY <1>1, <1>2, <1>3, <1>6
<1>. QED
  BY <1>6, <1>7, <1>9, <1>10, <1>11, <1>12, OwnerStep

LEMMA DispatchLateStep ==
  ASSUME AnsInv, NEW h \in Routes, DispatchLate(h)
  PROVE  AnsInv'
<1>1. Step(h) = "fence" /\ KeepRows /\ KeepCalls
  BY DEF DispatchLate
<1>2. PICK t \in Invocation :
        /\ t = route[h] /\ t.step = "fence" /\ t.req = Req(h) /\ Fits(t)
        /\ t.req \in Requests /\ Stored(t.req) /\ Owns(h, t.req)
  BY <1>1, InFlight DEF Owning, Calling
<1>3. PICK r \in Requests : r = t.req
  BY <1>2
<1>4. flying' = flying /\ called' = called /\ crashes' = crashes
  BY <1>1 DEF KeepCalls
<1>5. CASE /\ Undispatched(h) /\ ledger' = Released(r) /\ refunded' = refunded \cup {r}
           /\ route' = [route EXCEPT ![h].step = "undo", ![h].released = TRUE]
  <2>1. ~t.started /\ LedgerStatus(r) \in Live
    BY <1>2, <1>3, <1>5 DEF Undispatched
  <2>2. PICK e \in Entry : /\ ledger' = [ledger EXCEPT ![r] = e]
                           /\ e.status = "failed" /\ e.late = ledger[r].late
    BY <1>2, <1>3, <1>5, <2>1, EndedEntry DEF Released, Failed
  <2>. DEFINE new == [t EXCEPT !.step = "undo", !.released = TRUE]
  <2>3. /\ new \in Invocation /\ new.step = "undo" /\ new.req = r /\ new.get = t.get
        /\ new.key = t.key /\ new.started = t.started
    BY <1>3 DEF Invocation, Steps
  <2>4. route' = [route EXCEPT ![h] = new]
    BY <1>2, <1>5
  <2>. HIDE DEF new
  <2>5. ledger'[r] = e /\ e # None
    BY <2>2, RouteAssumption DEF AnsInv, Typed
  <2>6. r \notin called
    BY <1>2, <1>3, <2>1 DEF Fits, Owning, Calling
  <2>7. Fits(new)'
    BY <1>2, <1>4, <2>1, <2>3, <2>5, <2>6 DEF Fits, Opening, Winning, Owning, Calling, Stored
  <2>. QED
    BY <1>1, <1>2, <1>3, <1>4, <1>5, <2>1, <2>2, <2>3, <2>4, <2>6, <2>7, OwnerStep DEF Live
<1>6. CASE KeepLedger /\ route' = [route EXCEPT ![h].step = "unsettled", ![h].started = TRUE]
  <2>. DEFINE new == [t EXCEPT !.step = "unsettled", !.started = TRUE]
  <2>1. /\ new \in Invocation /\ new.step = "unsettled" /\ new.req = r /\ new.get = t.get
        /\ new.key = t.key /\ new.started = TRUE
    BY <1>3 DEF Invocation, Steps
  <2>2. route' = [route EXCEPT ![h] = new]
    BY <1>2, <1>6
  <2>. HIDE DEF new
  <2>3. Fits(new)
    BY <1>2, <1>3, <2>1 DEF Fits, Opening, Winning, Owning, Calling
  <2>. QED
    BY <1>1, <1>2, <1>3, <1>6, <2>1, <2>2, <2>3, ReadStep
<1>. QED
  BY <1>2, <1>3, <1>5, <1>6 DEF DispatchLate
LEMMA SendStep ==
  ASSUME AnsInv, NEW h \in Routes, Send(h)
  PROVE  AnsInv'
<1>1. /\ Step(h) = "settle" /\ KeepRows /\ ledger' = ledger /\ refunded' = refunded
      /\ called' = called /\ crashes' = crashes /\ flying' = flying \cup {Req(h)}
      /\ Goto(h, "settling")
  BY DEF Send, KeepLedger
<1>2. PICK t \in Invocation :
        /\ t = route[h] /\ t.step = "settle" /\ t.req = Req(h) /\ Fits(t)
        /\ t.req \in Requests /\ Stored(t.req) /\ Owns(h, t.req)
  BY <1>1, InFlight DEF Owning, Calling
<1>3. PICK r \in Requests : r = t.req
  BY <1>2
<1>4. PICK e \in Entry : /\ ledger = [ledger EXCEPT ![r] = e] /\ e = ledger[r]
                         /\ e.status = LedgerStatus(r) /\ e.late = ledger[r].late
  BY <1>2, <1>3, SameEntry
<1>. DEFINE new == [t EXCEPT !.step = "settling"]
<1>5. /\ new \in Invocation /\ new.step = "settling" /\ new.req = r /\ new.get = t.get
      /\ new.key = t.key /\ new.started = t.started
  BY <1>3 DEF Invocation, Steps
<1>6. route' = [route EXCEPT ![h] = new]
  BY <1>1, <1>2 DEF Goto
<1>. HIDE DEF new
<1>7. Fits(new)'
  BY <1>1, <1>2, <1>3, <1>5 DEF Fits, Opening, Winning, Owning, Calling, Stored
<1>8. /\ ledger' = [ledger EXCEPT ![r] = e] /\ flying' \subseteq flying \cup {r}
      /\ called' \subseteq called \cup {r} /\ refunded' \subseteq refunded \cup {r}
  BY <1>1, <1>2, <1>3, <1>4
<1>9. /\ LedgerStatus(r) \in {"succeeded", "failed"} => e.status = LedgerStatus(r)
      /\ LedgerStatus(r) # "reserved" => e.status # "reserved"
      /\ ledger[r].late => e.late
      /\ e.status \in Live => LedgerStatus(r) \in Live
      /\ e.status = "succeeded" => LedgerStatus(r) \in Live \cup {"succeeded"}
  BY <1>4
<1>10. /\ r \in refunded' => e.status = "failed" /\ r \notin called'
       /\ r \in called' => e.status # "reserved"
  BY <1>1, <1>4 DEF AnsInv, Books, RefundsNotDispatched
<1>11. KeepRows /\ crashes' = crashes /\ Owns(h, r) /\ Stored(r) /\ (new.step \in Owning => new.req = r)
  BY <1>1, <1>2, <1>3, <1>5
<1>. QED
  BY <1>5, <1>6, <1>7, <1>8, <1>9, <1>10, <1>11, OwnerStep

(* An attempt ends without an answer, by its failure or by its return.     *)
LEMMA EndStep ==
  ASSUME AnsInv, NEW h \in Routes, NEW t \in Invocation, t = route[h], Fits(t),
         NEW r \in Requests, Owns(h, r), Stored(r), KeepRows, KeepCalls,
         Finish(h) \/ Goto(h, "fail"),
         \/ ledger' = ledger /\ refunded' = refunded
         \/ \E status \in Failed : /\ ledger' = Ended(r, status)
                                   /\ LedgerStatus(r) = "in_progress" /\ refunded' = refunded
         \/ /\ ledger' = Ended(r, "failed") /\ LedgerStatus(r) \in Live
            /\ refunded' = refunded \cup {r} /\ r \notin called
  PROVE  AnsInv'
<1>1. flying' = flying /\ called' = called /\ crashes' = crashes
  BY DEF KeepCalls
<1>2. PICK e \in Entry :
        /\ ledger' = [ledger EXCEPT ![r] = e] /\ e.late = ledger[r].late
        /\ \/ e.status = LedgerStatus(r) /\ refunded' = refunded
           \/ e.status \in Failed /\ LedgerStatus(r) = "in_progress" /\ refunded' = refunded
           \/ /\ e.status = "failed" /\ LedgerStatus(r) \in Live
              /\ refunded' = refunded \cup {r} /\ r \notin called
  BY SameEntry, EndedEntry DEF Failed
<1>3. PICK new \in Invocation \cup {Idle} :
        route' = [route EXCEPT ![h] = new] /\ Fits(new)' /\ new.step \notin Owning
  <2>1. CASE Finish(h)
    BY <2>1, IdleFits DEF Finish, Owning, Calling
  <2>2. CASE Goto(h, "fail")
    <3>. DEFINE new == [t EXCEPT !.step = "fail"]
    <3>1. /\ new \in Invocation /\ new.step = "fail" /\ new.get = t.get /\ new.key = t.key
      BY DEF Invocation, Steps
    <3>2. route' = [route EXCEPT ![h] = new]
      BY <2>2 DEF Goto
    <3>3. t.step # "idle"
      BY DEF Owns, Step, Owning, Calling
    <3>. HIDE DEF new
    <3>4. Fits(new)' /\ new.step \notin Owning
      BY <3>1, <3>3 DEF Fits, Opening, Winning, Owning, Calling
    <3>. QED
      BY <3>1, <3>2, <3>4
  <2>. QED
    BY <2>1, <2>2
<1>4. /\ LedgerStatus(r) \in {"succeeded", "failed"} => e.status = LedgerStatus(r)
      /\ LedgerStatus(r) # "reserved" => e.status # "reserved"
      /\ ledger[r].late => e.late
      /\ e.status \in Live => LedgerStatus(r) \in Live
      /\ e.status = "succeeded" => LedgerStatus(r) \in Live \cup {"succeeded"}
  BY <1>2 DEF Live, Failed
<1>5. /\ r \in refunded' => e.status = "failed" /\ r \notin called'
      /\ r \in called' => e.status # "reserved"
  BY <1>1, <1>2 DEF AnsInv, Books, RefundsNotDispatched, Failed
<1>6. /\ flying' \subseteq flying \cup {r} /\ called' \subseteq called \cup {r}
      /\ refunded' \subseteq refunded \cup {r}
  BY <1>1, <1>2
<1>. QED
  BY <1>1, <1>2, <1>3, <1>4, <1>5, <1>6, OwnerStep

LEMMA UnsettledStep ==
  ASSUME AnsInv, NEW h \in Routes, Unsettled(h)
  PROVE  AnsInv'
<1>1. Step(h) = "unsettled" /\ KeepRows /\ KeepCalls /\ refunded' = refunded
  BY DEF Unsettled
<1>2. PICK t \in Invocation :
        /\ t = route[h] /\ t.step = "unsettled" /\ t.req = Req(h) /\ Fits(t)
        /\ t.req \in Requests /\ Stored(t.req) /\ Owns(h, t.req)
  BY <1>1, InFlight DEF Owning, Calling
<1>3. Finish(h) \/ Goto(h, "fail")
  BY DEF Unsettled
<1>4. \/ ledger' = ledger
      \/ \E status \in Failed : ledger' = Ended(t.req, status) /\ LedgerStatus(t.req) = "in_progress"
  BY <1>2 DEF Unsettled, Failed
<1>. QED
  BY <1>1, <1>2, <1>3, <1>4, EndStep

LEMMA UndoStep ==
  ASSUME AnsInv, NEW h \in Routes, Undo(h)
  PROVE  AnsInv'
<1>1. Step(h) \in {"undo", "giveback"} /\ KeepRows /\ KeepCalls
  BY DEF Undo
<1>2. PICK t \in Invocation :
        /\ t = route[h] /\ t.step = Step(h) /\ t.req = Req(h) /\ Fits(t)
        /\ t.req \in Requests /\ Stored(t.req) /\ Owns(h, t.req)
  BY <1>1, InFlight DEF Owning, Calling
<1>3. Finish(h) \/ Goto(h, "fail")
  BY DEF Undo
<1>4. t.req \notin called
  BY <1>1, <1>2 DEF Fits, Owning, Calling
<1>5. \/ ledger' = ledger /\ refunded' = refunded
      \/ /\ ledger' = Ended(t.req, "failed") /\ LedgerStatus(t.req) \in Live
         /\ refunded' = refunded \cup {t.req}
  BY <1>2 DEF Undo, Released, KeepLedger
<1>. QED
  BY <1>1, <1>2, <1>3, <1>4, <1>5, EndStep

(* The ledger executes a settlement, a deadline passes, a sweep is made.   *)
LEMMA LandStep ==
  ASSUME AnsInv, NEW r \in Requests, Land(r)
  PROVE  AnsInv'
<1>1. /\ r \in flying /\ flying' = flying \ {r} /\ KeepRows /\ route' = route
      /\ called' = called /\ refunded' = refunded /\ crashes' = crashes
  BY DEF Land
<1>2. Stored(r)
  BY <1>1 DEF AnsInv, Books
<1>3. PICK e \in Entry :
        /\ ledger' = [ledger EXCEPT ![r] = e] /\ e.late = ledger[r].late
        /\ \/ e.status = LedgerStatus(r)
           \/ e.status \in {"indeterminate", "succeeded"} /\ LedgerStatus(r) = "in_progress"
  <2>1. CASE ledger' = ledger
    BY <1>2, <2>1, SameEntry
  <2>2. ASSUME NEW status \in {"indeterminate", "succeeded"}, ledger' = Ended(r, status),
               LedgerStatus(r) = "in_progress"
        PROVE  \E e \in Entry : /\ ledger' = [ledger EXCEPT ![r] = e] /\ e.late = ledger[r].late
                                /\ e.status = status
    BY <1>2, <2>2, EndedEntry DEF Failed
  <2>. QED
    BY <2>1, <2>2 DEF Land
<1>4. /\ LedgerStatus(r) \in {"succeeded", "failed"} => e.status = LedgerStatus(r)
      /\ LedgerStatus(r) # "reserved" => e.status # "reserved"
      /\ ledger[r].late => e.late
      /\ e.status \in Live => LedgerStatus(r) \in Live
      /\ e.status = "succeeded" => LedgerStatus(r) \in Live \cup {"succeeded"}
  BY <1>3 DEF Live
<1>5. /\ r \in refunded' => e.status = "failed" /\ r \notin called'
      /\ r \in called' => e.status # "reserved"
  BY <1>1, <1>3 DEF AnsInv, Books, RefundsNotDispatched
<1>6. Quiet(r)
  BY <1>1 DEF Quiet
<1>. QED
  BY <1>1, <1>2, <1>3, <1>4, <1>5, <1>6, LedgerStep

LEMMA LateStep ==
  ASSUME AnsInv, NEW r \in Requests, Late(r)
  PROVE  AnsInv'
<1>1. /\ Stored(r) /\ LedgerStatus(r) \in Live /\ ledger' = [ledger EXCEPT ![r].late = TRUE]
      /\ KeepRows /\ route' = route /\ refunded' = refunded
      /\ flying' = flying /\ called' = called /\ crashes' = crashes
  BY DEF Late, LiveRequests, KeepCalls
<1>2. PICK old \in Entry : old = ledger[r] /\ old.status = LedgerStatus(r)
  BY <1>1, StoredEntry DEF AnsInv, LedgerStatus
<1>. DEFINE e == [old EXCEPT !.late = TRUE]
<1>3. e \in Entry /\ e.status = old.status /\ e.late = TRUE
  BY DEF Entry
<1>4. ledger' = [ledger EXCEPT ![r] = e]
  BY <1>1, <1>2 DEF AnsInv, Typed
<1>. HIDE DEF e
<1>5. /\ r \in refunded' => e.status = "failed" /\ r \notin called'
      /\ r \in called' => e.status # "reserved"
  BY <1>1, <1>2, <1>3 DEF AnsInv, Books, RefundsNotDispatched
<1>6. Quiet(r)
  BY <1>1, <1>3, <1>4 DEF Quiet, AnsInv, Typed
<1>. QED
  BY <1>1, <1>2, <1>3, <1>4, <1>5, <1>6, LedgerStep

LEMMA ExpireStep ==
  ASSUME AnsInv, NEW r \in Requests, Expire(r)
  PROVE  AnsInv'
<1>1. /\ Stored(r) /\ LedgerStatus(r) \in Live /\ ledger[r].late /\ KeepRows /\ route' = route
      /\ flying' = flying /\ called' = called /\ crashes' = crashes
  BY DEF Expire, LiveRequests, KeepCalls
<1>2. PICK status \in Failed :
        /\ ledger' = Ended(r, status)
        /\ \/ status = "failed" /\ LedgerStatus(r) = "reserved" /\ refunded' = refunded \cup {r}
           \/ refunded' = refunded
  BY DEF Expire, Failed
<1>3. PICK e \in Entry : /\ ledger' = [ledger EXCEPT ![r] = e]
                         /\ e.status = status /\ e.late = ledger[r].late
  BY <1>1, <1>2, EndedEntry
<1>4. e.status \in Failed /\ LedgerStatus(r) \notin Failed
  BY <1>1, <1>2, <1>3 DEF Live, Failed
<1>5. /\ r \in refunded' => e.status = "failed" /\ r \notin called'
      /\ r \in called' => e.status # "reserved"
  BY <1>1, <1>2, <1>3, <1>4 DEF AnsInv, Books, Failed
<1>6. Quiet(r)
  BY <1>1, <1>2, <1>3 DEF Quiet, AnsInv, Typed
<1>7. /\ LedgerStatus(r) \notin {"succeeded", "failed"} /\ e.status \notin Live \cup {"succeeded", "reserved"}
      /\ ledger[r].late => e.late
  BY <1>1, <1>3, <1>4 DEF Live, Failed
<1>8. refunded' \subseteq refunded \cup {r} /\ flying' \subseteq flying
  BY <1>1, <1>2
<1>. QED
  BY <1>1, <1>3, <1>5, <1>6, <1>7, <1>8, LedgerStep

(* A new request takes the next place, which no other invocation holds.    *)
LEMMA ReserveStep ==
  ASSUME AnsInv, NEW h \in Routes, Reserve(h)
  PROVE  AnsInv'
<1>1. /\ Step(h) = "reserve" /\ LiveRequests = {} /\ Existing(route[h].key) = {}
      /\ KeepRows /\ refunded' = refunded
      /\ flying' = flying /\ called' = called /\ crashes' = crashes
  BY DEF Reserve, KeepCalls
<1>2. PICK t \in Invocation : t = route[h] /\ t.step = "reserve" /\ Fits(t)
  BY <1>1, InFlight
<1>. DEFINE e == [status |-> "reserved", key |-> t.key, rev |-> t.exp, late |-> FALSE]
<1>3. PICK r \in Requests : /\ ~Stored(r)
                            /\ ledger' = [ledger EXCEPT ![r] = e]
                            /\ route' = [route EXCEPT ![h].step = "begin", ![h].req = r]
  BY <1>2 DEF Reserve, NextFree, Free
<1>4. e \in Entry /\ e.status = "reserved" /\ e # None
  <2>1. e \in Entry
    BY <1>2 DEF Fits, Entry, Live, Invocation
  <2>. QED
    BY <2>1, RouteAssumption
<1>. HIDE DEF e
<1>5. /\ ledger' \in [Requests -> Request] /\ ledger'[r] = e
      /\ \A q \in Requests \ {r} : ledger'[q] = ledger[q]
  BY <1>3, <1>4 DEF AnsInv, Typed, Request
<1>. DEFINE new == [t EXCEPT !.step = "begin", !.req = r]
<1>6. /\ new \in Invocation /\ new.step = "begin" /\ new.req = r /\ new.get = t.get
      /\ new.key = t.key /\ new.started = t.started /\ new.turn = t.turn
  BY DEF Invocation, Steps
<1>7. route' = [route EXCEPT ![h] = new]
  BY <1>2, <1>3
<1>. HIDE DEF new
<1>8. /\ route' \in [Routes -> Invocation \cup {Idle}] /\ route'[h] = new
      /\ \A x \in Routes \ {h} : route'[x] = route[x]
  BY <1>6, <1>7 DEF AnsInv, Typed
<1>9. game' = game
  BY <1>1 DEF KeepRows, rows
<1>10. Typed'
  BY <1>1, <1>5, <1>8, <1>9 DEF AnsInv, Typed
<1>11. r \notin called \cup refunded \cup flying
  BY <1>3 DEF AnsInv, Books
<1>12. LedgerMoves
  BY <1>3, <1>5 DEF LedgerMoves, Stored, LedgerStatus
<1>13. Succeeded = {}
  BY <1>1 DEF Existing
<1>14. \A q \in Requests : q \in LiveRequests' \cup Succeeded' => q = r
  BY <1>1, <1>5, <1>13 DEF LiveRequests, Succeeded, Stored, LedgerStatus
<1>15. OneChance'
  BY <1>14 DEF OneChance, LiveRequests, Succeeded
<1>16. Books' /\ RefundsNotDispatched'
  <2>1. \A q \in called \cup refunded \cup flying : q \in Requests /\ q # r
    BY <1>11 DEF AnsInv, Typed
  <2>. QED
    BY <1>1, <1>5, <2>1 DEF AnsInv, Books, RefundsNotDispatched, Stored, LedgerStatus
<1>17. AnswersAreWinners'
  BY <1>9, <1>13 DEF AnsInv, AnswersAreWinners
<1>18. \A x \in Routes : ~Owns(x, r)
  <2>. SUFFICES ASSUME NEW x \in Routes, Owns(x, r)
                PROVE  FALSE
    OBVIOUS
  <2>1. PICK c \in Invocation : c.req = r /\ Stored(c.req)
    BY InFlight DEF Owns, Owning, Calling
  <2>. QED
    BY <1>3, <2>1
<1>19. \A x \in Routes \ {h}, q \in Requests : Owns(x, q)' => Owns(x, q)
  BY <1>8 DEF Owns, Step, Req
<1>20. \A q \in Requests : Owns(h, q)' => q = r
  BY <1>6, <1>8 DEF Owns, Req
<1>21. OneOwner'
  BY <1>18, <1>19, <1>20 DEF AnsInv, OneOwner
<1>22. Fits(new)'
  BY <1>1, <1>2, <1>4, <1>5, <1>6, <1>11 DEF Fits, Opening, Winning, Owning, Calling, Stored
<1>23. Fits(route[h])'
  BY <1>8, <1>22
<1>24. \A q \in Requests \ {r} : Quiet(q)
  BY <1>1, <1>5 DEF Quiet, LedgerStatus
<1>25. \A x \in Routes \ {h} : route'[x] = route[x] /\ \A q \in Requests : Owns(x, q) => Quiet(q)
  BY <1>8, <1>18, <1>24
<1>. QED
  BY <1>10, <1>12, <1>15, <1>16, <1>17, <1>21, <1>23, <1>25, Moves
-----------------------------------------------------------------------------
(* Every step.                                                             *)

LEMMA AnsInit == Init => AnsInv
<1>. SUFFICES ASSUME Init
              PROVE  AnsInv
  OBVIOUS
<1>1. ASSUME NEW current \in BOOLEAN
      PROVE  Finished(current) \in Games!Row /\ Finished(current).answer = None
  BY RouteAssumption DEF Finished, Games!Row, Games!Statuses
<1>2. game \in [GameIds -> Games!Row \cup {None}] /\ game[Game] \in Games!Row /\ game[Game].answer = None
  <2>1. \A g \in GameIds : Finished(g = Game) \in Games!Row /\ Finished(g = Game).answer = None
    BY <1>1
  <2>. QED
    BY <2>1, RouteAssumption DEF Init
<1>3. route \in [Routes -> Invocation \cup {Idle}]
  BY DEF Init
<1>4. Typed
  <2>1. ledger \in [Requests -> Request] /\ crashes \in 0..MaxCrashes
    BY RouteAssumption DEF Init, Request
  <2>2. flying = {} /\ called = {} /\ refunded = {}
    BY DEF Init
  <2>. QED
    BY <1>2, <1>3, <2>1, <2>2 DEF Typed
<1>5. \A r \in Requests : ~Stored(r)
  BY DEF Init, Stored
<1>6. RoutesFit
  BY IdleFits DEF Init, RoutesFit
<1>7. OneOwner
  BY IdleFits DEF Init, OneOwner, Owns, Step, Owning, Calling
<1>8. Books /\ RefundsNotDispatched
  BY DEF Init, Books, RefundsNotDispatched
<1>9. OneChance
  BY <1>5 DEF OneChance, LiveRequests, Succeeded
<1>10. AnswersAreWinners
  BY <1>2 DEF AnswersAreWinners
<1>. QED
  BY <1>4, <1>6, <1>7, <1>8, <1>9, <1>10 DEF AnsInv

LEMMA ProgressStep ==
  ASSUME AnsInv, NEW h \in Routes, Progress(h)
  PROVE  AnsInv'
<1>1. CASE \/ Check(h) \/ Store(h) \/ StoreLost(h) \/ Fail(h) \/ FailLost(h) \/ Reread(h)
  BY <1>1, CheckStep, StoreStep, StoreLostStep, FailStep, FailLostStep, RereadStep
<1>2. CASE Reserve(h) \/ ReserveFinds(h) \/ ReserveRefused(h) \/ UseExisting(h)
  BY <1>2, ReserveStep, ReserveFindsStep, FinishStep, UseExistingStep DEF ReserveRefused
<1>3. CASE Join(h) \/ Begin(h) \/ BeginRefused(h)
  BY <1>3, JoinStep, BeginStep, BeginRefusedStep
<1>4. CASE BeginTurn(h) \/ TurnFails(h) \/ Dispatch(h) \/ DispatchLate(h)
  BY <1>4, BeginTurnStep, TurnFailsStep, DispatchStep, DispatchLateStep
<1>5. CASE Correct(h) \/ Generated(h) \/ GenerationFails(h) \/ Send(h) \/ SendLate(h)
  BY <1>5, WaitStep, SendStep
<1>6. CASE Settled(h) \/ SettleBroken(h) \/ Recover(h) \/ RecoverNothing(h)
  BY <1>6, SettledStep, RecoverStep, RecoverNothingStep
<1>7. CASE Unsettled(h) \/ Undo(h)
  BY <1>7, UnsettledStep, UndoStep
<1>. QED
  BY <1>1, <1>2, <1>3, <1>4, <1>5, <1>6, <1>7 DEF Progress

LEMMA AnsStep == AnsInv /\ [Next]_vars => AnsInv'
<1>. SUFFICES ASSUME AnsInv, [Next]_vars
              PROVE  AnsInv'
  OBVIOUS
<1>1. ASSUME NEW h \in Routes,
             (\E k \in Keys : \E exp \in Sent(k) : OpenAnswer(h, k, exp)) \/ OpenPoll(h)
      PROVE  AnsInv'
  BY <1>1, OpenStep
<1>2. ASSUME NEW h \in Routes, Progress(h) \/ Crash(h)
      PROVE  AnsInv'
  BY <1>2, ProgressStep, CrashStep
<1>3. ASSUME NEW r \in Requests, Land(r) \/ Late(r) \/ Expire(r)
      PROVE  AnsInv'
  BY <1>3, LandStep, LateStep, ExpireStep
<1>4. CASE PlayElsewhere
  BY <1>4, ElsewhereStep
<1>5. CASE UNCHANGED vars
  <2>1. /\ game' = game /\ ledger' = ledger /\ route' = route /\ flying' = flying
        /\ called' = called /\ refunded' = refunded /\ crashes' = crashes
    BY <1>5 DEF vars, rows
  <2>2. Succeeded' = Succeeded /\ LiveRequests' = LiveRequests
    BY <2>1 DEF Succeeded, LiveRequests, Stored, LedgerStatus
  <2>3. Typed' /\ OneOwner' /\ AnswersAreWinners' /\ RefundsNotDispatched'
    BY <2>1, <2>2 DEF AnsInv, Typed, OneOwner, Owns, Step, Req, AnswersAreWinners,
                      RefundsNotDispatched
  <2>4. Books' /\ OneChance' /\ LedgerMoves
    BY <2>1, <2>2 DEF AnsInv, Books, OneChance, LedgerMoves, Stored, LedgerStatus
  <2>5. \A r \in Requests : Quiet(r)
    BY <2>1 DEF Quiet, LedgerStatus
  <2>. QED
    BY <2>1, <2>3, <2>4, <2>5, Moves
<1>. QED
  BY <1>1, <1>2, <1>3, <1>4, <1>5 DEF Next

(* The inductive invariant holds of every behaviour.                       *)
THEOREM AnswersInvariant == Spec => []AnsInv
<1>1. Init => AnsInv
  BY AnsInit
<1>2. AnsInv /\ [Next]_vars => AnsInv'
  BY AnsStep
<1>. QED
  BY <1>1, <1>2, PTL DEF Spec

-----------------------------------------------------------------------------
(* What the runs check.                                                    *)

(* The game, the ledger and the provider agree on an answer: what the game *)
(* holds was won, and what was given back was never sent.                  *)
THEOREM AnswersAlwaysSound == Spec => []AnswersAreSound
<1>1. AnsInv => AnswersAreSound
  BY DEF AnsInv, Typed, AnswersAreSound, TypeOK
<1>. QED
  BY <1>1, AnswersInvariant, PTL

(* Only a dispatch adds a call, and only for a request that may succeed.   *)
LEMMA OnlyDispatchCalls ==
  ASSUME AnsInv, [Next]_vars, Succeeded # {}
  PROVE  called' = called
<1>1. ASSUME NEW h \in Routes, Dispatch(h)
      PROVE  FALSE
  <2>1. Step(h) = "fence" /\ ~ledger[Req(h)].late
    BY <1>1 DEF Dispatch, LateFor
  <2>2. PICK t \in Invocation : t.step = "fence" /\ t.req = Req(h) /\ Fits(t)
    BY <2>1, InFlight
  <2>3. t.req \in LiveRequests
    BY <2>1, <2>2 DEF Fits, Owning, Calling, LiveRequests
  <2>4. PICK r \in Succeeded : TRUE
    OBVIOUS
  <2>5. t.req = r
    BY <2>3, <2>4 DEF AnsInv, OneChance
  <2>. QED
    BY <2>3, <2>4, <2>5 DEF LiveRequests, Succeeded, Live
<1>2. ASSUME NEW h \in Routes,
             (\E k \in Keys : \E exp \in Sent(k) : OpenAnswer(h, k, exp)) \/ OpenPoll(h)
      PROVE  called' = called
  BY <1>2 DEF OpenAnswer, OpenPoll, KeepCalls
<1>3. ASSUME NEW h \in Routes, Progress(h)
      PROVE  called' = called
  BY <1>1, <1>3
     DEF Progress, Check, Store, StoreLost, Fail, FailLost, Reread, Reserve, ReserveFinds,
         ReserveRefused, UseExisting, Join, Begin, BeginRefused, BeginTurn, TurnFails,
         DispatchLate, Correct, Generated, GenerationFails, Send, SendLate, Settled,
         SettleBroken, Recover, RecoverNothing, Unsettled, Undo, KeepCalls
<1>4. ASSUME NEW r \in Requests, Land(r) \/ Late(r) \/ Expire(r)
      PROVE  called' = called
  BY <1>4 DEF Land, Late, Expire, KeepCalls
<1>5. ASSUME NEW h \in Routes, Crash(h)
      PROVE  called' = called
  BY <1>5 DEF Crash
<1>6. CASE PlayElsewhere
  BY <1>6 DEF PlayElsewhere, KeepCalls
<1>7. CASE UNCHANGED vars
  BY <1>7 DEF vars
<1>. QED
  BY <1>2, <1>3, <1>4, <1>5, <1>6, <1>7 DEF Next

(* A paid answer is not paid for again.                                    *)
THEOREM NeverCalledAfterSuccess == Spec => NoCallAfterSuccess
<1>1. AnsInv /\ [Next]_vars => [Succeeded # {} => called' = called]_vars
  BY OnlyDispatchCalls
<1>. QED
  BY <1>1, AnswersInvariant, PTL DEF Spec, NoCallAfterSuccess
=============================================================================
