------------------------- MODULE UsageLedgerProofs -------------------------
(***************************************************************************)
(* What TLAPS proves of UsageLedger for every number of users, requests,   *)
(* slots and ticks: its invariants, its action properties, and, last, that *)
(* it implements ModelCalls.                                               *)
(***************************************************************************)
EXTENDS UsageLedgerRefinement, FiniteSetTheorems, TLAPS

(* Rows name their owner, and an unused or erased id holds nothing.        *)
RowsOwned ==
  \A r \in Requests : IF Stored(r) THEN requests[r].user \in Users /\ requests[r].op \in Operations
                                   ELSE requests[r] = BlankRow(requests[r].status)

(* The inductive invariant behind the type and slot theorems.              *)
LedgerInv == TypeOK /\ RowsOwned /\ SlotsMatchWork

-----------------------------------------------------------------------------
(* Buckets.                                                                *)

(* Clamped counters never leave the bucket type.                           *)
LEMMA MoveType ==
  ASSUME NEW b \in Bucket, NEW du \in Int, NEW dr \in Int
  PROVE  Move(b, du, dr) \in Bucket
BY DEF Move, Clamp, Bucket

(* A reservation is counted on a day of the calendar.                      *)
LEMMA DayType ==
  ASSUME NEW t \in Times
  PROVE  Day(t) \in Days
BY DEF Days

(* The sets cleanup counts are finite, so their sizes are naturals.        *)
LEMMA OverdueCounts ==
  ASSUME NEW S \in SUBSET Requests
  PROVE  Cardinality(S) \in Nat
BY FS_Subset, FS_CardinalityType, ConstantsAssumption

(* A lapsed row is still a row.                                            *)
LEMMA LapseType ==
  ASSUME NEW row \in Row
  PROVE  Lapse(row) \in Row
<1>1. \A st \in Status, f \in Failures : [row EXCEPT !.status = st, !.failure = f] \in Row
  BY DEF Row
<1>2. {"failed", "indeterminate"} \subseteq Status
  BY DEF Status, TerminalStatus
<1>. QED
  BY <1>1, <1>2 DEF Lapse, Failures

(* Reconciliation leaves every table well typed.                           *)
LEMMA SweptTypes ==
  ASSUME TypeOK
  PROVE  /\ SweptRequests \in [Requests -> Row]
         /\ SweptSlots \in [Slots -> Slot]
         /\ SweptUserModel \in [Users -> [Days -> Bucket]]
         /\ SweptUserGames \in [Users -> [Days -> Bucket]]
         /\ SweptGlobalModel \in [Days -> Bucket]
<1>1. SweptRequests \in [Requests -> Row]
  <2>1. \A r \in Requests : requests[r] \in Row
    BY DEF TypeOK
  <2>. QED
    BY <2>1, LapseType DEF SweptRequests
<1>2. SweptSlots \in [Slots -> Slot]
  BY DEF SweptSlots, TypeOK, FreeSlot, Slot
<1>3. \A u \in Users, d \in Days, st \in Status : Cardinality(OverdueOf(u, d, st)) \in Nat
  BY OverdueCounts DEF OverdueOf, Overdue
<1>4. SweptUserModel \in [Users -> [Days -> Bucket]]
  <2>. SUFFICES ASSUME NEW u \in Users, NEW d \in Days
                PROVE  Move(userModel[u][d], 0, -Cardinality(OverdueOf(u, d, "reserved"))) \in Bucket
    BY DEF SweptUserModel
  <2>1. userModel[u][d] \in Bucket
    BY DEF TypeOK
  <2>2. Cardinality(OverdueOf(u, d, "reserved")) \in Nat
    BY <1>3 DEF Status, ActiveStatus
  <2>. QED
    BY <2>1, <2>2, MoveType
<1>5. SweptUserGames \in [Users -> [Days -> Bucket]]
  <2>. SUFFICES ASSUME NEW u \in Users, NEW d \in Days
                PROVE  Move(userGames[u][d], Cardinality(DivisionsIn(OverdueOf(u, d, "in_progress"))),
                            -(Cardinality(DivisionsIn(OverdueOf(u, d, "in_progress")))
                              + Cardinality(DivisionsIn(OverdueOf(u, d, "reserved"))))) \in Bucket
    BY DEF SweptUserGames
  <2>1. userGames[u][d] \in Bucket
    BY DEF TypeOK
  <2>2. \A st \in {"in_progress", "reserved"} : Cardinality(DivisionsIn(OverdueOf(u, d, st))) \in Nat
    BY OverdueCounts DEF DivisionsIn, OverdueOf, Overdue
  <2>. QED
    BY <2>1, <2>2, MoveType
<1>6. SweptGlobalModel \in [Days -> Bucket]
  <2>. SUFFICES ASSUME NEW d \in Days
                PROVE  Move(globalModel[d], 0, -Cardinality(OverdueOn(d))) \in Bucket
    BY DEF SweptGlobalModel
  <2>1. globalModel[d] \in Bucket
    BY DEF TypeOK
  <2>2. Cardinality(OverdueOn(d)) \in Nat
    BY OverdueCounts DEF OverdueOn, Overdue
  <2>. QED
    BY <2>1, <2>2, MoveType
<1>. QED
  BY <1>1, <1>2, <1>4, <1>5, <1>6

-----------------------------------------------------------------------------
(* Type correctness.                                                       *)

(* The row a reservation inserts.                                          *)
LEMMA ReservedRowType ==
  ASSUME NEW u \in Users, NEW op \in Operations, NEW k \in Keys, NEW g \in Requests \cup {None},
         NEW at \in Times, NEW deadline \in Int
  PROVE  [BlankRow("reserved") EXCEPT !.user = u, !.op = op, !.key = k, !.game = g,
                                      !.created = at, !.deadline = deadline] \in Row
<1>1. op \in AllOperations
  BY ConstantsAssumption
<1>2. 0 \in 0..MaxTurns
  BY ConstantsAssumption
<1>. QED
  BY <1>1, <1>2 DEF BlankRow, Row, Status, ActiveStatus, Failures

(* The blank row of an id that is unused or erased.                        *)
LEMMA BlankRowType ==
  ASSUME NEW st \in Status
  PROVE  BlankRow(st) \in Row
<1>1. 0 \in 0..MaxTurns /\ 0 \in Times
  BY ConstantsAssumption DEF Times
<1>. QED
  BY <1>1 DEF BlankRow, Row, Failures

(* What reserveModelRequest may be called with.                            *)
LEMMA ReserveArguments ==
  ASSUME TypeOK, NEW op \in Operations, NEW at \in RequestTimes,
         NEW g \in Games(op), NEW deadline \in Deadlines(op, at)
  PROVE  /\ at \in Times
         /\ g \in Requests \cup {None}
         /\ deadline \in Int
         /\ LeaseEnd(op, at, deadline) \in Nat
<1>1. at \in Times /\ at \in Nat
  BY DEF RequestTimes, Times
<1>2. deadline \in Int /\ (op = "answer" => deadline >= at + 1)
  BY <1>1, ConstantsAssumption DEF Deadlines
<1>3. LeaseTicks \in Nat /\ Headroom \in Nat
  BY ConstantsAssumption
<1>. QED
  BY <1>1, <1>2, <1>3 DEF Games, LeaseEnd

(* The tables of a request that exists: its row, its owner and its day.    *)
LEMMA RowFacts ==
  ASSUME TypeOK, RowsOwned, NEW r \in Requests, Stored(r)
  PROVE  /\ requests[r] \in Row
         /\ requests[r].user \in Users
         /\ DayOf(r) \in Days
         /\ userModel[requests[r].user][DayOf(r)] \in Bucket
         /\ userGames[requests[r].user][DayOf(r)] \in Bucket
         /\ globalModel[DayOf(r)] \in Bucket
<1>1. requests[r] \in Row /\ requests[r].user \in Users
  BY DEF TypeOK, RowsOwned
<1>2. requests[r].created \in Times
  BY <1>1 DEF Row
<1>3. DayOf(r) \in Days
  BY <1>2, DayType DEF DayOf
<1>. QED
  BY <1>1, <1>3 DEF TypeOK

(* Settling or starting a call moves one bucket of one user.               *)
LEMMA SettleGameType ==
  ASSUME TypeOK, RowsOwned, NEW r \in Requests, Stored(r), NEW du \in {0, 1}
  PROVE  SettleGame(r, du) \in [Users -> [Days -> Bucket]]
<1>1. Move(userGames[requests[r].user][DayOf(r)], du, -1) \in Bucket
  BY RowFacts, MoveType
<1>2. userGames \in [Users -> [Days -> Bucket]]
  BY DEF TypeOK
<1>. QED
  BY <1>1, <1>2 DEF SettleGame

(* Clearing or extending a slot leaves slots.                              *)
LEMMA SlotUpdateTypes ==
  ASSUME TypeOK, NEW r
  PROVE  Clear(r) \in [Slots -> Slot] /\ Extended(r) \in [Slots -> Slot]
<1>1. now + LeaseTicks \in Nat
  BY ConstantsAssumption DEF TypeOK, Times
<1>. QED
  BY <1>1 DEF TypeOK, Clear, Extended, Slot, FreeSlot

(* Every step keeps every table typed.                                     *)
LEMMA TypeStep ==
  ASSUME TypeOK, RowsOwned, [Next]_vars
  PROVE  TypeOK'
<1>1. ASSUME NEW u \in Users, NEW r \in Requests, NEW op \in Operations, NEW k \in Keys,
             NEW at \in RequestTimes, NEW g \in Games(op), NEW deadline \in Deadlines(op, at),
             Reserve(u, r, op, k, g, at, deadline)
      PROVE  TypeOK'
  <2>1. /\ at \in Times /\ g \in Requests \cup {None} /\ deadline \in Int
        /\ LeaseEnd(op, at, deadline) \in Nat
    BY ReserveArguments
  <2>2. requests' \in [Requests -> Row]
    BY <1>1, <2>1, SweptTypes, ReservedRowType DEF Reserve
  <2>3. slots' \in [Slots -> Slot]
    <3>1. [request |-> r, expires |-> LeaseEnd(op, at, deadline)] \in Slot
      BY <2>1 DEF Slot
    <3>. QED
      BY <1>1, <3>1, SweptTypes DEF Reserve, FirstFree
  <2>4. Day(at) \in Days
    BY <2>1, DayType
  <2>5. \A b \in Bucket : Hold(b) \in Bucket
    BY MoveType DEF Hold
  <2>6. userModel' \in [Users -> [Days -> Bucket]]
    BY <1>1, <2>4, <2>5, SweptTypes DEF Reserve
  <2>7. userGames' \in [Users -> [Days -> Bucket]]
    BY <1>1, <2>4, <2>5, SweptTypes DEF Reserve
  <2>8. globalModel' \in [Days -> Bucket]
    BY <1>1, <2>4, <2>5, SweptTypes DEF Reserve
  <2>. QED
    BY <1>1, <2>2, <2>3, <2>6, <2>7, <2>8 DEF Reserve, Seen, TypeOK, Accounts
<1>2. ASSUME NEW u \in Users, ReserveRefused(u)
      PROVE  TypeOK'
  BY <1>2, SweptTypes DEF ReserveRefused, Seen, TypeOK, Accounts
<1>3. ASSUME NEW r \in Requests, CreateShell(r)
      PROVE  TypeOK'
  BY <1>3 DEF CreateShell, TypeOK, buckets
<1>4. ASSUME NEW r \in Requests, NEW g \in Requests, Attach(r, g)
      PROVE  TypeOK'
  <2>1. [requests[r] EXCEPT !.game = g] \in Row
    BY DEF TypeOK, Row
  <2>. QED
    BY <1>4, <2>1 DEF Attach, TypeOK, buckets
<1>5. ASSUME NEW r \in Requests, Begin(r)
      PROVE  TypeOK'
  <2>1. Stored(r)
    BY <1>5 DEF Begin, Stored
  <2>2. requests' \in [Requests -> Row]
    <3>1. 1 \in 0..MaxTurns /\ "in_progress" \in Status
      BY ConstantsAssumption DEF Status, ActiveStatus
    <3>2. [requests[r] EXCEPT !.status = "in_progress", !.turns = 1] \in Row
      BY <3>1 DEF TypeOK, Row
    <3>. QED
      BY <1>5, <3>2 DEF Begin, TypeOK
  <2>3. slots' \in [Slots -> Slot]
    BY <1>5, SlotUpdateTypes DEF Begin
  <2>4. \A b \in Bucket : Consume(b) \in Bucket
    BY MoveType DEF Consume
  <2>5. userModel' \in [Users -> [Days -> Bucket]] /\ globalModel' \in [Days -> Bucket]
    BY <1>5, <2>1, <2>4, RowFacts DEF Begin, TypeOK
  <2>. QED
    BY <1>5, <2>2, <2>3, <2>5 DEF Begin, TypeOK
<1>6. ASSUME NEW r \in Requests, Renew(r)
      PROVE  TypeOK'
  <2>1. requests[r].turns + 1 \in 0..MaxTurns
    BY <1>6, ConstantsAssumption DEF Renew, TypeOK, Row
  <2>2. [requests[r] EXCEPT !.turns = @ + 1] \in Row
    BY <2>1 DEF TypeOK, Row
  <2>3. requests' \in [Requests -> Row]
    BY <1>6, <2>2 DEF Renew, TypeOK
  <2>4. slots' \in [Slots -> Slot]
    BY <1>6, SlotUpdateTypes DEF Renew
  <2>. QED
    BY <1>6, <2>3, <2>4 DEF Renew, TypeOK, buckets
<1>7. ASSUME NEW r \in Requests, NEW outcome \in {"succeeded", "failed", "indeterminate"},
             Settle(r, outcome)
      PROVE  TypeOK'
  <2>1. Stored(r)
    BY <1>7 DEF Settle, Stored
  <2>2. \A f \in Failures : [requests[r] EXCEPT !.status = outcome, !.failure = f] \in Row
    <3>1. outcome \in Status
      BY DEF Status, TerminalStatus
    <3>. QED
      BY <3>1 DEF TypeOK, Row
  <2>3. requests' \in [Requests -> Row]
    BY <1>7, <2>2 DEF Settle, TypeOK, Failures
  <2>4. slots' \in [Slots -> Slot]
    BY <1>7, SlotUpdateTypes DEF Settle
  <2>5. userGames' \in [Users -> [Days -> Bucket]]
    BY <1>7, <2>1, SettleGameType DEF Settle
  <2>. QED
    BY <1>7, <2>3, <2>4, <2>5 DEF Settle, TypeOK
<1>8. ASSUME NEW r \in Requests, SettleDuplicate(r)
      PROVE  TypeOK'
  <2>1. Stored(r)
    BY <1>8 DEF SettleDuplicate, Stored
  <2>2. [requests[r] EXCEPT !.status = "rejected", !.failure = "operation_already_succeeded"] \in Row
    BY DEF TypeOK, Row, Status, TerminalStatus, Failures
  <2>3. requests' \in [Requests -> Row]
    BY <1>8, <2>2 DEF SettleDuplicate, TypeOK
  <2>4. slots' \in [Slots -> Slot]
    BY <1>8, SlotUpdateTypes DEF SettleDuplicate
  <2>5. userGames' \in [Users -> [Days -> Bucket]]
    BY <1>8, <2>1, SettleGameType DEF SettleDuplicate
  <2>. QED
    BY <1>8, <2>3, <2>4, <2>5 DEF SettleDuplicate, TypeOK
<1>9. ASSUME NEW r \in Requests, SettleLateAnswer(r)
      PROVE  TypeOK'
  <2>1. [requests[r] EXCEPT !.status = "indeterminate", !.failure = "answer_operation_timeout"] \in Row
    BY DEF TypeOK, Row, Status, TerminalStatus, Failures
  <2>2. requests' \in [Requests -> Row]
    BY <1>9, <2>1 DEF SettleLateAnswer, TypeOK
  <2>3. slots' \in [Slots -> Slot]
    BY <1>9, SlotUpdateTypes DEF SettleLateAnswer
  <2>. QED
    BY <1>9, <2>2, <2>3 DEF SettleLateAnswer, TypeOK, buckets
<1>10. ASSUME NEW r \in Requests, NEW reason, Release(r, reason)
       PROVE  TypeOK'
  <2>1. Stored(r)
    BY <1>10 DEF Release, Stored, ActiveStatus
  <2>2. \A f \in Failures :
          [requests[r] EXCEPT !.status = "failed", !.turns = 0, !.failure = f] \in Row
    <3>1. 0 \in 0..MaxTurns /\ "failed" \in Status
      BY ConstantsAssumption DEF Status, TerminalStatus
    <3>. QED
      BY <3>1 DEF TypeOK, Row
  <2>3. requests' \in [Requests -> Row]
    BY <1>10, <2>2 DEF Release, TypeOK, Failures
  <2>4. slots' \in [Slots -> Slot]
    BY <1>10, SlotUpdateTypes DEF Release
  <2>5. \A b \in Bucket, started \in BOOLEAN : Unstart(b, started) \in Bucket
    BY MoveType DEF Unstart
  <2>6. userModel' \in [Users -> [Days -> Bucket]] /\ globalModel' \in [Days -> Bucket]
    BY <1>10, <2>1, <2>5, RowFacts DEF Release, TypeOK
  <2>7. userGames' \in [Users -> [Days -> Bucket]]
    BY <1>10, <2>1, SettleGameType DEF Release
  <2>. QED
    BY <1>10, <2>3, <2>4, <2>6, <2>7 DEF Release, TypeOK
<1>11. CASE Reconcile
  BY <1>11, SweptTypes DEF Reconcile, TypeOK
<1>12. ASSUME NEW u \in Users, NEW force \in BOOLEAN, DeleteAccount(u, force)
       PROVE  TypeOK'
  <2>1. requests' \in [Requests -> Row]
    <3>1. "erased" \in Status
      BY DEF Status
    <3>. QED
      BY <1>12, <3>1, SweptTypes, BlankRowType DEF DeleteAccount
  <2>2. slots' \in [Slots -> Slot]
    BY <1>12, SweptTypes DEF DeleteAccount, FreeSlot, Slot
  <2>3. EmptyDays \in [Days -> Bucket]
    BY DEF EmptyDays, EmptyBucket, Bucket
  <2>4. userModel' \in [Users -> [Days -> Bucket]] /\ userGames' \in [Users -> [Days -> Bucket]]
    BY <1>12, <2>3, SweptTypes DEF DeleteAccount
  <2>5. \A d \in Days : Move(SweptGlobalModel[d], 0, -Cardinality(StillReserved(u, d))) \in Bucket
    <3>1. \A d \in Days : Cardinality(StillReserved(u, d)) \in Nat
      BY OverdueCounts DEF StillReserved, RowsOf
    <3>. QED
      BY <3>1, SweptTypes, MoveType
  <2>6. globalModel' \in [Days -> Bucket]
    BY <1>12, <2>5 DEF DeleteAccount
  <2>. QED
    BY <1>12, <2>1, <2>2, <2>4, <2>6 DEF DeleteAccount, TypeOK, Accounts
<1>13. ASSUME NEW u \in Users, Suspend(u) \/ Restore(u)
       PROVE  TypeOK'
  BY <1>13 DEF Suspend, Restore, TypeOK, Accounts, buckets
<1>14. CASE Tick
  BY <1>14, ConstantsAssumption DEF Tick, TypeOK, Times, buckets
<1>15. CASE UNCHANGED vars
  BY <1>15 DEF vars, TypeOK
<1>. QED
  BY <1>1, <1>2, <1>3, <1>4, <1>5, <1>6, <1>7, <1>8, <1>9, <1>10, <1>11, <1>12, <1>13, <1>14, <1>15
     DEF Next, ReserveAny

-----------------------------------------------------------------------------
(* Ownership of rows.                                                      *)

(* Every step keeps a row with the user it was inserted for.               *)
LEMMA OwnedStep ==
  ASSUME TypeOK, RowsOwned, [Next]_vars
  PROVE  RowsOwned'
<1>a. \A r \in Requests : requests[r] \in Row
  BY DEF TypeOK
<1>b. \A r \in Requests : /\ SweptRequests[r].user = requests[r].user
                          /\ SweptRequests[r].op = requests[r].op
                          /\ SweptRequests[r].status \in {"absent", "erased"}
                               <=> requests[r].status \in {"absent", "erased"}
                          /\ ~Stored(r) => SweptRequests[r] = requests[r]
  BY <1>a DEF SweptRequests, Lapse, Overdue, Active, ActiveStatus, Row, Stored
<1>1. ASSUME NEW u \in Users, NEW r \in Requests, NEW op \in Operations, NEW k \in Keys,
             NEW at \in RequestTimes, NEW g \in Games(op), NEW deadline \in Deadlines(op, at),
             Reserve(u, r, op, k, g, at, deadline)
      PROVE  RowsOwned'
  <2>1. \A x \in Requests : requests'[x] =
          IF x = r THEN [BlankRow("reserved") EXCEPT !.user = u, !.op = op, !.key = k, !.game = g,
                                                     !.created = at, !.deadline = deadline]
                   ELSE SweptRequests[x]
    BY <1>1 DEF Reserve, SweptRequests
  <2>2. requests'[r].user = u /\ requests'[r].op = op /\ requests'[r].status = "reserved"
    BY <2>1 DEF BlankRow
  <2>. QED
    BY <1>b, <2>1, <2>2 DEF RowsOwned, Stored
<1>2. ASSUME requests' = SweptRequests
      PROVE  RowsOwned'
  BY <1>2, <1>b DEF RowsOwned, Stored
<1>3. ASSUME NEW r \in Requests, Stored(r),
             \A x \in Requests : /\ requests'[x].user = requests[x].user
                                 /\ requests'[x].op = requests[x].op
                                 /\ x # r => requests'[x] = requests[x],
             requests'[r].status \notin {"absent", "erased"}
      PROVE  RowsOwned'
  BY <1>3 DEF RowsOwned, Stored
<1>4. ASSUME NEW r \in Requests, NEW g \in Requests, Attach(r, g)
      PROVE  RowsOwned'
  BY <1>3, <1>4, <1>a DEF Attach, Stored, TypeOK, Row
<1>5. ASSUME NEW r \in Requests, Begin(r) \/ Renew(r)
      PROVE  RowsOwned'
  BY <1>3, <1>5, <1>a DEF Begin, Renew, Stored, TypeOK, Row
<1>6. ASSUME NEW r \in Requests, NEW outcome \in {"succeeded", "failed", "indeterminate"},
             Settle(r, outcome)
      PROVE  RowsOwned'
  BY <1>3, <1>6, <1>a DEF Settle, Stored, TypeOK, Row
<1>7. ASSUME NEW r \in Requests, SettleDuplicate(r) \/ SettleLateAnswer(r)
      PROVE  RowsOwned'
  BY <1>3, <1>7, <1>a DEF SettleDuplicate, SettleLateAnswer, Stored, TypeOK, Row
<1>8. ASSUME NEW r \in Requests, NEW reason, Release(r, reason)
      PROVE  RowsOwned'
  BY <1>3, <1>8, <1>a DEF Release, Stored, TypeOK, Row, ActiveStatus
<1>9. ASSUME NEW u \in Users, NEW force \in BOOLEAN, DeleteAccount(u, force)
      PROVE  RowsOwned'
  <2>1. \A x \in Requests : requests'[x] = IF x \in RowsOf(u) THEN BlankRow("erased")
                                                             ELSE SweptRequests[x]
    BY <1>9 DEF DeleteAccount
  <2>2. \A x \in RowsOf(u) : requests'[x] = BlankRow(requests'[x].status)
                            /\ requests'[x].status = "erased"
    BY <2>1 DEF RowsOf, BlankRow
  <2>. QED
    BY <1>b, <2>1, <2>2 DEF RowsOwned, Stored
<1>10. ASSUME UNCHANGED requests
       PROVE  RowsOwned'
  BY <1>10 DEF RowsOwned, Stored
<1>. QED
  BY <1>1, <1>2, <1>4, <1>5, <1>6, <1>7, <1>8, <1>9, <1>10
     DEF Next, ReserveAny, ReserveRefused, CreateShell, Reconcile, Suspend, Restore, Tick, vars

-----------------------------------------------------------------------------
(* Slots and work.                                                         *)

(* SlotsMatchWork, said of any pair of tables.                             *)
Agree(rows, held) ==
  /\ \A r \in Requests : rows[r].status \in ActiveStatus
                        <=> \E s \in Slots : held[s].request = r
  /\ \A s, t \in Slots :
       /\ held[s].request # None /\ held[t].request # None
       /\ rows[held[s].request].user = rows[held[t].request].user
       => s = t

(* The two forms say the same.                                             *)
LEMMA AgreeNow == SlotsMatchWork <=> Agree(requests, slots)
BY DEF SlotsMatchWork, Agree, Active, Held, Holds

(* Ending work and clearing its slots together keeps the tables in step.   *)
LEMMA AgreeEnd ==
  ASSUME NEW E \in SUBSET Requests, NEW rows, NEW held, NEW rows2, NEW held2,
         \A s \in Slots : held[s].request \in Requests \cup {None},
         Agree(rows, held),
         \A r \in Requests \ E : rows2[r].status = rows[r].status /\ rows2[r].user = rows[r].user,
         \A r \in E : rows2[r].status \notin ActiveStatus,
         \A s \in Slots : held2[s].request = IF held[s].request \in E THEN None
                                                                    ELSE held[s].request
  PROVE  Agree(rows2, held2)
<1>. None \notin Requests
  BY ConstantsAssumption
<1>. QED
  BY DEF Agree

(* Work that goes on keeps its slot.                                       *)
LEMMA AgreeKeep ==
  ASSUME NEW rows, NEW held, NEW rows2, NEW held2,
         \A s \in Slots : held[s].request \in Requests \cup {None},
         Agree(rows, held),
         \A r \in Requests : /\ rows2[r].status \in ActiveStatus <=> rows[r].status \in ActiveStatus
                            /\ rows2[r].user = rows[r].user,
         \A s \in Slots : held2[s].request = held[s].request
  PROVE  Agree(rows2, held2)
BY DEF Agree

(* Reconciliation ends exactly the work whose slots it frees.              *)
LEMMA SweptAgree ==
  ASSUME TypeOK, SlotsMatchWork
  PROVE  Agree(SweptRequests, SweptSlots)
<1>1. \A s \in Slots : slots[s].request \in Requests \cup {None}
  BY DEF TypeOK, Slot
<1>2. \A r \in Requests \ Overdue : SweptRequests[r] = requests[r]
  BY DEF SweptRequests
<1>3. \A r \in Overdue : SweptRequests[r].status \notin ActiveStatus
  <2>1. \A r \in Requests : requests[r] \in Row
    BY DEF TypeOK
  <2>. QED
    BY <2>1 DEF SweptRequests, Lapse, Overdue, ActiveStatus, Row
<1>4. \A s \in Slots : SweptSlots[s].request = IF slots[s].request \in Overdue
                                               THEN None ELSE slots[s].request
  BY DEF SweptSlots, FreeSlot
<1>5. Overdue \in SUBSET Requests
  BY DEF Overdue
<1>6. Agree(requests, slots)
  BY AgreeNow
<1>. QED
  BY <1>1, <1>2, <1>3, <1>4, <1>5, <1>6, AgreeEnd

(* A slot the sweep left held is leased beyond the present.                *)
LEMMA SweptLeases ==
  ASSUME TypeOK, SlotsMatchWork, NEW s \in Slots, SweptSlots[s].request # None
  PROVE  /\ SweptSlots[s] = slots[s]
         /\ slots[s].request \in Requests
         /\ slots[s].expires > now
<1>1. slots[s] \in Slot /\ now \in Nat
  BY DEF TypeOK, Times
<1>2. SweptSlots[s] = slots[s] /\ slots[s].request \notin Overdue
  BY DEF SweptSlots, FreeSlot
<1>3. slots[s].request \in Requests
  BY <1>1, <1>2 DEF Slot
<1>4. Active(slots[s].request)
  BY <1>3 DEF SlotsMatchWork, Held, Holds
<1>5. ~Expired(slots[s].expires)
  BY <1>2, <1>3, <1>4 DEF Overdue, Holds
<1>. QED
  BY <1>1, <1>2, <1>3, <1>5 DEF Expired, Slot

(* Admission fills a free slot with the first work of its user.            *)
LEMMA AdmitAgree ==
  ASSUME NEW u, NEW r \in Requests, NEW slot \in Slots,
         NEW rows, NEW held, NEW rows2, NEW held2,
         \A s \in Slots : held[s].request \in Requests \cup {None},
         Agree(rows, held),
         rows[r].status \notin ActiveStatus,
         held[slot].request = None,
         \A s \in Slots : held[s].request # None => rows[held[s].request].user # u,
         \A x \in Requests \ {r} : rows2[x] = rows[x],
         rows2[r].status \in ActiveStatus, rows2[r].user = u,
         \A s \in Slots : held2[s].request = IF s = slot THEN r ELSE held[s].request
  PROVE  Agree(rows2, held2)
<1>. None \notin Requests
  BY ConstantsAssumption
<1>1. \A s \in Slots : held[s].request # r
  BY DEF Agree
<1>2. \A x \in Requests : rows2[x].status \in ActiveStatus
                          <=> \E s \in Slots : held2[s].request = x
  BY <1>1 DEF Agree
<1>3. \A s, t \in Slots :
        /\ held2[s].request # None /\ held2[t].request # None
        /\ rows2[held2[s].request].user = rows2[held2[t].request].user
        => s = t
  BY <1>1 DEF Agree
<1>. QED
  BY <1>2, <1>3 DEF Agree

(* Every step keeps the slots and the work in step.                        *)
LEMMA SlotsStep ==
  ASSUME LedgerInv, [Next]_vars
  PROVE  SlotsMatchWork'
<1>. USE DEF LedgerInv
<1>0. SUFFICES Agree(requests', slots')
  BY DEF SlotsMatchWork, Agree, Active, Held, Holds
<1>a. /\ \A r \in Requests : requests[r] \in Row
      /\ \A s \in Slots : slots[s].request \in Requests \cup {None}
      /\ requests \in [Requests -> Row] /\ slots \in [Slots -> Slot]
  BY DEF TypeOK, Slot
<1>b. /\ Agree(requests, slots)
      /\ \A s \in Slots : slots[s].request \in Requests \cup {None}
  BY <1>a, AgreeNow
<1>c. Agree(SweptRequests, SweptSlots)
  BY SweptAgree
<1>d. \A s \in Slots : SweptSlots[s].request \in Requests \cup {None}
  BY SweptTypes DEF Slot
<1>1. ASSUME NEW u \in Users, NEW r \in Requests, NEW op \in Operations, NEW k \in Keys,
             NEW at \in RequestTimes, NEW g \in Games(op), NEW deadline \in Deadlines(op, at),
             Reserve(u, r, op, k, g, at, deadline)
      PROVE  Agree(requests', slots')
  <2>1. PICK slot \in FirstFree(SweptSlots) :
          slots' = [SweptSlots EXCEPT ![slot] = [request |-> r, expires |-> LeaseEnd(op, at, deadline)]]
    BY <1>1 DEF Reserve
  <2>2. slot \in Slots /\ SweptSlots[slot].request = None
    BY DEF FirstFree
  <2>3. \A s \in Slots : slots'[s].request = IF s = slot THEN r ELSE SweptSlots[s].request
    BY <2>1 DEF SweptSlots
  <2>4. \A x \in Requests : requests'[x] =
          IF x = r THEN [BlankRow("reserved") EXCEPT !.user = u, !.op = op, !.key = k, !.game = g,
                                                     !.created = at, !.deadline = deadline]
                   ELSE SweptRequests[x]
    BY <1>1 DEF Reserve, SweptRequests
  <2>5. requests'[r].status \in ActiveStatus /\ requests'[r].user = u
    BY <2>4 DEF BlankRow, ActiveStatus
  <2>6. SweptRequests[r].status \notin ActiveStatus
    BY <1>1 DEF Reserve, SweptRequests, Overdue, Active, ActiveStatus
  <2>7. \A s \in Slots : SweptSlots[s].request # None => SweptRequests[SweptSlots[s].request].user # u
    <3>. SUFFICES ASSUME NEW s \in Slots, SweptSlots[s].request # None
                  PROVE  SweptRequests[SweptSlots[s].request].user # u
      OBVIOUS
    <3>1. SweptSlots[s] = slots[s] /\ slots[s].request \in Requests /\ slots[s].expires > now
      BY SweptLeases
    <3>2. at <= now /\ at \in Nat /\ now \in Nat /\ slots[s].expires \in Nat
      BY <1>a DEF RequestTimes, Times, TypeOK, Slot
    <3>3. requests[slots[s].request].user # u
      BY <1>1, <3>1, <3>2 DEF Reserve, HasLease
    <3>4. SweptRequests[slots[s].request].user = requests[slots[s].request].user
      BY <1>a, <3>1 DEF SweptRequests, Lapse, Row
    <3>. QED
      BY <3>1, <3>3, <3>4
  <2>8. \A x \in Requests \ {r} : requests'[x] = SweptRequests[x]
    BY <2>4
  <2>. HIDE DEF LedgerInv
  <2>. QED
    BY <1>c, <1>d, <2>2, <2>3, <2>5, <2>6, <2>7, <2>8, AdmitAgree
<1>2. ASSUME requests' = SweptRequests, slots' = SweptSlots
      PROVE  Agree(requests', slots')
  BY <1>2, <1>c
<1>3. ASSUME NEW r \in Requests,
             requests'[r].status \notin ActiveStatus,
             \A x \in Requests \ {r} : requests'[x] = requests[x],
             slots' = Clear(r)
      PROVE  Agree(requests', slots')
  <2>. DEFINE E == {r}
  <2>1. \A s \in Slots : slots'[s].request = IF slots[s].request \in E THEN None
                                                                       ELSE slots[s].request
    BY <1>3 DEF Clear, Holds, FreeSlot
  <2>2. E \in SUBSET Requests
    OBVIOUS
  <2>3. \A x \in E : requests'[x].status \notin ActiveStatus
    BY <1>3
  <2>4. \A x \in Requests \ E : /\ requests'[x].status = requests[x].status
                                 /\ requests'[x].user = requests[x].user
    BY <1>3
  <2>. HIDE DEF E
  <2>. QED
    BY <1>b, <2>1, <2>2, <2>3, <2>4, AgreeEnd
<1>4. ASSUME NEW r \in Requests,
             requests[r].status \in ActiveStatus, requests'[r].status \in ActiveStatus,
             requests'[r].user = requests[r].user,
             \A x \in Requests \ {r} : requests'[x] = requests[x],
             slots' \in {slots, Extended(r)}
      PROVE  Agree(requests', slots')
  <2>1. \A s \in Slots : slots'[s].request = slots[s].request
    BY <1>4, <1>a DEF Extended, Slot
  <2>2. \A x \in Requests : /\ requests'[x].status \in ActiveStatus <=> requests[x].status \in ActiveStatus
                            /\ requests'[x].user = requests[x].user
    BY <1>4
  <2>. QED
    BY <1>a, <1>b, <2>1, <2>2, AgreeKeep
<1>5. ASSUME NEW r \in Requests, NEW g \in Requests, Attach(r, g)
      PROVE  Agree(requests', slots')
  BY <1>4, <1>5, <1>a DEF Attach, ActiveStatus, Row
<1>6. ASSUME NEW r \in Requests, Begin(r)
      PROVE  Agree(requests', slots')
  BY <1>4, <1>6, <1>a DEF Begin, ActiveStatus, Row
<1>7. ASSUME NEW r \in Requests, Renew(r)
      PROVE  Agree(requests', slots')
  BY <1>4, <1>7, <1>a DEF Renew, ActiveStatus, Row
<1>8. ASSUME NEW r \in Requests, NEW outcome \in {"succeeded", "failed", "indeterminate"},
             Settle(r, outcome)
      PROVE  Agree(requests', slots')
  BY <1>3, <1>8, <1>a DEF Settle, ActiveStatus, Row
<1>9. ASSUME NEW r \in Requests, SettleDuplicate(r) \/ SettleLateAnswer(r)
      PROVE  Agree(requests', slots')
  BY <1>3, <1>9, <1>a DEF SettleDuplicate, SettleLateAnswer, ActiveStatus, Row
<1>10. ASSUME NEW r \in Requests, NEW reason, Release(r, reason)
       PROVE  Agree(requests', slots')
  BY <1>3, <1>10, <1>a DEF Release, ActiveStatus, Row
<1>11. ASSUME NEW u \in Users, NEW force \in BOOLEAN, DeleteAccount(u, force)
       PROVE  Agree(requests', slots')
  <2>1. \A x \in Requests : requests'[x] = IF x \in RowsOf(u) THEN BlankRow("erased")
                                                              ELSE SweptRequests[x]
    BY <1>11 DEF DeleteAccount
  <2>2. \A s \in Slots : slots'[s].request = IF SweptSlots[s].request \in RowsOf(u)
                                             THEN None ELSE SweptSlots[s].request
    BY <1>11 DEF DeleteAccount, FreeSlot
  <2>3. RowsOf(u) \in SUBSET Requests
    BY DEF RowsOf
  <2>4. \A x \in RowsOf(u) : requests'[x].status \notin ActiveStatus
    BY <2>1, <2>3 DEF BlankRow, ActiveStatus
  <2>5. \A x \in Requests \ RowsOf(u) : /\ requests'[x].status = SweptRequests[x].status
                                        /\ requests'[x].user = SweptRequests[x].user
    BY <2>1
  <2>. QED
    BY <1>c, <1>d, <2>2, <2>3, <2>4, <2>5, AgreeEnd
<1>12. ASSUME UNCHANGED <<requests, slots>>
       PROVE  Agree(requests', slots')
  BY <1>12, <1>b
<1>. QED
  BY <1>1, <1>2, <1>5, <1>6, <1>7, <1>8, <1>9, <1>10, <1>11, <1>12
     DEF Next, ReserveAny, ReserveRefused, CreateShell, Reconcile, Suspend, Restore, Tick, vars

-----------------------------------------------------------------------------
(* Steps.                                                                  *)

(* No step moves a row out of a terminal status, except deletion.          *)
LEMMA TerminalStep ==
  ASSUME TypeOK, [Next]_vars
  PROVE  TerminalStays
<1>. SUFFICES ASSUME NEW r \in Requests, Terminal(r)
              PROVE  requests'[r].status \in {requests[r].status, "erased"}
  BY DEF TerminalStays
<1>. USE DEF Terminal, TerminalStatus
<1>a. requests[r] \in Row /\ requests \in [Requests -> Row]
  BY DEF TypeOK
<1>b. requests[r].status \notin {"absent", "reserved", "in_progress"}
  OBVIOUS
<1>c. SweptRequests[r] = requests[r]
  BY <1>b DEF SweptRequests, Overdue, Active, ActiveStatus
<1>1. ASSUME NEW u, NEW x \in Requests, NEW op, NEW k, NEW at, NEW g, NEW deadline,
             Reserve(u, x, op, k, g, at, deadline)
      PROVE  requests'[r] = requests[r]
  BY <1>1, <1>b, <1>c DEF Reserve, SweptRequests
<1>2. ASSUME NEW x \in Requests, requests[x].status \in ActiveStatus,
             NEW row, requests' = [requests EXCEPT ![x] = row]
      PROVE  requests'[r] = requests[r]
  BY <1>2, <1>a, <1>b DEF ActiveStatus
<1>3. ASSUME NEW x \in Requests, NEW g, Attach(x, g)
      PROVE  requests'[r] = requests[r]
  BY <1>3, <1>a, <1>b DEF Attach
<1>4. ASSUME NEW x \in Requests, NEW outcome, Settle(x, outcome)
      PROVE  requests'[r] = requests[r]
  BY <1>4, <1>a, <1>b DEF Settle
<1>5. ASSUME NEW x \in Requests,
             Begin(x) \/ Renew(x) \/ SettleDuplicate(x) \/ SettleLateAnswer(x)
      PROVE  requests'[r] = requests[r]
  BY <1>5, <1>a, <1>b DEF Begin, Renew, SettleDuplicate, SettleLateAnswer
<1>6. ASSUME NEW x \in Requests, NEW reason, Release(x, reason)
      PROVE  requests'[r] = requests[r]
  BY <1>6, <1>a, <1>b DEF Release, ActiveStatus
<1>7. ASSUME NEW u, NEW force, DeleteAccount(u, force)
      PROVE  requests'[r].status \in {requests[r].status, "erased"}
  BY <1>7, <1>c DEF DeleteAccount, BlankRow
<1>8. ASSUME requests' = SweptRequests \/ UNCHANGED requests
      PROVE  requests'[r] = requests[r]
  BY <1>8, <1>c
<1>. QED
  BY <1>1, <1>3, <1>4, <1>5, <1>6, <1>7, <1>8
     DEF Next, ReserveAny, ReserveRefused, CreateShell, Reconcile, Suspend, Restore, Tick, vars

(* An answer that becomes succeeded does so before its deadline, which no  *)
(* step moves.                                                             *)
LEMMA AnswerStepHolds ==
  ASSUME TypeOK, RowsOwned, [Next]_vars
  PROVE  AnswerStep
<1>. SUFFICES ASSUME NEW r \in Requests, requests[r].op = "answer", requests'[r].op = "answer"
              PROVE  /\ requests'[r].deadline = requests[r].deadline
                     /\ requests'[r].status = "succeeded" /\ requests[r].status # "succeeded"
                          => now < requests[r].deadline
  BY DEF AnswerStep
<1>a. requests[r] \in Row /\ requests \in [Requests -> Row] /\ now \in Int
  BY DEF TypeOK, Times
<1>b. Stored(r)
  <2>1. None # "answer"
    BY ConstantsAssumption DEF AllOperations
  <2>2. BlankRow(requests[r].status).op = None
    BY DEF BlankRow
  <2>. QED
    BY <2>1, <2>2 DEF RowsOwned
<1>c. /\ SweptRequests[r].deadline = requests[r].deadline
      /\ SweptRequests[r].status \in {requests[r].status, "failed", "indeterminate"}
  BY <1>a DEF SweptRequests, Lapse, Row
<1>1. ASSUME NEW u, NEW x \in Requests, NEW op, NEW k, NEW at, NEW g, NEW deadline,
             Reserve(u, x, op, k, g, at, deadline)
      PROVE  requests'[r] = SweptRequests[r]
  BY <1>1, <1>b DEF Reserve, SweptRequests, Stored
<1>2. ASSUME NEW x \in Requests, NEW g, Attach(x, g)
      PROVE  requests'[r].deadline = requests[r].deadline /\ requests'[r].status = requests[r].status
  BY <1>2, <1>a DEF Attach, Row
<1>3. ASSUME NEW x \in Requests, NEW outcome, Settle(x, outcome)
      PROVE  /\ requests'[r].deadline = requests[r].deadline
             /\ requests'[r].status # requests[r].status => now < requests[r].deadline
  <2>1. CASE x = r
    <3>1. ~(requests[r].deadline <= now)
      BY <1>3, <2>1 DEF Settle, Fenced, PastDeadline, Expired
    <3>2. requests[r].deadline \in Int
      BY <1>a DEF Row
    <3>3. requests'[r].deadline = requests[r].deadline
      BY <1>3, <1>a, <2>1 DEF Settle, Row
    <3>. QED
      BY <1>a, <3>1, <3>2, <3>3
  <2>2. CASE x # r
    BY <1>3, <1>a, <2>2 DEF Settle
  <2>. QED
    BY <2>1, <2>2
<1>4. ASSUME NEW x \in Requests,
             Begin(x) \/ Renew(x) \/ SettleDuplicate(x) \/ SettleLateAnswer(x)
      PROVE  /\ requests'[r].deadline = requests[r].deadline
             /\ requests'[r].status \in {requests[r].status, "in_progress", "rejected", "indeterminate"}
  BY <1>4, <1>a DEF Begin, Renew, SettleDuplicate, SettleLateAnswer, Row
<1>5. ASSUME NEW x \in Requests, NEW reason, Release(x, reason)
      PROVE  /\ requests'[r].deadline = requests[r].deadline
             /\ requests'[r].status \in {requests[r].status, "failed"}
  BY <1>5, <1>a DEF Release, Row
<1>6. ASSUME NEW u, NEW force, DeleteAccount(u, force)
      PROVE  requests'[r] = SweptRequests[r]
  BY <1>6, ConstantsAssumption DEF DeleteAccount, BlankRow, AllOperations
<1>7. ASSUME requests' = SweptRequests \/ UNCHANGED requests
      PROVE  /\ requests'[r].deadline = requests[r].deadline
             /\ requests'[r].status \in {requests[r].status, "failed", "indeterminate"}
  BY <1>7, <1>c
<1>. QED
  BY <1>c, <1>1, <1>2, <1>3, <1>4, <1>5, <1>6, <1>7
     DEF Next, ReserveAny, ReserveRefused, CreateShell, Reconcile, Suspend, Restore, Tick, vars

(* AnswerFenceFixed, said of one slot of any pair of tables.               *)
FenceHolds(rows, held, s) ==
  held[s].request # None /\ rows[held[s].request].op = "answer"
    => held[s].expires <= rows[held[s].request].deadline + Headroom

(* A slot that is emptied, or keeps its lease and its request's deadline,  *)
(* keeps the fence.                                                        *)
LEMMA FenceKept ==
  ASSUME AnswerFenceFixed, NEW s \in Slots, NEW rows, NEW held,
         \/ held[s].request = None
         \/ /\ held[s] = slots[s]
            /\ rows[slots[s].request].op = requests[slots[s].request].op
            /\ rows[slots[s].request].deadline = requests[slots[s].request].deadline
  PROVE  FenceHolds(rows, held, s)
BY DEF AnswerFenceFixed, FenceHolds

(* Every step keeps the lease of an answer under its fence.                *)
LEMMA FenceStep ==
  ASSUME LedgerInv, AnswerFenceFixed, [Next]_vars
  PROVE  AnswerFenceFixed'
<1>. SUFFICES ASSUME NEW s \in Slots
              PROVE  FenceHolds(requests', slots', s)
  BY DEF AnswerFenceFixed, FenceHolds
<1>. USE DEF LedgerInv
<1>a. /\ requests \in [Requests -> Row] /\ slots \in [Slots -> Slot]
      /\ \A r \in Requests : requests[r] \in Row
      /\ slots[s].request \in Requests \cup {None}
  BY DEF TypeOK, Slot
<1>b. \A r \in Requests : /\ SweptRequests[r].op = requests[r].op
                          /\ SweptRequests[r].deadline = requests[r].deadline
  BY <1>a DEF SweptRequests, Lapse, Row
<1>c. SweptSlots[s].request # None => SweptSlots[s] = slots[s] /\ slots[s].request \in Requests
  BY SweptLeases
<1>d. slots[s].request # None => requests[slots[s].request].status \in ActiveStatus
  BY <1>a DEF SlotsMatchWork, Active, Held, Holds
<1>1. ASSUME NEW u \in Users, NEW r \in Requests, NEW op \in Operations, NEW k \in Keys,
             NEW at \in RequestTimes, NEW g \in Games(op), NEW deadline \in Deadlines(op, at),
             Reserve(u, r, op, k, g, at, deadline)
      PROVE  FenceHolds(requests', slots', s)
  <2>1. PICK slot \in FirstFree(SweptSlots) :
          slots' = [SweptSlots EXCEPT ![slot] = [request |-> r, expires |-> LeaseEnd(op, at, deadline)]]
    BY <1>1 DEF Reserve
  <2>2. \A x \in Requests : requests'[x] =
          IF x = r THEN [BlankRow("reserved") EXCEPT !.user = u, !.op = op, !.key = k, !.game = g,
                                                     !.created = at, !.deadline = deadline]
                   ELSE SweptRequests[x]
    BY <1>1 DEF Reserve, SweptRequests
  <2>3. CASE s = slot
    <3>1. slots'[s].request = r /\ slots'[s].expires = LeaseEnd(op, at, deadline)
      BY <2>1, <2>3 DEF SweptSlots
    <3>2. requests'[r].op = op /\ requests'[r].deadline = deadline
      BY <2>2 DEF BlankRow
    <3>3. at \in Nat /\ deadline \in Int /\ LeaseTicks \in Nat /\ Headroom \in Nat
      BY ReserveArguments, ConstantsAssumption DEF Times
    <3>4. op = "answer" => LeaseEnd(op, at, deadline) <= deadline + Headroom
      BY <3>3 DEF LeaseEnd
    <3>. QED
      BY <3>1, <3>2, <3>4 DEF FenceHolds
  <2>4. CASE s # slot /\ slots'[s].request # None
    <3>1. slots'[s] = SweptSlots[s]
      BY <2>1, <2>4 DEF SweptSlots
    <3>2. slots'[s] = slots[s] /\ slots[s].request \in Requests
      BY <1>c, <2>4, <3>1
    <3>3. slots[s].request # r
      BY <1>1, <1>d, <2>4, <3>2 DEF Reserve, ActiveStatus
    <3>4. /\ requests'[slots[s].request].op = requests[slots[s].request].op
          /\ requests'[slots[s].request].deadline = requests[slots[s].request].deadline
      BY <1>b, <2>2, <3>2, <3>3
    <3>. QED
      BY <3>2, <3>4, FenceKept
  <2>. QED
    BY <2>3, <2>4 DEF FenceHolds
<1>2. ASSUME slots'[s] \in {slots[s], SweptSlots[s], FreeSlot},
             \A r \in Requests : /\ requests'[r].op = requests[r].op
                                 /\ requests'[r].deadline = requests[r].deadline
      PROVE  FenceHolds(requests', slots', s)
  <2>1. slots'[s].request # None => slots'[s] = slots[s] /\ slots[s].request \in Requests
    BY <1>2, <1>a, <1>c DEF FreeSlot
  <2>. QED
    BY <1>2, <2>1, FenceKept
<1>3. ASSUME requests' = SweptRequests, slots' = SweptSlots
      PROVE  FenceHolds(requests', slots', s)
  BY <1>2, <1>3, <1>b
<1>4. ASSUME NEW r \in Requests, NEW g \in Requests, Attach(r, g)
      PROVE  FenceHolds(requests', slots', s)
  BY <1>2, <1>4, <1>a DEF Attach, Row
<1>5. ASSUME NEW r \in Requests, Begin(r) \/ Renew(r)
      PROVE  FenceHolds(requests', slots', s)
  <2>1. \A x \in Requests : /\ requests'[x].op = requests[x].op
                            /\ requests'[x].deadline = requests[x].deadline
    BY <1>5, <1>a DEF Begin, Renew, Row
  <2>2. slots' = Extended(r)
    BY <1>5 DEF Begin, Renew
  <2>3. CASE slots[s].request = r /\ requests[r].op # "answer"
    BY <1>a, <2>1, <2>2, <2>3 DEF Extended, Slot, FenceHolds
  <2>4. CASE slots[s].request # r \/ requests[r].op = "answer"
    <3>1. slots'[s] = slots[s]
      BY <2>2, <2>4 DEF Extended, Holds
    <3>. QED
      BY <1>2, <2>1, <3>1
  <2>. QED
    BY <2>3, <2>4
<1>6. ASSUME NEW r \in Requests, NEW outcome \in {"succeeded", "failed", "indeterminate"},
             Settle(r, outcome)
      PROVE  FenceHolds(requests', slots', s)
  BY <1>2, <1>6, <1>a DEF Settle, Clear, Row
<1>7. ASSUME NEW r \in Requests, SettleDuplicate(r) \/ SettleLateAnswer(r)
      PROVE  FenceHolds(requests', slots', s)
  BY <1>2, <1>7, <1>a DEF SettleDuplicate, SettleLateAnswer, Clear, Row
<1>8. ASSUME NEW r \in Requests, NEW reason, Release(r, reason)
      PROVE  FenceHolds(requests', slots', s)
  BY <1>2, <1>8, <1>a DEF Release, Clear, Row
<1>9. ASSUME NEW u \in Users, NEW force \in BOOLEAN, DeleteAccount(u, force)
      PROVE  FenceHolds(requests', slots', s)
  <2>1. slots'[s] = IF SweptSlots[s].request \in RowsOf(u) THEN FreeSlot ELSE SweptSlots[s]
    BY <1>9 DEF DeleteAccount
  <2>2. CASE slots'[s].request # None
    <3>1. slots'[s] = slots[s] /\ slots[s].request \in Requests \ RowsOf(u)
      BY <1>c, <2>1, <2>2 DEF FreeSlot
    <3>2. requests'[slots[s].request] = SweptRequests[slots[s].request]
      BY <1>9, <3>1 DEF DeleteAccount
    <3>. QED
      BY <1>b, <3>1, <3>2, FenceKept
  <2>. QED
    BY <2>2 DEF FenceHolds
<1>10. ASSUME UNCHANGED <<requests, slots>>
       PROVE  FenceHolds(requests', slots', s)
  BY <1>2, <1>10
<1>. QED
  BY <1>1, <1>3, <1>4, <1>5, <1>6, <1>7, <1>8, <1>9, <1>10
     DEF Next, ReserveAny, ReserveRefused, CreateShell, Reconcile, Suspend, Restore, Tick, vars

(* Reconciliation changes no bucket of a user who has no rows.             *)
LEMMA SweptEmpty ==
  ASSUME NEW u \in Users, \A r \in Requests : requests[r].user # u,
         userModel[u] = EmptyDays, userGames[u] = EmptyDays
  PROVE  /\ SweptUserModel[u] = EmptyDays
         /\ SweptUserGames[u] = EmptyDays
<1>1. \A d \in Days, st \in {"reserved", "in_progress"} :
        OverdueOf(u, d, st) = {} /\ DivisionsIn(OverdueOf(u, d, st)) = {}
  BY DEF OverdueOf, DivisionsIn, Overdue
<1>2. Move(EmptyBucket, 0, 0) = EmptyBucket
  BY DEF Move, Clamp, EmptyBucket
<1>3. /\ \A d \in Days : userModel[u][d] = EmptyBucket
      /\ \A d \in Days : userGames[u][d] = EmptyBucket
  BY DEF EmptyDays
<1>4. SweptUserModel[u] = EmptyDays
  <2>1. SweptUserModel[u] = [d \in Days |-> Move(EmptyBucket, 0, -Cardinality({}))]
    BY <1>1, <1>3 DEF SweptUserModel
  <2>2. -Cardinality({}) = 0
    BY FS_EmptySet
  <2>. QED
    BY <1>2, <2>1, <2>2 DEF EmptyDays
<1>5. SweptUserGames[u] = EmptyDays
  <2>1. SweptUserGames[u] =
          [d \in Days |-> Move(EmptyBucket, Cardinality({}), -(Cardinality({}) + Cardinality({})))]
    BY <1>1, <1>3 DEF SweptUserGames
  <2>2. Cardinality({}) = 0
    BY FS_EmptySet
  <2>3. -(Cardinality({}) + Cardinality({})) = 0
    BY <2>2
  <2>. QED
    BY <1>2, <2>1, <2>2, <2>3 DEF EmptyDays
<1>. QED
  BY <1>4, <1>5

(* A user without rows or counts, who may not reserve, gets none.          *)
Empty(u) ==
  /\ \A r \in Requests : requests[r].user # u
  /\ userModel[u] = EmptyDays /\ userGames[u] = EmptyDays

(* Every step leaves a deleted account empty.                              *)
LEMMA DeletionStep ==
  ASSUME LedgerInv, DeletionLeavesNothing, [Next]_vars
  PROVE  DeletionLeavesNothing'
<1>. SUFFICES ASSUME NEW u \in Users, account'[u] \in {"deletion_pending", "deleted"}
              PROVE  Empty(u)'
  BY DEF DeletionLeavesNothing, Empty
<1>. USE DEF LedgerInv
<1>a. /\ \A r \in Requests : requests[r] \in Row
      /\ requests \in [Requests -> Row] /\ account \in [Users -> Accounts]
      /\ userModel \in [Users -> [Days -> Bucket]] /\ userGames \in [Users -> [Days -> Bucket]]
  BY DEF TypeOK
<1>b. None # u
  BY ConstantsAssumption
<1>c. account[u] \in {"deletion_pending", "deleted"} => Empty(u)
  BY DEF DeletionLeavesNothing, Empty
<1>d. Empty(u) => /\ \A r \in Requests : SweptRequests[r].user # u
                  /\ SweptUserModel[u] = EmptyDays /\ SweptUserGames[u] = EmptyDays
  <2>1. \A r \in Requests : SweptRequests[r].user = requests[r].user
    BY <1>a DEF SweptRequests, Lapse, Row
  <2>. QED
    BY <2>1, SweptEmpty DEF Empty
<1>1. ASSUME NEW v \in Users, NEW r \in Requests, NEW op \in Operations, NEW k \in Keys,
             NEW at \in RequestTimes, NEW g \in Games(op), NEW deadline \in Deadlines(op, at),
             Reserve(v, r, op, k, g, at, deadline)
      PROVE  Empty(u)'
  <2>1. account' = [account EXCEPT ![v] = "active"]
    BY <1>1, <1>a DEF Reserve, MayReserve, Seen
  <2>2. v # u /\ account[u] \in {"deletion_pending", "deleted"}
    BY <1>a, <2>1
  <2>3. \A x \in Requests : requests'[x] =
          IF x = r THEN [BlankRow("reserved") EXCEPT !.user = v, !.op = op, !.key = k, !.game = g,
                                                     !.created = at, !.deadline = deadline]
                   ELSE SweptRequests[x]
    BY <1>1 DEF Reserve, SweptRequests
  <2>4. \A x \in Requests : requests'[x].user # u
    BY <1>c, <1>d, <2>2, <2>3 DEF BlankRow
  <2>5. userModel'[u] = SweptUserModel[u] /\ userGames'[u] = SweptUserGames[u]
    BY <1>1, <2>2 DEF Reserve, SweptUserModel, SweptUserGames
  <2>. QED
    BY <1>c, <1>d, <2>2, <2>4, <2>5 DEF Empty
<1>2. ASSUME requests' = SweptRequests, userModel' = SweptUserModel, userGames' = SweptUserGames,
             account'[u] = account[u]
      PROVE  Empty(u)'
  BY <1>2, <1>c, <1>d DEF Empty
<1>3. ASSUME NEW v \in Users, ReserveRefused(v)
      PROVE  Empty(u)'
  <2>1. account'[u] = account[u]
    BY <1>3, <1>a DEF ReserveRefused, Seen
  <2>. QED
    BY <1>2, <1>3, <2>1 DEF ReserveRefused
<1>4. ASSUME NEW r \in Requests, Stored(r), account' = account,
             \A x \in Requests : requests'[x].user = requests[x].user,
             \A v \in Users \ {requests[r].user} : /\ userModel'[v] = userModel[v]
                                                  /\ userGames'[v] = userGames[v]
      PROVE  Empty(u)'
  <2>1. Empty(u)
    BY <1>4, <1>c
  <2>2. requests[r].user # u
    BY <2>1 DEF Empty
  <2>. QED
    BY <1>4, <2>1, <2>2 DEF Empty
<1>5. ASSUME NEW r \in Requests, NEW g \in Requests, Attach(r, g)
      PROVE  Empty(u)'
  BY <1>4, <1>5, <1>a DEF Attach, buckets, Stored, Row
<1>6. ASSUME NEW r \in Requests, Begin(r)
      PROVE  Empty(u)'
  BY <1>4, <1>6, <1>a DEF Begin, Stored, Row
<1>7. ASSUME NEW r \in Requests, Renew(r)
      PROVE  Empty(u)'
  BY <1>4, <1>7, <1>a DEF Renew, buckets, Stored, Row
<1>8. ASSUME NEW r \in Requests, NEW outcome \in {"succeeded", "failed", "indeterminate"},
             Settle(r, outcome)
      PROVE  Empty(u)'
  BY <1>4, <1>8, <1>a DEF Settle, SettleGame, Stored, Row
<1>9. ASSUME NEW r \in Requests, SettleDuplicate(r)
      PROVE  Empty(u)'
  BY <1>4, <1>9, <1>a DEF SettleDuplicate, SettleGame, Stored, Row
<1>10. ASSUME NEW r \in Requests, SettleLateAnswer(r)
       PROVE  Empty(u)'
  BY <1>4, <1>10, <1>a DEF SettleLateAnswer, buckets, Stored, Row
<1>11. ASSUME NEW r \in Requests, NEW reason, Release(r, reason)
       PROVE  Empty(u)'
  <2>1. Stored(r)
    BY <1>11 DEF Release, Stored, ActiveStatus
  <2>2. \A x \in Requests : requests'[x].user = requests[x].user
    BY <1>11, <1>a DEF Release, Row
  <2>3. \A v \in Users \ {requests[r].user} : /\ userModel'[v] = userModel[v]
                                             /\ userGames'[v] = userGames[v]
    BY <1>11, <1>a DEF Release, SettleGame
  <2>4. account' = account
    BY <1>11 DEF Release
  <2>. QED
    BY <1>4, <2>1, <2>2, <2>3, <2>4
<1>12. CASE Reconcile
  BY <1>2, <1>12 DEF Reconcile
<1>13. ASSUME NEW v \in Users, NEW force \in BOOLEAN, DeleteAccount(v, force)
       PROVE  Empty(u)'
  <2>1. \A x \in Requests : requests'[x] = IF x \in RowsOf(v) THEN BlankRow("erased")
                                                              ELSE SweptRequests[x]
    BY <1>13 DEF DeleteAccount
  <2>2. CASE v = u
    <3>1. \A x \in Requests \ RowsOf(u) : requests[x].user # u
      <4>1. \A x \in Requests : ~Stored(x) => requests[x].user = None
        <5>1. \A st : BlankRow(st).user = None
          BY DEF BlankRow
        <5>. QED
          BY <5>1 DEF RowsOwned
      <4>. QED
        BY <1>b, <4>1 DEF RowsOf
    <3>2. \A x \in Requests : SweptRequests[x].user = requests[x].user
      BY <1>a DEF SweptRequests, Lapse, Row
    <3>3. \A x \in Requests : requests'[x].user # u
      BY <1>b, <2>1, <2>2, <3>1, <3>2 DEF BlankRow
    <3>4. userModel'[u] = EmptyDays /\ userGames'[u] = EmptyDays
      BY <1>13, <2>2 DEF DeleteAccount, SweptUserModel, SweptUserGames
    <3>. QED
      BY <3>3, <3>4 DEF Empty
  <2>3. CASE v # u
    <3>1. account'[u] = account[u]
      BY <1>13, <1>a, <2>3 DEF DeleteAccount
    <3>2. \A x \in Requests : requests'[x].user # u
      BY <1>b, <1>c, <1>d, <2>1, <3>1 DEF BlankRow
    <3>3. userModel'[u] = SweptUserModel[u] /\ userGames'[u] = SweptUserGames[u]
      BY <1>13, <2>3 DEF DeleteAccount, SweptUserModel, SweptUserGames
    <3>. QED
      BY <1>c, <1>d, <3>1, <3>2, <3>3 DEF Empty
  <2>. QED
    BY <2>2, <2>3
<1>14. ASSUME NEW v \in Users, Suspend(v) \/ Restore(v)
       PROVE  Empty(u)'
  <2>1. account'[u] = account[u]
    BY <1>14, <1>a DEF Suspend, Restore
  <2>. QED
    BY <1>14, <1>c, <2>1 DEF Suspend, Restore, buckets, Empty
<1>15. ASSUME UNCHANGED <<requests, userModel, userGames, account>>
       PROVE  Empty(u)'
  BY <1>15, <1>c DEF Empty
<1>. QED
  BY <1>1, <1>3, <1>5, <1>6, <1>7, <1>8, <1>9, <1>10, <1>11, <1>12, <1>13, <1>14, <1>15
     DEF Next, ReserveAny, CreateShell, Tick, vars, buckets

-----------------------------------------------------------------------------
(* What is paid for.                                                       *)

(* An idempotency key of a user's operation names one stored request: the  *)
(* strengthening OneCallPerIntent needs, because a key that was only       *)
(* reserved may be started later.                                          *)
KeysNameOneRequest ==
  \A r, x \in Requests :
    /\ Stored(r) /\ Stored(x)
    /\ requests[r].user = requests[x].user /\ requests[r].op = requests[x].op
    /\ requests[r].key = requests[x].key
    => r = x

PaidInv == KeysNameOneRequest /\ OneSuccessPerGame

(* Only a stored row can have reached the provider.                        *)
LEMMA PaidMeans ==
  ASSUME TypeOK, RowsOwned, PaidInv
  PROVE  NothingPaidTwice
<1>1. \A r \in Requests : requests[r].turns > 0 => Stored(r)
  <2>1. \A st : BlankRow(st).turns = 0
    BY DEF BlankRow
  <2>. QED
    BY <2>1 DEF RowsOwned
<1>. QED
  BY <1>1 DEF PaidInv, KeysNameOneRequest, NothingPaidTwice, OneCallPerIntent

(* A new row's key was checked against every stored row, and every other   *)
(* step keeps the keys of the rows it keeps.                               *)
LEMMA KeysStep ==
  ASSUME TypeOK, RowsOwned, KeysNameOneRequest, [Next]_vars
  PROVE  KeysNameOneRequest'
<1>a. requests \in [Requests -> Row] /\ \A r \in Requests : requests[r] \in Row
  BY DEF TypeOK
<1>b. \A r \in Requests : /\ SweptRequests[r].user = requests[r].user
                          /\ SweptRequests[r].op = requests[r].op
                          /\ SweptRequests[r].key = requests[r].key
                          /\ SweptRequests[r].status \in {"absent", "erased"}
                               <=> requests[r].status \in {"absent", "erased"}
  BY <1>a DEF SweptRequests, Lapse, Overdue, Active, ActiveStatus, Row
<1>1. ASSUME \A r \in Requests : requests'[r].status \notin {"absent", "erased"} =>
               /\ Stored(r)
               /\ requests'[r].user = requests[r].user
               /\ requests'[r].op = requests[r].op
               /\ requests'[r].key = requests[r].key
      PROVE  KeysNameOneRequest'
  BY <1>1 DEF KeysNameOneRequest, Stored
<1>2. ASSUME NEW u \in Users, NEW r \in Requests, NEW op \in Operations, NEW k \in Keys,
             NEW at \in RequestTimes, NEW g \in Games(op), NEW deadline \in Deadlines(op, at),
             Reserve(u, r, op, k, g, at, deadline)
      PROVE  KeysNameOneRequest'
  <2>1. \A x \in Requests : requests'[x] =
          IF x = r THEN [BlankRow("reserved") EXCEPT !.user = u, !.op = op, !.key = k, !.game = g,
                                                     !.created = at, !.deadline = deadline]
                   ELSE SweptRequests[x]
    BY <1>2 DEF Reserve, SweptRequests
  <2>2. requests'[r].user = u /\ requests'[r].op = op /\ requests'[r].key = k
    BY <2>1 DEF BlankRow
  <2>3. \A x \in Requests : ~(/\ Stored(x) /\ requests[x].user = u
                              /\ requests[x].op = op /\ requests[x].key = k)
    BY <1>2 DEF Reserve, Existing
  <2>4. \A x \in Requests \ {r} : Stored(x)' => /\ Stored(x)
                                                /\ requests'[x].user = requests[x].user
                                                /\ requests'[x].op = requests[x].op
                                                /\ requests'[x].key = requests[x].key
    BY <1>b, <2>1 DEF Stored
  <2>. QED
    BY <2>2, <2>3, <2>4 DEF KeysNameOneRequest
<1>3. ASSUME requests' = SweptRequests
      PROVE  KeysNameOneRequest'
  BY <1>1, <1>3, <1>b DEF Stored
<1>4. ASSUME NEW r \in Requests, NEW g \in Requests, Attach(r, g)
      PROVE  KeysNameOneRequest'
  BY <1>1, <1>4, <1>a DEF Attach, Stored, Row
<1>5. ASSUME NEW r \in Requests, Begin(r) \/ Renew(r)
      PROVE  KeysNameOneRequest'
  BY <1>1, <1>5, <1>a DEF Begin, Renew, Stored, Row
<1>6. ASSUME NEW r \in Requests, NEW outcome \in {"succeeded", "failed", "indeterminate"},
             Settle(r, outcome)
      PROVE  KeysNameOneRequest'
  BY <1>1, <1>6, <1>a DEF Settle, Stored, Row
<1>7. ASSUME NEW r \in Requests, SettleDuplicate(r) \/ SettleLateAnswer(r)
      PROVE  KeysNameOneRequest'
  BY <1>1, <1>7, <1>a DEF SettleDuplicate, SettleLateAnswer, Stored, Row
<1>8. ASSUME NEW r \in Requests, NEW reason, Release(r, reason)
      PROVE  KeysNameOneRequest'
  BY <1>1, <1>8, <1>a DEF Release, Stored, ActiveStatus, Row
<1>9. ASSUME NEW u \in Users, NEW force \in BOOLEAN, DeleteAccount(u, force)
      PROVE  KeysNameOneRequest'
  <2>1. \A x \in Requests : requests'[x] = IF x \in RowsOf(u) THEN BlankRow("erased")
                                                             ELSE SweptRequests[x]
    BY <1>9 DEF DeleteAccount
  <2>2. BlankRow("erased").status = "erased"
    BY DEF BlankRow
  <2>. QED
    BY <1>1, <1>b, <2>1, <2>2 DEF Stored
<1>10. ASSUME UNCHANGED requests
       PROVE  KeysNameOneRequest'
  BY <1>1, <1>10 DEF Stored
<1>. QED
  BY <1>2, <1>3, <1>4, <1>5, <1>6, <1>7, <1>8, <1>9, <1>10
     DEF Next, ReserveAny, ReserveRefused, CreateShell, Reconcile, Suspend, Restore, Tick, vars

(* A settlement that succeeds has looked for another success of its game's *)
(* operation, and only a reserved row may still be given a game.           *)
LEMMA SuccessStep ==
  ASSUME TypeOK, OneSuccessPerGame, [Next]_vars
  PROVE  OneSuccessPerGame'
<1>a. requests \in [Requests -> Row] /\ \A r \in Requests : requests[r] \in Row
  BY DEF TypeOK
<1>b. \A r \in Requests : SweptRequests[r].status = "succeeded" => SweptRequests[r] = requests[r]
  BY <1>a DEF SweptRequests, Lapse, Row
<1>1. ASSUME \A r \in Requests : requests'[r].status = "succeeded" =>
               /\ requests[r].status = "succeeded"
               /\ requests'[r].op = requests[r].op
               /\ requests'[r].game = requests[r].game
      PROVE  OneSuccessPerGame'
  BY <1>1 DEF OneSuccessPerGame
<1>2. ASSUME NEW u \in Users, NEW r \in Requests, NEW op \in Operations, NEW k \in Keys,
             NEW at \in RequestTimes, NEW g \in Games(op), NEW deadline \in Deadlines(op, at),
             Reserve(u, r, op, k, g, at, deadline)
      PROVE  OneSuccessPerGame'
  <2>1. \A x \in Requests : requests'[x] =
          IF x = r THEN [BlankRow("reserved") EXCEPT !.user = u, !.op = op, !.key = k, !.game = g,
                                                     !.created = at, !.deadline = deadline]
                   ELSE SweptRequests[x]
    BY <1>2 DEF Reserve, SweptRequests
  <2>2. requests'[r].status = "reserved"
    BY <2>1 DEF BlankRow
  <2>. QED
    BY <1>1, <1>b, <2>1, <2>2
<1>3. ASSUME requests' = SweptRequests
      PROVE  OneSuccessPerGame'
  BY <1>1, <1>3, <1>b
<1>4. ASSUME NEW r \in Requests, NEW g \in Requests, Attach(r, g)
      PROVE  OneSuccessPerGame'
  BY <1>1, <1>4, <1>a DEF Attach, Row
<1>5. ASSUME NEW r \in Requests, Begin(r) \/ Renew(r)
      PROVE  OneSuccessPerGame'
  BY <1>1, <1>5, <1>a DEF Begin, Renew, Row
<1>6. ASSUME NEW r \in Requests, NEW outcome \in {"succeeded", "failed", "indeterminate"},
             Settle(r, outcome)
      PROVE  OneSuccessPerGame'
  <2>1. \A x \in Requests : /\ requests'[x].op = requests[x].op
                            /\ requests'[x].game = requests[x].game
                            /\ x # r => requests'[x] = requests[x]
    BY <1>6, <1>a DEF Settle, Row
  <2>2. ~OtherSuccess(r)
    BY <1>6 DEF Settle
  <2>. QED
    BY <2>1, <2>2 DEF OneSuccessPerGame, OtherSuccess
<1>7. ASSUME NEW r \in Requests, SettleDuplicate(r) \/ SettleLateAnswer(r)
      PROVE  OneSuccessPerGame'
  BY <1>1, <1>7, <1>a DEF SettleDuplicate, SettleLateAnswer, Row
<1>8. ASSUME NEW r \in Requests, NEW reason, Release(r, reason)
      PROVE  OneSuccessPerGame'
  BY <1>1, <1>8, <1>a DEF Release, Row
<1>9. ASSUME NEW u \in Users, NEW force \in BOOLEAN, DeleteAccount(u, force)
      PROVE  OneSuccessPerGame'
  <2>1. \A x \in Requests : requests'[x] = IF x \in RowsOf(u) THEN BlankRow("erased")
                                                             ELSE SweptRequests[x]
    BY <1>9 DEF DeleteAccount
  <2>2. BlankRow("erased").status = "erased"
    BY DEF BlankRow
  <2>. QED
    BY <1>1, <1>b, <2>1, <2>2
<1>10. ASSUME UNCHANGED requests
       PROVE  OneSuccessPerGame'
  BY <1>1, <1>10
<1>. QED
  BY <1>2, <1>3, <1>4, <1>5, <1>6, <1>7, <1>8, <1>9, <1>10
     DEF Next, ReserveAny, ReserveRefused, CreateShell, Reconcile, Suspend, Restore, Tick, vars

-----------------------------------------------------------------------------
(* The books: which rows a bucket counts, said of any table of rows.       *)

Bit(b) == IF b THEN 1 ELSE 0

IsWaiting(row) == row.status = "reserved"
IsCalled(row) == row.turns > 0
IsOpenDivision(row) == row.op = "division" /\ row.status \in ActiveStatus
IsSpentDivision(row) ==
  row.op = "division" /\ (row.status = "succeeded" \/ row.failure = "provider_outcome_unknown")
IsOn(row, d) == Day(row.created) = d
IsOf(row, u, d) == row.user = u /\ IsOn(row, d)

WaitingIn(rows, u, d) == {r \in Requests : IsWaiting(rows[r]) /\ IsOf(rows[r], u, d)}
CalledIn(rows, u, d) == {r \in Requests : IsCalled(rows[r]) /\ IsOf(rows[r], u, d)}
OpenIn(rows, u, d) == {r \in Requests : IsOpenDivision(rows[r]) /\ IsOf(rows[r], u, d)}
SpentIn(rows, u, d) == {r \in Requests : IsSpentDivision(rows[r]) /\ IsOf(rows[r], u, d)}
WaitingOn(rows, d) == {r \in Requests : IsWaiting(rows[r]) /\ IsOn(rows[r], d)}
CalledOn(rows, d) == {r \in Requests : IsCalled(rows[r]) /\ IsOn(rows[r], d)}

(* BooksBalance, said of any tables.                                       *)
UserBooks(rows, um, ug) ==
  \A u \in Users, d \in Days :
    /\ um[u][d].reserved = Cardinality(WaitingIn(rows, u, d))
    /\ um[u][d].used = Cardinality(CalledIn(rows, u, d))
    /\ ug[u][d].reserved = Cardinality(OpenIn(rows, u, d))
    /\ ug[u][d].used = Cardinality(SpentIn(rows, u, d))
GlobalBooks(rows, gm) ==
  \A d \in Days : /\ gm[d].reserved = Cardinality(WaitingOn(rows, d))
                  /\ gm[d].used >= Cardinality(CalledOn(rows, d))
Quotas(um, ug, gm) ==
  /\ \A u \in Users, d \in Days : Spent(um[u][d]) <= ModelLimit /\ Spent(ug[u][d]) <= GameLimit
  /\ \A d \in Days : Spent(gm[d]) <= GlobalLimit

Books(rows, um, ug, gm) == UserBooks(rows, um, ug) /\ GlobalBooks(rows, gm) /\ Quotas(um, ug, gm)

(* The two forms say the same.                                             *)
LEMMA BooksNow == BooksBalance <=> Books(requests, userModel, userGames, globalModel)
<1>1. \A u, d : /\ ReservedBy(u, d) = WaitingIn(requests, u, d)
                /\ StartedBy(u, d) = CalledIn(requests, u, d)
                /\ DivisionsOpen(u, d) = OpenIn(requests, u, d)
                /\ DivisionsSpent(u, d) = SpentIn(requests, u, d)
  BY DEF ReservedBy, StartedBy, DivisionsOpen, DivisionsSpent, WaitingIn, CalledIn, OpenIn,
         SpentIn, IsWaiting, IsCalled, IsOpenDivision, IsSpentDivision, IsOf, IsOn, DayOf, Active
<1>2. \A d : /\ {r \in Requests : requests[r].status = "reserved" /\ DayOf(r) = d} = WaitingOn(requests, d)
             /\ {r \in Requests : requests[r].turns > 0 /\ DayOf(r) = d} = CalledOn(requests, d)
  BY DEF WaitingOn, CalledOn, IsWaiting, IsCalled, IsOn, DayOf
<1>. QED
  BY <1>1, <1>2
     DEF BooksBalance, UserBucketsBalance, GlobalBucketBalances, QuotasHold,
         Books, UserBooks, GlobalBooks, Quotas

(* What a row must say for the counts to move with it: a waiting call has  *)
(* had no turn, a call under way has had one, and only an indeterminate    *)
(* call was lost at the provider.                                          *)
RowsCoherent ==
  \A r \in Requests :
    /\ requests[r].status = "reserved" => requests[r].turns = 0
    /\ requests[r].status = "in_progress" => requests[r].turns > 0
    /\ requests[r].failure = "provider_outcome_unknown" => requests[r].status = "indeterminate"

-----------------------------------------------------------------------------
(* Counting.                                                               *)

(* Sets of requests are finite.                                            *)
LEMMA RequestSets ==
  ASSUME NEW S \in SUBSET Requests
  PROVE  IsFiniteSet(S) /\ Cardinality(S) \in Nat
BY FS_Subset, FS_CardinalityType, ConstantsAssumption

(* Two sets of requests that differ in r alone.                            *)
LEMMA CountMove ==
  ASSUME NEW S \in SUBSET Requests, NEW T \in SUBSET Requests, NEW r \in Requests,
         S \ {r} = T \ {r}
  PROVE  Cardinality(T) = Cardinality(S) + Bit(r \in T) - Bit(r \in S)
<1>1. /\ IsFiniteSet(S) /\ Cardinality(S) \in Nat
      /\ IsFiniteSet(T) /\ Cardinality(T) \in Nat
  BY RequestSets
<1>2. r \in S => Cardinality(S \ {r}) = Cardinality(S) - 1
  BY <1>1, FS_RemoveElement
<1>3. r \in T => Cardinality(T \ {r}) = Cardinality(T) - 1
  BY <1>1, FS_RemoveElement
<1>4. /\ r \notin S => S \ {r} = S
      /\ r \notin T => T \ {r} = T
  OBVIOUS
<1>. QED
  BY <1>1, <1>2, <1>3, <1>4 DEF Bit

(* A part taken out of a set, and a part added to it.                      *)
LEMMA CountDrop ==
  ASSUME NEW S \in SUBSET Requests, NEW T \in SUBSET S
  PROVE  Cardinality(S \ T) = Cardinality(S) - Cardinality(T) /\ Cardinality(T) <= Cardinality(S)
<1>1. /\ IsFiniteSet(S) /\ Cardinality(S) \in Nat
      /\ IsFiniteSet(T) /\ Cardinality(T) \in Nat
  BY RequestSets
<1>2. S \cap T = T
  OBVIOUS
<1>3. Cardinality(S \ T) = Cardinality(S) - Cardinality(S \cap T)
  BY <1>1, FS_Difference
<1>4. Cardinality(T) <= Cardinality(S)
  BY <1>1, FS_Subset
<1>. QED
  BY <1>2, <1>3, <1>4

(* Disjoint sets add up.                                                   *)
LEMMA CountJoin ==
  ASSUME NEW S \in SUBSET Requests, NEW T \in SUBSET Requests, S \cap T = {}
  PROVE  Cardinality(S \cup T) = Cardinality(S) + Cardinality(T)
<1>1. /\ IsFiniteSet(S) /\ Cardinality(S) \in Nat
      /\ IsFiniteSet(T) /\ Cardinality(T) \in Nat
  BY RequestSets
<1>2. Cardinality(S \cup T) = Cardinality(S) + Cardinality(T) - Cardinality(S \cap T)
  BY <1>1, FS_Union
<1>3. Cardinality(S \cap T) = 0
  BY FS_EmptySet
<1>. QED
  BY <1>1, <1>2, <1>3

(* One bucket moves: that of u and d, or that of d.                        *)
MovesUser(um, um2, u, d, du, dr) ==
  \A v \in Users, e \in Days :
    um2[v][e] = IF v = u /\ e = d THEN Move(um[v][e], du, dr) ELSE um[v][e]
MovesDay(gm, gm2, d, du, dr) ==
  \A e \in Days : gm2[e] = IF e = d THEN Move(gm[e], du, dr) ELSE gm[e]

(* The row of r changes, is a row of u on day d, and joins or leaves the   *)
(* four counts by the given shares.                                        *)
RowMoves(rows, rows2, r, u, d, calls, waits, spends, opens) ==
  /\ \A x \in Requests \ {r} : rows2[x] = rows[x]
  /\ Bit(IsCalled(rows2[r])) = Bit(IsCalled(rows[r])) + calls
  /\ Bit(IsWaiting(rows2[r])) = Bit(IsWaiting(rows[r])) + waits
  /\ Bit(IsSpentDivision(rows2[r])) = Bit(IsSpentDivision(rows[r])) + spends
  /\ Bit(IsOpenDivision(rows2[r])) = Bit(IsOpenDivision(rows[r])) + opens
  /\ IsOf(rows2[r], u, d)
  /\ \/ IsOf(rows[r], u, d)
     \/ /\ ~IsCalled(rows[r]) /\ ~IsWaiting(rows[r])
        /\ ~IsSpentDivision(rows[r]) /\ ~IsOpenDivision(rows[r])

(* Only a reservation charges more than it gives back, within the quotas.  *)
Affordable(um, ug, gm, u, d, models, games) ==
  /\ models <= 0 \/ (models <= 1 /\ Spent(um[u][d]) < ModelLimit /\ Spent(gm[d]) < GlobalLimit)
  /\ games <= 0 \/ (games <= 1 /\ Spent(ug[u][d]) < GameLimit)

(* One row changes, and every bucket of its user and day moves by what the *)
(* row's share in it changed by.  No clamp bites, because the new count is *)
(* the size of a set.                                                      *)
LEMMA OneRowBooks ==
  ASSUME NEW rows, NEW rows2, NEW um \in [Users -> [Days -> Bucket]],
         NEW ug \in [Users -> [Days -> Bucket]], NEW gm \in [Days -> Bucket],
         Books(rows, um, ug, gm),
         NEW r \in Requests, NEW u \in Users, NEW d \in Days,
         NEW calls \in Int, NEW waits \in Int, NEW spends \in Int, NEW opens \in Int,
         RowMoves(rows, rows2, r, u, d, calls, waits, spends, opens),
         Affordable(um, ug, gm, u, d, calls + waits, spends + opens),
         NEW um2, NEW ug2, NEW gm2,
         MovesUser(um, um2, u, d, calls, waits),
         MovesUser(ug, ug2, u, d, spends, opens),
         MovesDay(gm, gm2, d, calls, waits)
  PROVE  Books(rows2, um2, ug2, gm2)
<1>. DEFINE share(v, e, n) == IF v = u /\ e = d THEN n ELSE 0
<1>1. \A v \in Users, e \in Days :
        /\ Cardinality(WaitingIn(rows2, v, e)) = Cardinality(WaitingIn(rows, v, e)) + share(v, e, waits)
        /\ Cardinality(CalledIn(rows2, v, e)) = Cardinality(CalledIn(rows, v, e)) + share(v, e, calls)
        /\ Cardinality(OpenIn(rows2, v, e)) = Cardinality(OpenIn(rows, v, e)) + share(v, e, opens)
        /\ Cardinality(SpentIn(rows2, v, e)) = Cardinality(SpentIn(rows, v, e)) + share(v, e, spends)
  <2>. SUFFICES ASSUME NEW v \in Users, NEW e \in Days
                PROVE  /\ Cardinality(WaitingIn(rows2, v, e)) = Cardinality(WaitingIn(rows, v, e)) + share(v, e, waits)
                       /\ Cardinality(CalledIn(rows2, v, e)) = Cardinality(CalledIn(rows, v, e)) + share(v, e, calls)
                       /\ Cardinality(OpenIn(rows2, v, e)) = Cardinality(OpenIn(rows, v, e)) + share(v, e, opens)
                       /\ Cardinality(SpentIn(rows2, v, e)) = Cardinality(SpentIn(rows, v, e)) + share(v, e, spends)
    OBVIOUS
  <2>a. IsOf(rows2[r], v, e) <=> v = u /\ e = d
    BY DEF RowMoves, IsOf, IsOn
  <2>b. IsOf(rows[r], u, d) => (IsOf(rows[r], v, e) <=> v = u /\ e = d)
    BY DEF RowMoves, IsOf, IsOn
  <2>1. Cardinality(WaitingIn(rows2, v, e)) = Cardinality(WaitingIn(rows, v, e)) + share(v, e, waits)
    <3>1. WaitingIn(rows, v, e) \ {r} = WaitingIn(rows2, v, e) \ {r}
      BY DEF RowMoves, WaitingIn
    <3>2. Cardinality(WaitingIn(rows2, v, e)) = Cardinality(WaitingIn(rows, v, e))
             + Bit(r \in WaitingIn(rows2, v, e)) - Bit(r \in WaitingIn(rows, v, e))
      BY <3>1, CountMove DEF WaitingIn
    <3>3. Bit(r \in WaitingIn(rows2, v, e)) - Bit(r \in WaitingIn(rows, v, e)) = share(v, e, waits)
      <4>1. r \in WaitingIn(rows2, v, e) <=> IsWaiting(rows2[r]) /\ v = u /\ e = d
        BY <2>a DEF WaitingIn
      <4>2. r \in WaitingIn(rows, v, e) <=> IsWaiting(rows[r]) /\ v = u /\ e = d
        BY <2>b DEF RowMoves, WaitingIn
      <4>. QED
        BY <4>1, <4>2 DEF RowMoves, Bit
    <3>4. Cardinality(WaitingIn(rows, v, e)) \in Nat
      BY RequestSets DEF WaitingIn
    <3>. QED
      BY <3>2, <3>3, <3>4 DEF Bit
  <2>2. Cardinality(CalledIn(rows2, v, e)) = Cardinality(CalledIn(rows, v, e)) + share(v, e, calls)
    <3>1. CalledIn(rows, v, e) \ {r} = CalledIn(rows2, v, e) \ {r}
      BY DEF RowMoves, CalledIn
    <3>2. Cardinality(CalledIn(rows2, v, e)) = Cardinality(CalledIn(rows, v, e))
             + Bit(r \in CalledIn(rows2, v, e)) - Bit(r \in CalledIn(rows, v, e))
      BY <3>1, CountMove DEF CalledIn
    <3>3. Bit(r \in CalledIn(rows2, v, e)) - Bit(r \in CalledIn(rows, v, e)) = share(v, e, calls)
      <4>1. r \in CalledIn(rows2, v, e) <=> IsCalled(rows2[r]) /\ v = u /\ e = d
        BY <2>a DEF CalledIn
      <4>2. r \in CalledIn(rows, v, e) <=> IsCalled(rows[r]) /\ v = u /\ e = d
        BY <2>b DEF RowMoves, CalledIn
      <4>. QED
        BY <4>1, <4>2 DEF RowMoves, Bit
    <3>4. Cardinality(CalledIn(rows, v, e)) \in Nat
      BY RequestSets DEF CalledIn
    <3>. QED
      BY <3>2, <3>3, <3>4 DEF Bit
  <2>3. Cardinality(OpenIn(rows2, v, e)) = Cardinality(OpenIn(rows, v, e)) + share(v, e, opens)
    <3>1. OpenIn(rows, v, e) \ {r} = OpenIn(rows2, v, e) \ {r}
      BY DEF RowMoves, OpenIn
    <3>2. Cardinality(OpenIn(rows2, v, e)) = Cardinality(OpenIn(rows, v, e))
             + Bit(r \in OpenIn(rows2, v, e)) - Bit(r \in OpenIn(rows, v, e))
      BY <3>1, CountMove DEF OpenIn
    <3>3. Bit(r \in OpenIn(rows2, v, e)) - Bit(r \in OpenIn(rows, v, e)) = share(v, e, opens)
      <4>1. r \in OpenIn(rows2, v, e) <=> IsOpenDivision(rows2[r]) /\ v = u /\ e = d
        BY <2>a DEF OpenIn
      <4>2. r \in OpenIn(rows, v, e) <=> IsOpenDivision(rows[r]) /\ v = u /\ e = d
        BY <2>b DEF RowMoves, OpenIn
      <4>. QED
        BY <4>1, <4>2 DEF RowMoves, Bit
    <3>4. Cardinality(OpenIn(rows, v, e)) \in Nat
      BY RequestSets DEF OpenIn
    <3>. QED
      BY <3>2, <3>3, <3>4 DEF Bit
  <2>4. Cardinality(SpentIn(rows2, v, e)) = Cardinality(SpentIn(rows, v, e)) + share(v, e, spends)
    <3>1. SpentIn(rows, v, e) \ {r} = SpentIn(rows2, v, e) \ {r}
      BY DEF RowMoves, SpentIn
    <3>2. Cardinality(SpentIn(rows2, v, e)) = Cardinality(SpentIn(rows, v, e))
             + Bit(r \in SpentIn(rows2, v, e)) - Bit(r \in SpentIn(rows, v, e))
      BY <3>1, CountMove DEF SpentIn
    <3>3. Bit(r \in SpentIn(rows2, v, e)) - Bit(r \in SpentIn(rows, v, e)) = share(v, e, spends)
      <4>1. r \in SpentIn(rows2, v, e) <=> IsSpentDivision(rows2[r]) /\ v = u /\ e = d
        BY <2>a DEF SpentIn
      <4>2. r \in SpentIn(rows, v, e) <=> IsSpentDivision(rows[r]) /\ v = u /\ e = d
        BY <2>b DEF RowMoves, SpentIn
      <4>. QED
        BY <4>1, <4>2 DEF RowMoves, Bit
    <3>4. Cardinality(SpentIn(rows, v, e)) \in Nat
      BY RequestSets DEF SpentIn
    <3>. QED
      BY <3>2, <3>3, <3>4 DEF Bit
  <2>. QED
    BY <2>1, <2>2, <2>3, <2>4
<1>2. \A e \in Days :
        /\ Cardinality(WaitingOn(rows2, e)) = Cardinality(WaitingOn(rows, e)) + share(u, e, waits)
        /\ Cardinality(CalledOn(rows2, e)) = Cardinality(CalledOn(rows, e)) + share(u, e, calls)
  <2>. SUFFICES ASSUME NEW e \in Days
                PROVE  /\ Cardinality(WaitingOn(rows2, e)) = Cardinality(WaitingOn(rows, e)) + share(u, e, waits)
                       /\ Cardinality(CalledOn(rows2, e)) = Cardinality(CalledOn(rows, e)) + share(u, e, calls)
    OBVIOUS
  <2>a. IsOn(rows2[r], e) <=> e = d
    BY DEF RowMoves, IsOf, IsOn
  <2>b. IsOf(rows[r], u, d) => (IsOn(rows[r], e) <=> e = d)
    BY DEF RowMoves, IsOf, IsOn
  <2>1. Cardinality(WaitingOn(rows2, e)) = Cardinality(WaitingOn(rows, e)) + share(u, e, waits)
    <3>1. WaitingOn(rows, e) \ {r} = WaitingOn(rows2, e) \ {r}
      BY DEF RowMoves, WaitingOn
    <3>2. Cardinality(WaitingOn(rows2, e)) = Cardinality(WaitingOn(rows, e))
             + Bit(r \in WaitingOn(rows2, e)) - Bit(r \in WaitingOn(rows, e))
      BY <3>1, CountMove DEF WaitingOn
    <3>3. Bit(r \in WaitingOn(rows2, e)) - Bit(r \in WaitingOn(rows, e)) = share(u, e, waits)
      <4>1. r \in WaitingOn(rows2, e) <=> IsWaiting(rows2[r]) /\ e = d
        BY <2>a DEF WaitingOn
      <4>2. r \in WaitingOn(rows, e) <=> IsWaiting(rows[r]) /\ e = d
        BY <2>b DEF RowMoves, WaitingOn
      <4>. QED
        BY <4>1, <4>2 DEF RowMoves, Bit
    <3>4. Cardinality(WaitingOn(rows, e)) \in Nat
      BY RequestSets DEF WaitingOn
    <3>. QED
      BY <3>2, <3>3, <3>4 DEF Bit
  <2>2. Cardinality(CalledOn(rows2, e)) = Cardinality(CalledOn(rows, e)) + share(u, e, calls)
    <3>1. CalledOn(rows, e) \ {r} = CalledOn(rows2, e) \ {r}
      BY DEF RowMoves, CalledOn
    <3>2. Cardinality(CalledOn(rows2, e)) = Cardinality(CalledOn(rows, e))
             + Bit(r \in CalledOn(rows2, e)) - Bit(r \in CalledOn(rows, e))
      BY <3>1, CountMove DEF CalledOn
    <3>3. Bit(r \in CalledOn(rows2, e)) - Bit(r \in CalledOn(rows, e)) = share(u, e, calls)
      <4>1. r \in CalledOn(rows2, e) <=> IsCalled(rows2[r]) /\ e = d
        BY <2>a DEF CalledOn
      <4>2. r \in CalledOn(rows, e) <=> IsCalled(rows[r]) /\ e = d
        BY <2>b DEF RowMoves, CalledOn
      <4>. QED
        BY <4>1, <4>2 DEF RowMoves, Bit
    <3>4. Cardinality(CalledOn(rows, e)) \in Nat
      BY RequestSets DEF CalledOn
    <3>. QED
      BY <3>2, <3>3, <3>4 DEF Bit
  <2>. QED
    BY <2>1, <2>2
<1>3. \A v \in Users, e \in Days :
        /\ um2[v][e] = Move(um[v][e], share(v, e, calls), share(v, e, waits))
        /\ ug2[v][e] = Move(ug[v][e], share(v, e, spends), share(v, e, opens))
  <2>1. \A b \in Bucket : Move(b, 0, 0) = b
    BY DEF Move, Clamp, Bucket
  <2>. QED
    BY <2>1 DEF MovesUser, MovesDay
<1>4. \A e \in Days : gm2[e] = Move(gm[e], share(u, e, calls), share(u, e, waits))
  <2>1. \A b \in Bucket : Move(b, 0, 0) = b
    BY DEF Move, Clamp, Bucket
  <2>. QED
    BY <2>1 DEF MovesUser, MovesDay
<1>5. \A v \in Users, e \in Days :
        /\ Cardinality(WaitingIn(rows2, v, e)) \in Nat /\ Cardinality(CalledIn(rows2, v, e)) \in Nat
        /\ Cardinality(OpenIn(rows2, v, e)) \in Nat /\ Cardinality(SpentIn(rows2, v, e)) \in Nat
        /\ Cardinality(WaitingOn(rows2, e)) \in Nat /\ Cardinality(CalledOn(rows2, e)) \in Nat
        /\ Cardinality(CalledOn(rows, e)) \in Nat
  BY RequestSets DEF WaitingIn, CalledIn, OpenIn, SpentIn, WaitingOn, CalledOn
<1>6. \A v \in Users, e \in Days : um[v][e] \in Bucket /\ ug[v][e] \in Bucket /\ gm[e] \in Bucket
  OBVIOUS
<1>a. \A v \in Users, e \in Days, n \in Int : share(v, e, n) \in Int
  OBVIOUS
<1>b. UserBooks(rows, um, ug) /\ GlobalBooks(rows, gm) /\ Quotas(um, ug, gm)
  BY DEF Books
<1>c. \A b \in Bucket, du \in Int, dr \in Int :
        b.used + du >= 0 /\ b.reserved + dr >= 0 =>
          /\ Move(b, du, dr).used = b.used + du
          /\ Move(b, du, dr).reserved = b.reserved + dr
  BY DEF Move, Clamp, Bucket
<1>7. \A v \in Users, e \in Days :
        /\ um2[v][e].reserved = um[v][e].reserved + share(v, e, waits)
        /\ um2[v][e].used = um[v][e].used + share(v, e, calls)
        /\ ug2[v][e].reserved = ug[v][e].reserved + share(v, e, opens)
        /\ ug2[v][e].used = ug[v][e].used + share(v, e, spends)
  <2>. HIDE DEF share
  <2>. SUFFICES ASSUME NEW v \in Users, NEW e \in Days
                PROVE  /\ um2[v][e].reserved = um[v][e].reserved + share(v, e, waits)
                       /\ um2[v][e].used = um[v][e].used + share(v, e, calls)
                       /\ ug2[v][e].reserved = ug[v][e].reserved + share(v, e, opens)
                       /\ ug2[v][e].used = ug[v][e].used + share(v, e, spends)
    OBVIOUS
  <2>1. /\ um[v][e].reserved + share(v, e, waits) >= 0
        /\ um[v][e].used + share(v, e, calls) >= 0
        /\ ug[v][e].reserved + share(v, e, opens) >= 0
        /\ ug[v][e].used + share(v, e, spends) >= 0
    BY <1>1, <1>5, <1>b DEF UserBooks
  <2>. QED
    BY <1>3, <1>6, <1>a, <1>c, <2>1
<1>8. \A e \in Days : /\ gm2[e].reserved = gm[e].reserved + share(u, e, waits)
                      /\ gm2[e].used = gm[e].used + share(u, e, calls)
  <2>. HIDE DEF share
  <2>. SUFFICES ASSUME NEW e \in Days
                PROVE  /\ gm2[e].reserved = gm[e].reserved + share(u, e, waits)
                       /\ gm2[e].used = gm[e].used + share(u, e, calls)
    OBVIOUS
  <2>1. /\ Cardinality(WaitingOn(rows2, e)) = Cardinality(WaitingOn(rows, e)) + share(u, e, waits)
        /\ Cardinality(CalledOn(rows2, e)) = Cardinality(CalledOn(rows, e)) + share(u, e, calls)
        /\ Cardinality(WaitingOn(rows2, e)) \in Nat /\ Cardinality(CalledOn(rows2, e)) \in Nat
        /\ Cardinality(CalledOn(rows, e)) \in Nat
    BY <1>2, <1>5
  <2>2. /\ gm[e].reserved = Cardinality(WaitingOn(rows, e))
        /\ gm[e].used >= Cardinality(CalledOn(rows, e))
        /\ gm[e].used \in Nat
    BY <1>6, <1>b DEF GlobalBooks, Bucket
  <2>3. share(u, e, calls) \in Int /\ share(u, e, waits) \in Int
    BY <1>a
  <2>4. gm[e].reserved + share(u, e, waits) >= 0 /\ gm[e].used + share(u, e, calls) >= 0
    BY <2>1, <2>2, <2>3
  <2>. QED
    BY <1>4, <1>6, <1>c, <2>3, <2>4
<1>9. UserBooks(rows2, um2, ug2)
  BY <1>1, <1>7, <1>b DEF UserBooks
<1>10. GlobalBooks(rows2, gm2)
  <2>. HIDE DEF share
  <2>. SUFFICES ASSUME NEW e \in Days
                PROVE  /\ gm2[e].reserved = Cardinality(WaitingOn(rows2, e))
                       /\ gm2[e].used >= Cardinality(CalledOn(rows2, e))
    BY DEF GlobalBooks
  <2>1. /\ gm[e].reserved = Cardinality(WaitingOn(rows, e))
        /\ gm[e].used >= Cardinality(CalledOn(rows, e))
        /\ gm[e].used \in Nat /\ Cardinality(CalledOn(rows, e)) \in Nat
    BY <1>5, <1>6, <1>b DEF GlobalBooks, Bucket
  <2>2. share(u, e, calls) \in Int
    BY <1>a
  <2>3. gm2[e].reserved = Cardinality(WaitingOn(rows2, e))
    BY <1>2, <1>8, <2>1
  <2>4. gm2[e].used >= Cardinality(CalledOn(rows2, e))
    BY <1>2, <1>8, <2>1, <2>2
  <2>. QED
    BY <2>3, <2>4
<1>11. Quotas(um2, ug2, gm2)
  <2>1. \A v \in Users, e \in Days :
          Spent(um2[v][e]) = Spent(um[v][e]) + share(v, e, calls + waits)
    BY <1>6, <1>7 DEF Spent, Bucket
  <2>2. \A v \in Users, e \in Days :
          Spent(ug2[v][e]) = Spent(ug[v][e]) + share(v, e, spends + opens)
    BY <1>6, <1>7 DEF Spent, Bucket
  <2>3. \A e \in Days : Spent(gm2[e]) = Spent(gm[e]) + share(u, e, calls + waits)
    BY <1>6, <1>8 DEF Spent, Bucket
  <2>4. \A v \in Users, e \in Days :
          Spent(um[v][e]) \in Nat /\ Spent(ug[v][e]) \in Nat /\ Spent(gm[e]) \in Nat
    BY <1>6 DEF Spent, Bucket
  <2>5. ModelLimit \in Nat /\ GlobalLimit \in Nat /\ GameLimit \in Nat
    BY ConstantsAssumption
  <2>6. ASSUME NEW v \in Users, NEW e \in Days
        PROVE  Spent(um2[v][e]) <= ModelLimit /\ Spent(ug2[v][e]) <= GameLimit
    BY <1>b, <2>1, <2>2, <2>4, <2>5 DEF Quotas, Affordable
  <2>7. ASSUME NEW e \in Days
        PROVE  Spent(gm2[e]) <= GlobalLimit
    BY <1>b, <2>3, <2>4, <2>5 DEF Quotas, Affordable
  <2>. QED
    BY <2>6, <2>7 DEF Quotas
<1>. QED
  BY <1>9, <1>10, <1>11 DEF Books

(* The inductive form of the books.                                        *)
LedgerBooks == Books(requests, userModel, userGames, globalModel)

(* What reconciliation does to one row: work that is overdue stops waiting *)
(* or running, and a started division counts as spent.                     *)
LEMMA SweptRow ==
  ASSUME TypeOK, RowsCoherent, NEW x \in Requests
  PROVE  /\ \A u, d : IsOf(SweptRequests[x], u, d) <=> IsOf(requests[x], u, d)
         /\ \A d : IsOn(SweptRequests[x], d) <=> IsOn(requests[x], d)
         /\ IsCalled(SweptRequests[x]) <=> IsCalled(requests[x])
         /\ IsWaiting(SweptRequests[x]) <=> IsWaiting(requests[x]) /\ x \notin Overdue
         /\ IsOpenDivision(SweptRequests[x]) <=> IsOpenDivision(requests[x]) /\ x \notin Overdue
         /\ IsSpentDivision(SweptRequests[x]) <=>
              \/ IsSpentDivision(requests[x])
              \/ x \in Overdue /\ requests[x].status = "in_progress" /\ requests[x].op = "division"
         /\ x \in Overdue => requests[x].status \in ActiveStatus /\ ~IsSpentDivision(requests[x])
<1>1. requests[x] \in Row
  BY DEF TypeOK
<1>2. CASE x \notin Overdue
  <2>1. SweptRequests[x] = requests[x]
    BY <1>2 DEF SweptRequests
  <2>. QED
    BY <1>2, <2>1
<1>3. CASE x \in Overdue
  <2>1. requests[x].status \in ActiveStatus
    BY <1>3 DEF Overdue, Active
  <2>2. SweptRequests[x] = Lapse(requests[x])
    BY <1>3 DEF SweptRequests
  <2>3. /\ SweptRequests[x].user = requests[x].user
        /\ SweptRequests[x].op = requests[x].op
        /\ SweptRequests[x].created = requests[x].created
        /\ SweptRequests[x].turns = requests[x].turns
        /\ SweptRequests[x].status = IF requests[x].status = "reserved" THEN "failed" ELSE "indeterminate"
    BY <1>1, <2>2 DEF Lapse, Row
  <2>4. requests[x].op = "division" =>
          (SweptRequests[x].failure = "provider_outcome_unknown" <=> requests[x].status # "reserved")
    BY <1>1, <2>2 DEF Lapse, Row
  <2>5. ~IsSpentDivision(requests[x])
    BY <2>1 DEF IsSpentDivision, RowsCoherent, ActiveStatus
  <2>6. IsSpentDivision(SweptRequests[x]) <=> requests[x].status = "in_progress" /\ requests[x].op = "division"
    BY <2>1, <2>3, <2>4 DEF IsSpentDivision, ActiveStatus
  <2>7. ~IsWaiting(SweptRequests[x]) /\ ~IsOpenDivision(SweptRequests[x])
    BY <2>3 DEF IsWaiting, IsOpenDivision, ActiveStatus
  <2>8. /\ \A u, d : IsOf(SweptRequests[x], u, d) <=> IsOf(requests[x], u, d)
        /\ \A d : IsOn(SweptRequests[x], d) <=> IsOn(requests[x], d)
        /\ IsCalled(SweptRequests[x]) <=> IsCalled(requests[x])
    BY <2>3 DEF IsOf, IsOn, IsCalled
  <2>. QED
    BY <1>3, <2>1, <2>5, <2>6, <2>7, <2>8
<1>. QED
  BY <1>2, <1>3

(* Every refund and every charge of reconciliation is the size of the set  *)
(* of rows that leaves or joins the count.                                 *)
LEMMA SweptBooks ==
  ASSUME TypeOK, RowsCoherent, LedgerBooks
  PROVE  Books(SweptRequests, SweptUserModel, SweptUserGames, SweptGlobalModel)
<1>a. UserBooks(requests, userModel, userGames) /\ GlobalBooks(requests, globalModel)
      /\ Quotas(userModel, userGames, globalModel)
  BY DEF LedgerBooks, Books
<1>b. \A v \in Users, e \in Days :
        /\ userModel[v][e] \in Bucket /\ userGames[v][e] \in Bucket
  BY DEF TypeOK
<1>f. \A e \in Days : globalModel[e] \in Bucket
  BY DEF TypeOK
<1>c. \A b \in Bucket, du \in Int, dr \in Int :
        b.used + du >= 0 /\ b.reserved + dr >= 0 =>
          /\ Move(b, du, dr).used = b.used + du
          /\ Move(b, du, dr).reserved = b.reserved + dr
  BY DEF Move, Clamp, Bucket
<1>d. /\ ModelLimit \in Nat /\ GlobalLimit \in Nat /\ GameLimit \in Nat
  BY ConstantsAssumption
<1>e. Overdue \subseteq Requests
  BY DEF Overdue
<1>1. ASSUME NEW u \in Users, NEW d \in Days
      PROVE  /\ SweptUserModel[u][d].reserved = Cardinality(WaitingIn(SweptRequests, u, d))
             /\ SweptUserModel[u][d].used = Cardinality(CalledIn(SweptRequests, u, d))
             /\ Spent(SweptUserModel[u][d]) <= ModelLimit
  <2>. DEFINE gone == OverdueOf(u, d, "reserved")
  <2>1. gone \subseteq WaitingIn(requests, u, d)
    BY <1>e DEF OverdueOf, WaitingIn, IsWaiting, IsOf, IsOn, DayOf
  <2>2. WaitingIn(SweptRequests, u, d) = WaitingIn(requests, u, d) \ gone
    BY SweptRow DEF OverdueOf, WaitingIn, IsWaiting, IsOf, IsOn, DayOf
  <2>3. CalledIn(SweptRequests, u, d) = CalledIn(requests, u, d)
    BY SweptRow DEF CalledIn
  <2>4. WaitingIn(requests, u, d) \subseteq Requests
    BY DEF WaitingIn
  <2>. HIDE DEF gone
  <2>5. /\ Cardinality(WaitingIn(SweptRequests, u, d)) = Cardinality(WaitingIn(requests, u, d)) - Cardinality(gone)
        /\ Cardinality(gone) <= Cardinality(WaitingIn(requests, u, d))
        /\ Cardinality(gone) \in Nat
    BY <2>1, <2>2, <2>4, CountDrop, RequestSets
  <2>6. SweptUserModel[u][d] = Move(userModel[u][d], 0, -Cardinality(gone))
    BY DEF SweptUserModel, gone
  <2>7. /\ userModel[u][d].reserved = Cardinality(WaitingIn(requests, u, d))
        /\ userModel[u][d].used = Cardinality(CalledIn(requests, u, d))
        /\ userModel[u][d].reserved \in Nat /\ userModel[u][d].used \in Nat
        /\ userModel[u][d].used + userModel[u][d].reserved <= ModelLimit
    BY <1>a, <1>b DEF UserBooks, Quotas, Spent, Bucket
  <2>8. /\ SweptUserModel[u][d].used = userModel[u][d].used
        /\ SweptUserModel[u][d].reserved = userModel[u][d].reserved - Cardinality(gone)
    BY <1>b, <1>c, <2>5, <2>6, <2>7
  <2>. QED
    BY <1>d, <2>3, <2>5, <2>7, <2>8 DEF Spent
<1>2. ASSUME NEW u \in Users, NEW d \in Days
      PROVE  /\ SweptUserGames[u][d].reserved = Cardinality(OpenIn(SweptRequests, u, d))
             /\ SweptUserGames[u][d].used = Cardinality(SpentIn(SweptRequests, u, d))
             /\ Spent(SweptUserGames[u][d]) <= GameLimit
  <2>. DEFINE started == DivisionsIn(OverdueOf(u, d, "in_progress"))
              unsent  == DivisionsIn(OverdueOf(u, d, "reserved"))
  <2>1. /\ started \subseteq Requests /\ unsent \subseteq Requests
        /\ started \cap unsent = {}
    BY <1>e DEF OverdueOf, DivisionsIn
  <2>2. started \cup unsent \subseteq OpenIn(requests, u, d)
    BY <1>e DEF OverdueOf, DivisionsIn, OpenIn, IsOpenDivision, ActiveStatus, IsOf, IsOn, DayOf
  <2>3. OpenIn(SweptRequests, u, d) = OpenIn(requests, u, d) \ (started \cup unsent)
    BY SweptRow DEF OverdueOf, DivisionsIn, OpenIn, IsOpenDivision, ActiveStatus, IsOf, IsOn, DayOf
  <2>4. SpentIn(SweptRequests, u, d) = SpentIn(requests, u, d) \cup started
    BY <1>e, SweptRow DEF OverdueOf, DivisionsIn, SpentIn, IsOf, IsOn, DayOf
  <2>5. SpentIn(requests, u, d) \cap started = {}
    BY SweptRow DEF OverdueOf, DivisionsIn, SpentIn
  <2>6. OpenIn(requests, u, d) \subseteq Requests /\ SpentIn(requests, u, d) \subseteq Requests
    BY DEF OpenIn, SpentIn
  <2>7. SweptUserGames[u][d] = Move(userGames[u][d], Cardinality(started),
                                    -(Cardinality(started) + Cardinality(unsent)))
    BY DEF SweptUserGames
  <2>. HIDE DEF started, unsent
  <2>8. /\ Cardinality(started \cup unsent) = Cardinality(started) + Cardinality(unsent)
        /\ Cardinality(started) \in Nat /\ Cardinality(unsent) \in Nat
    BY <2>1, CountJoin, RequestSets
  <2>9. /\ Cardinality(OpenIn(SweptRequests, u, d)) =
             Cardinality(OpenIn(requests, u, d)) - Cardinality(started \cup unsent)
        /\ Cardinality(started \cup unsent) <= Cardinality(OpenIn(requests, u, d))
    BY <2>2, <2>3, <2>6, CountDrop
  <2>10. Cardinality(SpentIn(SweptRequests, u, d)) =
           Cardinality(SpentIn(requests, u, d)) + Cardinality(started)
    BY <2>1, <2>4, <2>5, <2>6, CountJoin
  <2>11. /\ userGames[u][d].reserved = Cardinality(OpenIn(requests, u, d))
         /\ userGames[u][d].used = Cardinality(SpentIn(requests, u, d))
         /\ userGames[u][d].reserved \in Nat /\ userGames[u][d].used \in Nat
         /\ userGames[u][d].used + userGames[u][d].reserved <= GameLimit
    BY <1>a, <1>b DEF UserBooks, Quotas, Spent, Bucket
  <2>12. /\ userGames[u][d].used + Cardinality(started) >= 0
         /\ userGames[u][d].reserved + (-(Cardinality(started) + Cardinality(unsent))) >= 0
    BY <2>8, <2>9, <2>11
  <2>13. /\ SweptUserGames[u][d].used = userGames[u][d].used + Cardinality(started)
         /\ SweptUserGames[u][d].reserved =
              userGames[u][d].reserved + (-(Cardinality(started) + Cardinality(unsent)))
    BY <1>b, <1>c, <2>7, <2>8, <2>12
  <2>. QED
    BY <1>d, <2>8, <2>9, <2>10, <2>11, <2>13 DEF Spent
<1>3. ASSUME NEW d \in Days
      PROVE  /\ SweptGlobalModel[d].reserved = Cardinality(WaitingOn(SweptRequests, d))
             /\ SweptGlobalModel[d].used >= Cardinality(CalledOn(SweptRequests, d))
             /\ Spent(SweptGlobalModel[d]) <= GlobalLimit
  <2>. DEFINE gone == OverdueOn(d)
  <2>1. gone \subseteq WaitingOn(requests, d)
    BY <1>e DEF OverdueOn, WaitingOn, IsWaiting, IsOn, DayOf
  <2>2. WaitingOn(SweptRequests, d) = WaitingOn(requests, d) \ gone
    BY SweptRow DEF OverdueOn, WaitingOn, IsWaiting, IsOn, DayOf
  <2>3. CalledOn(SweptRequests, d) = CalledOn(requests, d)
    BY SweptRow DEF CalledOn
  <2>4. WaitingOn(requests, d) \subseteq Requests
    BY DEF WaitingOn
  <2>. HIDE DEF gone
  <2>5. /\ Cardinality(WaitingOn(SweptRequests, d)) = Cardinality(WaitingOn(requests, d)) - Cardinality(gone)
        /\ Cardinality(gone) <= Cardinality(WaitingOn(requests, d))
        /\ Cardinality(gone) \in Nat
    BY <2>1, <2>2, <2>4, CountDrop, RequestSets
  <2>6. SweptGlobalModel[d] = Move(globalModel[d], 0, -Cardinality(gone))
    BY DEF SweptGlobalModel, gone
  <2>7. /\ globalModel[d].reserved = Cardinality(WaitingOn(requests, d))
        /\ globalModel[d].used >= Cardinality(CalledOn(requests, d))
        /\ globalModel[d].reserved \in Nat /\ globalModel[d].used \in Nat
        /\ globalModel[d].used + globalModel[d].reserved <= GlobalLimit
    BY <1>a, <1>f DEF GlobalBooks, Quotas, Spent, Bucket
  <2>8. /\ SweptGlobalModel[d].used = globalModel[d].used
        /\ SweptGlobalModel[d].reserved = globalModel[d].reserved - Cardinality(gone)
    BY <1>c, <1>f, <2>5, <2>6, <2>7
  <2>. QED
    BY <1>d, <2>3, <2>5, <2>7, <2>8 DEF Spent
<1>. QED
  BY <1>1, <1>2, <1>3 DEF Books, UserBooks, GlobalBooks, Quotas

(* The waiting rows of a set, of one day.                                  *)
WaitingOf(E, rows, d) == {x \in E : IsWaiting(rows[x]) /\ IsOn(rows[x], d)}

(* The rows of u, and no others, are erased, and the counts of u with them.*)
Erases(rows, rows2, u, E) ==
  /\ \A x \in Requests \ E : rows2[x] = rows[x] /\ rows[x].user # u
  /\ \A x \in E : rows[x].user = u /\ rows2[x] = BlankRow("erased")
Empties(um, um2, u) == \A v \in Users : um2[v] = IF v = u THEN EmptyDays ELSE um[v]
Refunds(gm, gm2, rows, E) ==
  \A d \in Days : gm2[d] = Move(gm[d], 0, -Cardinality(WaitingOf(E, rows, d)))

(* Erasing a user's rows empties that user's buckets, refunds the waiting  *)
(* rows to the deployment and leaves every other user's counts alone.      *)
LEMMA ErasedBooks ==
  ASSUME NEW rows, NEW rows2, NEW um \in [Users -> [Days -> Bucket]],
         NEW ug \in [Users -> [Days -> Bucket]], NEW gm \in [Days -> Bucket],
         Books(rows, um, ug, gm),
         NEW u \in Users, NEW E \in SUBSET Requests,
         Erases(rows, rows2, u, E),
         NEW um2, NEW ug2, NEW gm2,
         Empties(um, um2, u), Empties(ug, ug2, u), Refunds(gm, gm2, rows, E)
  PROVE  Books(rows2, um2, ug2, gm2)
<1>. DEFINE back(d) == WaitingOf(E, rows, d)
<1>a. UserBooks(rows, um, ug) /\ GlobalBooks(rows, gm) /\ Quotas(um, ug, gm)
  BY DEF Books
<1>b. /\ ~IsWaiting(BlankRow("erased")) /\ ~IsCalled(BlankRow("erased"))
      /\ ~IsOpenDivision(BlankRow("erased")) /\ ~IsSpentDivision(BlankRow("erased"))
  BY DEF IsWaiting, IsCalled, IsOpenDivision, IsSpentDivision, BlankRow, ActiveStatus
<1>c. \A b \in Bucket, dr \in Int :
        b.reserved + dr >= 0 => /\ Move(b, 0, dr).used = b.used
                                /\ Move(b, 0, dr).reserved = b.reserved + dr
  BY DEF Move, Clamp, Bucket
<1>d. ModelLimit \in Nat /\ GlobalLimit \in Nat /\ GameLimit \in Nat
  BY ConstantsAssumption
<1>1. ASSUME NEW v \in Users, NEW d \in Days
      PROVE  /\ um2[v][d].reserved = Cardinality(WaitingIn(rows2, v, d))
             /\ um2[v][d].used = Cardinality(CalledIn(rows2, v, d))
             /\ ug2[v][d].reserved = Cardinality(OpenIn(rows2, v, d))
             /\ ug2[v][d].used = Cardinality(SpentIn(rows2, v, d))
             /\ Spent(um2[v][d]) <= ModelLimit /\ Spent(ug2[v][d]) <= GameLimit
  <2>1. CASE v = u
    <3>1. /\ WaitingIn(rows2, v, d) = {} /\ CalledIn(rows2, v, d) = {}
          /\ OpenIn(rows2, v, d) = {} /\ SpentIn(rows2, v, d) = {}
      BY <1>b, <2>1 DEF Erases, WaitingIn, CalledIn, OpenIn, SpentIn, IsOf
    <3>2. um2[v][d] = EmptyBucket /\ ug2[v][d] = EmptyBucket
      BY <2>1 DEF Empties, EmptyDays
    <3>. QED
      BY <1>d, <3>1, <3>2, FS_EmptySet DEF EmptyBucket, Spent
  <2>2. CASE v # u
    <3>1. um2[v][d] = um[v][d] /\ ug2[v][d] = ug[v][d]
      BY <2>2 DEF Empties
    <3>2. /\ WaitingIn(rows2, v, d) = WaitingIn(rows, v, d)
          /\ CalledIn(rows2, v, d) = CalledIn(rows, v, d)
          /\ OpenIn(rows2, v, d) = OpenIn(rows, v, d)
          /\ SpentIn(rows2, v, d) = SpentIn(rows, v, d)
      BY <1>b, <2>2 DEF Erases, WaitingIn, CalledIn, OpenIn, SpentIn, IsOf
    <3>. QED
      BY <1>a, <3>1, <3>2 DEF UserBooks, Quotas
  <2>. QED
    BY <2>1, <2>2
<1>2. ASSUME NEW d \in Days
      PROVE  /\ gm2[d].reserved = Cardinality(WaitingOn(rows2, d))
             /\ gm2[d].used >= Cardinality(CalledOn(rows2, d))
             /\ Spent(gm2[d]) <= GlobalLimit
  <2>1. /\ back(d) \subseteq WaitingOn(rows, d)
        /\ WaitingOn(rows, d) \subseteq Requests /\ CalledOn(rows, d) \subseteq Requests
        /\ CalledOn(rows2, d) \subseteq Requests
    BY DEF WaitingOn, CalledOn, WaitingOf
  <2>2. WaitingOn(rows2, d) = WaitingOn(rows, d) \ back(d)
    BY <1>b DEF Erases, WaitingOn, WaitingOf
  <2>3. CalledOn(rows2, d) \subseteq CalledOn(rows, d)
    BY <1>b DEF Erases, CalledOn
  <2>4. gm2[d] = Move(gm[d], 0, -Cardinality(back(d)))
    BY DEF Refunds
  <2>. HIDE DEF back
  <2>5. /\ Cardinality(WaitingOn(rows2, d)) = Cardinality(WaitingOn(rows, d)) - Cardinality(back(d))
        /\ Cardinality(back(d)) <= Cardinality(WaitingOn(rows, d))
        /\ Cardinality(back(d)) \in Nat
    BY <2>1, <2>2, CountDrop, RequestSets
  <2>6. /\ Cardinality(CalledOn(rows2, d)) <= Cardinality(CalledOn(rows, d))
        /\ Cardinality(CalledOn(rows2, d)) \in Nat /\ Cardinality(CalledOn(rows, d)) \in Nat
    BY <2>1, <2>3, CountDrop, RequestSets
  <2>7. /\ gm[d].reserved = Cardinality(WaitingOn(rows, d))
        /\ gm[d].used >= Cardinality(CalledOn(rows, d))
        /\ gm[d] \in Bucket /\ gm[d].reserved \in Nat /\ gm[d].used \in Nat
        /\ gm[d].used + gm[d].reserved <= GlobalLimit
    BY <1>a DEF GlobalBooks, Quotas, Spent, Bucket
  <2>8. gm2[d].used = gm[d].used /\ gm2[d].reserved = gm[d].reserved - Cardinality(back(d))
    BY <1>c, <2>4, <2>5, <2>7
  <2>. QED
    BY <1>d, <2>5, <2>6, <2>7, <2>8 DEF Spent
<1>. QED
  BY <1>1, <1>2 DEF Books, UserBooks, GlobalBooks, Quotas

(* A bucket that moves by nothing stays.                                   *)
LEMMA MoveNothing ==
  ASSUME NEW b \in Bucket
  PROVE  Move(b, 0, 0) = b
BY DEF Move, Clamp, Bucket

(* OneRowBooks for a step of a stored request that keeps its owner and day.*)
LEMMA StoredRowBooks ==
  ASSUME TypeOK, RowsOwned, LedgerBooks, NEW r \in Requests, Stored(r),
         NEW calls \in Int, NEW waits \in Int, NEW spends \in Int, NEW opens \in Int,
         calls + waits <= 0, spends + opens <= 0,
         \A x \in Requests \ {r} : requests'[x] = requests[x],
         requests'[r].user = requests[r].user, requests'[r].created = requests[r].created,
         Bit(IsCalled(requests'[r])) = Bit(IsCalled(requests[r])) + calls,
         Bit(IsWaiting(requests'[r])) = Bit(IsWaiting(requests[r])) + waits,
         Bit(IsSpentDivision(requests'[r])) = Bit(IsSpentDivision(requests[r])) + spends,
         Bit(IsOpenDivision(requests'[r])) = Bit(IsOpenDivision(requests[r])) + opens,
         userModel' = [userModel EXCEPT ![requests[r].user][DayOf(r)] = Move(@, calls, waits)],
         userGames' = [userGames EXCEPT ![requests[r].user][DayOf(r)] = Move(@, spends, opens)],
         globalModel' = [globalModel EXCEPT ![DayOf(r)] = Move(@, calls, waits)]
  PROVE  LedgerBooks'
<1>. DEFINE u == requests[r].user
            d == DayOf(r)
<1>1. u \in Users /\ d \in Days
  BY RowFacts
<1>2. IsOf(requests[r], u, d) /\ IsOf(requests'[r], u, d)
  BY DEF IsOf, IsOn, DayOf
<1>3. /\ userModel \in [Users -> [Days -> Bucket]] /\ userGames \in [Users -> [Days -> Bucket]]
      /\ globalModel \in [Days -> Bucket]
  BY DEF TypeOK
<1>4. Books(requests, userModel, userGames, globalModel)
  BY DEF LedgerBooks
<1>5. /\ MovesUser(userModel, userModel', u, d, calls, waits)
      /\ MovesUser(userGames, userGames', u, d, spends, opens)
      /\ MovesDay(globalModel, globalModel', d, calls, waits)
  BY <1>3 DEF MovesUser, MovesDay
<1>. HIDE DEF u, d
<1>6. RowMoves(requests, requests', r, u, d, calls, waits, spends, opens)
  BY <1>2 DEF RowMoves
<1>7. Affordable(userModel, userGames, globalModel, u, d, calls + waits, spends + opens)
  BY DEF Affordable
<1>8. Books(requests', userModel', userGames', globalModel')
  BY <1>1, <1>3, <1>4, <1>5, <1>6, <1>7, OneRowBooks
<1>. QED
  BY <1>8 DEF LedgerBooks

(* Every step leaves rows that the counts can follow.                      *)
LEMMA CoherentStep ==
  ASSUME TypeOK, RowsCoherent, [Next]_vars
  PROVE  RowsCoherent'
<1>a. requests \in [Requests -> Row] /\ \A r \in Requests : requests[r] \in Row
  BY DEF TypeOK
<1>b. \A r \in Requests : /\ SweptRequests[r].status = "reserved" => SweptRequests[r].turns = 0
                          /\ SweptRequests[r].status = "in_progress" => SweptRequests[r].turns > 0
                          /\ SweptRequests[r].failure = "provider_outcome_unknown"
                               => SweptRequests[r].status = "indeterminate"
  BY <1>a DEF SweptRequests, Lapse, Row, RowsCoherent
<1>c. \A st : BlankRow(st).status = st /\ BlankRow(st).turns = 0 /\ BlankRow(st).failure = "none"
  BY DEF BlankRow
<1>1. ASSUME NEW u \in Users, NEW r \in Requests, NEW op \in Operations, NEW k \in Keys,
             NEW at \in RequestTimes, NEW g \in Games(op), NEW deadline \in Deadlines(op, at),
             Reserve(u, r, op, k, g, at, deadline)
      PROVE  RowsCoherent'
  <2>1. \A x \in Requests : requests'[x] =
          IF x = r THEN [BlankRow("reserved") EXCEPT !.user = u, !.op = op, !.key = k, !.game = g,
                                                     !.created = at, !.deadline = deadline]
                   ELSE SweptRequests[x]
    BY <1>1 DEF Reserve, SweptRequests
  <2>2. requests'[r].status = "reserved" /\ requests'[r].turns = 0 /\ requests'[r].failure = "none"
    BY <2>1 DEF BlankRow
  <2>. QED
    BY <1>b, <2>1, <2>2 DEF RowsCoherent
<1>2. ASSUME requests' = SweptRequests
      PROVE  RowsCoherent'
  BY <1>2, <1>b DEF RowsCoherent
<1>3. ASSUME NEW r \in Requests,
             \A x \in Requests \ {r} : requests'[x] = requests[x],
             requests'[r].status = "reserved" => requests'[r].turns = 0,
             requests'[r].status = "in_progress" => requests'[r].turns > 0,
             requests'[r].failure = "provider_outcome_unknown" => requests'[r].status = "indeterminate"
      PROVE  RowsCoherent'
  BY <1>3 DEF RowsCoherent
<1>4. ASSUME NEW r \in Requests, NEW g \in Requests, Attach(r, g)
      PROVE  RowsCoherent'
  BY <1>3, <1>4, <1>a DEF Attach, Row, RowsCoherent
<1>5. ASSUME NEW r \in Requests, Begin(r)
      PROVE  RowsCoherent'
  BY <1>3, <1>5, <1>a DEF Begin, Row, RowsCoherent
<1>6. ASSUME NEW r \in Requests, Renew(r)
      PROVE  RowsCoherent'
  BY <1>3, <1>6, <1>a DEF Renew, Row, RowsCoherent
<1>7. ASSUME NEW r \in Requests, NEW outcome \in {"succeeded", "failed", "indeterminate"},
             Settle(r, outcome)
      PROVE  RowsCoherent'
  BY <1>3, <1>7, <1>a DEF Settle, Row
<1>8. ASSUME NEW r \in Requests, SettleDuplicate(r) \/ SettleLateAnswer(r)
      PROVE  RowsCoherent'
  BY <1>3, <1>8, <1>a DEF SettleDuplicate, SettleLateAnswer, Row
<1>9. ASSUME NEW r \in Requests, NEW reason, Release(r, reason)
      PROVE  RowsCoherent'
  BY <1>3, <1>9, <1>a DEF Release, Row
<1>10. ASSUME NEW u \in Users, NEW force \in BOOLEAN, DeleteAccount(u, force)
       PROVE  RowsCoherent'
  <2>1. \A x \in Requests : requests'[x] = IF x \in RowsOf(u) THEN BlankRow("erased")
                                                             ELSE SweptRequests[x]
    BY <1>10 DEF DeleteAccount
  <2>. QED
    BY <1>b, <1>c, <2>1 DEF RowsCoherent
<1>11. ASSUME UNCHANGED requests
       PROVE  RowsCoherent'
  BY <1>11 DEF RowsCoherent
<1>. QED
  BY <1>1, <1>2, <1>4, <1>5, <1>6, <1>7, <1>8, <1>9, <1>10, <1>11
     DEF Next, ReserveAny, ReserveRefused, CreateShell, Reconcile, Suspend, Restore, Tick, vars

(* Every step keeps the books.                                             *)
LEMMA BooksStep ==
  ASSUME LedgerInv, RowsCoherent, LedgerBooks, [Next]_vars
  PROVE  LedgerBooks'
<1>a. /\ requests \in [Requests -> Row] /\ \A r \in Requests : requests[r] \in Row
      /\ userModel \in [Users -> [Days -> Bucket]] /\ userGames \in [Users -> [Days -> Bucket]]
      /\ globalModel \in [Days -> Bucket]
  BY DEF LedgerInv, TypeOK
<1>b. TypeOK /\ RowsOwned
  BY DEF LedgerInv
<1>c. Books(SweptRequests, SweptUserModel, SweptUserGames, SweptGlobalModel)
  BY <1>b, SweptBooks
<1>d. /\ SweptUserModel \in [Users -> [Days -> Bucket]]
      /\ SweptUserGames \in [Users -> [Days -> Bucket]]
      /\ SweptGlobalModel \in [Days -> Bucket]
  BY <1>b, SweptTypes
<1>. DEFINE same == 0
            one == 1
            less == -1
<1>g. same = 0 /\ one = 1 /\ less = -1
  OBVIOUS
<1>h. /\ same \in Int /\ one \in Int /\ less \in Int
      /\ same + same <= 0 /\ one + less <= 0 /\ same + one <= 1
  OBVIOUS
<1>. HIDE DEF same, one, less
<1>e. \A r \in Requests : Stored(r) =>
        /\ userModel = [userModel EXCEPT ![requests[r].user][DayOf(r)] = Move(@, same, same)]
        /\ userGames = [userGames EXCEPT ![requests[r].user][DayOf(r)] = Move(@, same, same)]
        /\ globalModel = [globalModel EXCEPT ![DayOf(r)] = Move(@, same, same)]
  <2>. SUFFICES ASSUME NEW r \in Requests, Stored(r)
                PROVE  /\ userModel = [userModel EXCEPT ![requests[r].user][DayOf(r)] = Move(@, same, same)]
                       /\ userGames = [userGames EXCEPT ![requests[r].user][DayOf(r)] = Move(@, same, same)]
                       /\ globalModel = [globalModel EXCEPT ![DayOf(r)] = Move(@, same, same)]
    OBVIOUS
  <2>1. requests[r].user \in Users /\ DayOf(r) \in Days
    BY <1>b, RowFacts
  <2>2. /\ userModel = [userModel EXCEPT ![requests[r].user][DayOf(r)] = Move(@, 0, 0)]
        /\ userGames = [userGames EXCEPT ![requests[r].user][DayOf(r)] = Move(@, 0, 0)]
        /\ globalModel = [globalModel EXCEPT ![DayOf(r)] = Move(@, 0, 0)]
    <3>1. /\ userModel[requests[r].user][DayOf(r)] \in Bucket
          /\ userGames[requests[r].user][DayOf(r)] \in Bucket
          /\ globalModel[DayOf(r)] \in Bucket
      BY <1>a, <2>1
    <3>. QED
      BY <1>a, <2>1, <3>1, MoveNothing
  <2>. QED
    BY <1>g, <2>2
<1>1. ASSUME NEW u \in Users, NEW r \in Requests, NEW op \in Operations, NEW k \in Keys,
             NEW at \in RequestTimes, NEW g \in Games(op), NEW deadline \in Deadlines(op, at),
             Reserve(u, r, op, k, g, at, deadline)
      PROVE  LedgerBooks'
  <2>. DEFINE d == Day(at)
              opens == IF op = "division" THEN 1 ELSE 0
  <2>1. d \in Days
    BY <1>b, ReserveArguments, DayType
  <2>2. \A x \in Requests : requests'[x] =
          IF x = r THEN [BlankRow("reserved") EXCEPT !.user = u, !.op = op, !.key = k, !.game = g,
                                                     !.created = at, !.deadline = deadline]
                   ELSE SweptRequests[x]
    BY <1>1 DEF Reserve, SweptRequests
  <2>3. \A x \in Requests \ {r} : requests'[x] = SweptRequests[x]
    BY <2>2
  <2>4. /\ requests'[r].status = "reserved" /\ requests'[r].turns = 0 /\ requests'[r].failure = "none"
        /\ requests'[r].user = u /\ requests'[r].op = op /\ requests'[r].created = at
    BY <2>2 DEF BlankRow
  <2>5. /\ IsOf(requests'[r], u, d) /\ ~IsCalled(requests'[r]) /\ IsWaiting(requests'[r])
        /\ ~IsSpentDivision(requests'[r])
        /\ Bit(IsOpenDivision(requests'[r])) = opens
    BY <2>4 DEF IsOf, IsOn, IsCalled, IsWaiting, IsSpentDivision, IsOpenDivision, Bit, ActiveStatus
  <2>6. /\ ~IsCalled(SweptRequests[r]) /\ ~IsWaiting(SweptRequests[r])
        /\ ~IsSpentDivision(SweptRequests[r]) /\ ~IsOpenDivision(SweptRequests[r])
    <3>1. requests[r].status = "absent"
      BY <1>1 DEF Reserve
    <3>2. SweptRequests[r] = BlankRow("absent")
      BY <1>b, <3>1 DEF SweptRequests, Overdue, Active, ActiveStatus, RowsOwned, Stored
    <3>. QED
      BY <3>2 DEF IsCalled, IsWaiting, IsSpentDivision, IsOpenDivision, BlankRow, ActiveStatus
  <2>7. /\ Spent(SweptUserModel[u][d]) < ModelLimit /\ Spent(SweptGlobalModel[d]) < GlobalLimit
        /\ op = "division" => Spent(SweptUserGames[u][d]) < GameLimit
    BY <1>1 DEF Reserve, WithinQuotas
  <2>8. /\ userModel' = [SweptUserModel EXCEPT ![u][d] = Move(@, same, one)]
        /\ globalModel' = [SweptGlobalModel EXCEPT ![d] = Move(@, same, one)]
    BY <1>1, <1>g DEF Reserve, Hold
  <2>9. userGames' = [SweptUserGames EXCEPT ![u][d] = Move(@, same, opens)]
    <3>1. CASE op = "division"
      BY <1>1, <1>g, <3>1 DEF Reserve, Hold
    <3>2. CASE op # "division"
      <4>1. SweptUserGames = [SweptUserGames EXCEPT ![u][d] = Move(@, 0, 0)]
        <5>1. SweptUserGames[u][d] \in Bucket
          BY <1>d, <2>1
        <5>. QED
          BY <1>d, <2>1, <5>1, MoveNothing
      <4>. QED
        BY <1>1, <1>g, <3>2, <4>1 DEF Reserve
    <3>. QED
      BY <3>1, <3>2
  <2>10. /\ opens \in Int /\ (op = "division" => opens = 1) /\ (op # "division" => opens = 0)
    OBVIOUS
  <2>11. same + opens <= 0 \/ (same + opens <= 1 /\ Spent(SweptUserGames[u][d]) < GameLimit)
    BY <1>g, <2>7, <2>10
  <2>12. /\ Bit(IsCalled(requests'[r])) = Bit(IsCalled(SweptRequests[r])) + same
         /\ Bit(IsWaiting(requests'[r])) = Bit(IsWaiting(SweptRequests[r])) + one
         /\ Bit(IsSpentDivision(requests'[r])) = Bit(IsSpentDivision(SweptRequests[r])) + same
         /\ Bit(IsOpenDivision(requests'[r])) = Bit(IsOpenDivision(SweptRequests[r])) + opens
    BY <1>g, <2>5, <2>6, <2>10 DEF Bit
  <2>. HIDE DEF d, opens
  <2>13. same + one <= 1 /\ Spent(SweptUserModel[u][d]) < ModelLimit
                         /\ Spent(SweptGlobalModel[d]) < GlobalLimit
    BY <1>h, <2>7
  <2>a. /\ MovesUser(SweptUserModel, userModel', u, d, same, one)
        /\ MovesUser(SweptUserGames, userGames', u, d, same, opens)
        /\ MovesDay(SweptGlobalModel, globalModel', d, same, one)
    BY <1>d, <2>8, <2>9 DEF MovesUser, MovesDay
  <2>b. RowMoves(SweptRequests, requests', r, u, d, same, one, same, opens)
    BY <2>3, <2>5, <2>6, <2>12 DEF RowMoves
  <2>c. Affordable(SweptUserModel, SweptUserGames, SweptGlobalModel, u, d, same + one, same + opens)
    BY <2>11, <2>13 DEF Affordable
  <2>14. Books(requests', userModel', userGames', globalModel')
    BY <1>c, <1>d, <1>h, <2>1, <2>10, <2>a, <2>b, <2>c, OneRowBooks
  <2>. QED
    BY <2>14 DEF LedgerBooks
<1>2. ASSUME requests' = SweptRequests, userModel' = SweptUserModel,
             userGames' = SweptUserGames, globalModel' = SweptGlobalModel
      PROVE  LedgerBooks'
  BY <1>2, <1>c DEF LedgerBooks
<1>3. ASSUME NEW r \in Requests, NEW g \in Requests, Attach(r, g)
      PROVE  LedgerBooks'
  <2>1. Stored(r) /\ \A x \in Requests \ {r} : requests'[x] = requests[x]
    BY <1>3, <1>a DEF Attach, Stored
  <2>2. /\ requests'[r].user = requests[r].user /\ requests'[r].created = requests[r].created
        /\ requests'[r].turns = requests[r].turns /\ requests'[r].status = requests[r].status
        /\ requests'[r].op = requests[r].op /\ requests'[r].failure = requests[r].failure
    BY <1>3, <1>a DEF Attach, Row
  <2>3. /\ Bit(IsCalled(requests'[r])) = Bit(IsCalled(requests[r])) + same
        /\ Bit(IsWaiting(requests'[r])) = Bit(IsWaiting(requests[r])) + same
        /\ Bit(IsSpentDivision(requests'[r])) = Bit(IsSpentDivision(requests[r])) + same
        /\ Bit(IsOpenDivision(requests'[r])) = Bit(IsOpenDivision(requests[r])) + same
    BY <1>g, <2>2 DEF Bit, IsCalled, IsWaiting, IsSpentDivision, IsOpenDivision
  <2>4. userModel' = userModel /\ userGames' = userGames /\ globalModel' = globalModel
    BY <1>3 DEF Attach, buckets
  <2>. QED
    BY <1>b, <1>e, <1>h, <2>1, <2>2, <2>3, <2>4, StoredRowBooks
<1>4. ASSUME NEW r \in Requests, Renew(r)
      PROVE  LedgerBooks'
  <2>1. Stored(r) /\ \A x \in Requests \ {r} : requests'[x] = requests[x]
    BY <1>4, <1>a DEF Renew, Stored
  <2>2. /\ requests'[r].user = requests[r].user /\ requests'[r].created = requests[r].created
        /\ requests'[r].turns = requests[r].turns + 1 /\ requests'[r].status = requests[r].status
        /\ requests'[r].op = requests[r].op /\ requests'[r].failure = requests[r].failure
        /\ requests[r].turns \in Nat /\ requests[r].turns > 0
    BY <1>4, <1>a, ConstantsAssumption DEF Renew, Row, RowsCoherent
  <2>3. /\ Bit(IsCalled(requests'[r])) = Bit(IsCalled(requests[r])) + same
        /\ Bit(IsWaiting(requests'[r])) = Bit(IsWaiting(requests[r])) + same
        /\ Bit(IsSpentDivision(requests'[r])) = Bit(IsSpentDivision(requests[r])) + same
        /\ Bit(IsOpenDivision(requests'[r])) = Bit(IsOpenDivision(requests[r])) + same
    BY <1>g, <2>2 DEF Bit, IsCalled, IsWaiting, IsSpentDivision, IsOpenDivision
  <2>4. userModel' = userModel /\ userGames' = userGames /\ globalModel' = globalModel
    BY <1>4 DEF Renew, buckets
  <2>. QED
    BY <1>b, <1>e, <1>h, <2>1, <2>2, <2>3, <2>4, StoredRowBooks
<1>5. ASSUME NEW r \in Requests, Begin(r)
      PROVE  LedgerBooks'
  <2>1. Stored(r) /\ \A x \in Requests \ {r} : requests'[x] = requests[x]
    BY <1>5, <1>a DEF Begin, Stored
  <2>2. /\ requests'[r].user = requests[r].user /\ requests'[r].created = requests[r].created
        /\ requests'[r].turns = 1 /\ requests'[r].status = "in_progress"
        /\ requests'[r].op = requests[r].op /\ requests'[r].failure = requests[r].failure
        /\ requests[r].turns = 0 /\ requests[r].status = "reserved"
    BY <1>5, <1>a DEF Begin, Row, RowsCoherent
  <2>3. /\ Bit(IsCalled(requests'[r])) = Bit(IsCalled(requests[r])) + one
        /\ Bit(IsWaiting(requests'[r])) = Bit(IsWaiting(requests[r])) + less
        /\ Bit(IsSpentDivision(requests'[r])) = Bit(IsSpentDivision(requests[r])) + same
        /\ Bit(IsOpenDivision(requests'[r])) = Bit(IsOpenDivision(requests[r])) + same
    BY <1>g, <2>2 DEF Bit, IsCalled, IsWaiting, IsSpentDivision, IsOpenDivision, ActiveStatus
  <2>4. /\ userModel' = [userModel EXCEPT ![requests[r].user][DayOf(r)] = Move(@, one, less)]
        /\ globalModel' = [globalModel EXCEPT ![DayOf(r)] = Move(@, one, less)]
        /\ userGames' = userGames
    BY <1>5, <1>g DEF Begin, Consume
  <2>. QED
    BY <1>b, <1>e, <1>h, <2>1, <2>2, <2>3, <2>4, StoredRowBooks
<1>f. \A r \in Requests, du \in Int : Stored(r) =>
        SettleGame(r, du) =
          [userGames EXCEPT ![requests[r].user][DayOf(r)] =
             Move(@, IF requests[r].op = "division" THEN du ELSE 0,
                     IF requests[r].op = "division" THEN -1 ELSE 0)]
  BY <1>e, <1>g DEF SettleGame
<1>6. ASSUME NEW r \in Requests, requests[r].status = "in_progress",
             \A x \in Requests \ {r} : requests'[x] = requests[x],
             requests'[r].user = requests[r].user, requests'[r].created = requests[r].created,
             requests'[r].op = requests[r].op, requests'[r].turns = requests[r].turns,
             requests'[r].status \in TerminalStatus,
             NEW du \in {0, 1},
             requests[r].op = "division" =>
               (du = 1 <=> requests'[r].status = "succeeded"
                             \/ requests'[r].failure = "provider_outcome_unknown"),
             userGames' = SettleGame(r, du),
             userModel' = userModel, globalModel' = globalModel
      PROVE  LedgerBooks'
  <2>. DEFINE spends == IF requests[r].op = "division" THEN du ELSE 0
              opens == IF requests[r].op = "division" THEN -1 ELSE 0
  <2>1. Stored(r)
    BY <1>6 DEF Stored
  <2>2. ~IsSpentDivision(requests[r])
    BY <1>6 DEF IsSpentDivision, RowsCoherent
  <2>3. /\ Bit(IsCalled(requests'[r])) = Bit(IsCalled(requests[r])) + same
        /\ Bit(IsWaiting(requests'[r])) = Bit(IsWaiting(requests[r])) + same
    BY <1>6, <1>g DEF Bit, IsCalled, IsWaiting, TerminalStatus
  <2>4. Bit(IsSpentDivision(requests'[r])) = Bit(IsSpentDivision(requests[r])) + spends
    BY <1>6, <2>2 DEF Bit, IsSpentDivision
  <2>5. Bit(IsOpenDivision(requests'[r])) = Bit(IsOpenDivision(requests[r])) + opens
    BY <1>6 DEF Bit, IsOpenDivision, ActiveStatus, TerminalStatus
  <2>6. userGames' = [userGames EXCEPT ![requests[r].user][DayOf(r)] = Move(@, spends, opens)]
    BY <1>6, <1>f, <2>1
  <2>7. spends \in Int /\ opens \in Int /\ spends + opens <= 0
    BY <1>6
  <2>. HIDE DEF spends, opens
  <2>. QED
    BY <1>6, <1>b, <1>e, <1>h, <2>1, <2>3, <2>4, <2>5, <2>6, <2>7, StoredRowBooks
<1>7. ASSUME NEW r \in Requests, NEW outcome \in {"succeeded", "failed", "indeterminate"},
             Settle(r, outcome)
      PROVE  LedgerBooks'
  <2>1. /\ requests[r].status = "in_progress"
        /\ \A x \in Requests \ {r} : requests'[x] = requests[x]
        /\ requests'[r].user = requests[r].user /\ requests'[r].created = requests[r].created
        /\ requests'[r].op = requests[r].op /\ requests'[r].turns = requests[r].turns
        /\ requests'[r].status = outcome /\ requests'[r].failure \in {"none", "reported"}
    BY <1>7, <1>a DEF Settle, Row
  <2>2. outcome \in TerminalStatus
    BY DEF TerminalStatus
  <2>3. /\ userGames' = SettleGame(r, IF outcome = "succeeded" THEN 1 ELSE 0)
        /\ userModel' = userModel /\ globalModel' = globalModel
    BY <1>7 DEF Settle
  <2>. QED
    BY <1>6, <2>1, <2>2, <2>3
<1>8. ASSUME NEW r \in Requests, SettleDuplicate(r)
      PROVE  LedgerBooks'
  <2>1. /\ requests[r].status = "in_progress"
        /\ \A x \in Requests \ {r} : requests'[x] = requests[x]
        /\ requests'[r].user = requests[r].user /\ requests'[r].created = requests[r].created
        /\ requests'[r].op = requests[r].op /\ requests'[r].turns = requests[r].turns
        /\ requests'[r].status = "rejected" /\ requests'[r].failure = "operation_already_succeeded"
    BY <1>8, <1>a DEF SettleDuplicate, Row
  <2>2. requests'[r].status \in TerminalStatus
    BY <2>1 DEF TerminalStatus
  <2>3. /\ userGames' = SettleGame(r, 0)
        /\ userModel' = userModel /\ globalModel' = globalModel
    BY <1>8 DEF SettleDuplicate
  <2>. QED
    BY <1>6, <2>1, <2>2, <2>3
<1>9. ASSUME NEW r \in Requests, SettleLateAnswer(r)
      PROVE  LedgerBooks'
  <2>1. /\ requests[r].status = "in_progress" /\ requests[r].op = "answer"
        /\ \A x \in Requests \ {r} : requests'[x] = requests[x]
        /\ requests'[r].user = requests[r].user /\ requests'[r].created = requests[r].created
        /\ requests'[r].op = requests[r].op /\ requests'[r].turns = requests[r].turns
        /\ requests'[r].status = "indeterminate"
    BY <1>9, <1>a DEF SettleLateAnswer, PastDeadline, Row
  <2>2. requests'[r].status \in TerminalStatus
    BY <2>1 DEF TerminalStatus
  <2>3. userGames' = SettleGame(r, 0) /\ userModel' = userModel /\ globalModel' = globalModel
    BY <1>9, <2>1 DEF SettleLateAnswer, SettleGame, buckets
  <2>. QED
    BY <1>6, <2>1, <2>2, <2>3
<1>10. ASSUME NEW r \in Requests, NEW reason, Release(r, reason)
       PROVE  LedgerBooks'
  <2>. DEFINE started == requests[r].status = "in_progress"
              calls == IF started THEN -1 ELSE 0
              waits == IF started THEN 0 ELSE -1
              opens == IF requests[r].op = "division" THEN -1 ELSE 0
  <2>1. /\ requests[r].status \in {"reserved", "in_progress"}
        /\ \A x \in Requests \ {r} : requests'[x] = requests[x]
        /\ requests'[r].user = requests[r].user /\ requests'[r].created = requests[r].created
        /\ requests'[r].op = requests[r].op /\ requests'[r].turns = 0
        /\ requests'[r].status = "failed" /\ requests'[r].failure # "provider_outcome_unknown"
    BY <1>10, <1>a DEF Release, Row, ActiveStatus
  <2>2. Stored(r)
    BY <2>1 DEF Stored
  <2>3. /\ IsCalled(requests[r]) <=> started
        /\ IsWaiting(requests[r]) <=> ~started
        /\ ~IsCalled(requests'[r]) /\ ~IsWaiting(requests'[r])
        /\ ~IsSpentDivision(requests[r]) /\ ~IsSpentDivision(requests'[r])
    BY <2>1 DEF IsCalled, IsWaiting, IsSpentDivision, RowsCoherent
  <2>4. Bit(IsOpenDivision(requests'[r])) = Bit(IsOpenDivision(requests[r])) + opens
    BY <2>1 DEF Bit, IsOpenDivision, ActiveStatus
  <2>5. /\ Bit(IsCalled(requests'[r])) = Bit(IsCalled(requests[r])) + calls
        /\ Bit(IsWaiting(requests'[r])) = Bit(IsWaiting(requests[r])) + waits
        /\ Bit(IsSpentDivision(requests'[r])) = Bit(IsSpentDivision(requests[r])) + same
    BY <1>g, <2>3 DEF Bit
  <2>6. userGames' = [userGames EXCEPT ![requests[r].user][DayOf(r)] = Move(@, same, opens)]
    <3>1. userGames' = SettleGame(r, 0)
      BY <1>10 DEF Release
    <3>. QED
      BY <1>f, <1>g, <2>2, <3>1
  <2>7. /\ userModel' = [userModel EXCEPT ![requests[r].user][DayOf(r)] = Move(@, calls, waits)]
        /\ globalModel' = [globalModel EXCEPT ![DayOf(r)] = Move(@, calls, waits)]
    BY <1>10 DEF Release, Unstart
  <2>8. /\ calls \in Int /\ waits \in Int /\ opens \in Int
        /\ calls + waits <= 0 /\ same + opens <= 0
    BY <1>g
  <2>. HIDE DEF calls, waits, opens
  <2>. QED
    BY <1>b, <1>h, <2>1, <2>2, <2>4, <2>5, <2>6, <2>7, <2>8, StoredRowBooks
<1>11. ASSUME NEW u \in Users, NEW force \in BOOLEAN, DeleteAccount(u, force)
       PROVE  LedgerBooks'
  <2>1. RowsOf(u) \in SUBSET Requests
    BY DEF RowsOf
  <2>2. \A x \in Requests : SweptRequests[x].user = requests[x].user
    BY <1>a DEF SweptRequests, Lapse, Row
  <2>3. \A x \in Requests \ RowsOf(u) : requests[x].user # u
    <3>1. \A x \in Requests : ~Stored(x) => requests[x].user = None
      <4>1. \A st : BlankRow(st).user = None
        BY DEF BlankRow
      <4>. QED
        BY <1>b, <4>1 DEF RowsOwned
    <3>2. u # None
      BY ConstantsAssumption
    <3>. QED
      BY <3>1, <3>2 DEF RowsOf
  <2>4. Erases(SweptRequests, requests', u, RowsOf(u))
    BY <1>11, <2>1, <2>2, <2>3 DEF DeleteAccount, RowsOf, Erases
  <2>5. \A d \in Days : StillReserved(u, d) = WaitingOf(RowsOf(u), SweptRequests, d)
    BY <2>1, <1>b, SweptRow DEF StillReserved, WaitingOf, IsWaiting, IsOn, DayOf
  <2>6. /\ Empties(SweptUserModel, userModel', u) /\ Empties(SweptUserGames, userGames', u)
        /\ Refunds(SweptGlobalModel, globalModel', SweptRequests, RowsOf(u))
    BY <1>11, <1>d, <2>5 DEF DeleteAccount, Empties, Refunds
  <2>7. Books(requests', userModel', userGames', globalModel')
    BY <1>c, <1>d, <2>1, <2>4, <2>6, ErasedBooks
  <2>. QED
    BY <2>7 DEF LedgerBooks
<1>12. ASSUME UNCHANGED <<requests, userModel, userGames, globalModel>>
       PROVE  LedgerBooks'
  BY <1>12 DEF LedgerBooks
<1>. QED
  BY <1>1, <1>2, <1>3, <1>4, <1>5, <1>7, <1>8, <1>9, <1>10, <1>11, <1>12
     DEF Next, ReserveAny, ReserveRefused, CreateShell, Reconcile, Suspend, Restore, Tick, vars, buckets

-----------------------------------------------------------------------------
(* The theorems.                                                           *)

(* The initial tables satisfy the inductive invariant.                     *)
LEMMA LedgerInit == Init => LedgerInv
<1>. SUFFICES ASSUME Init PROVE LedgerInv
  OBVIOUS
<1>1. "absent" \in Status /\ FreeSlot \in Slot /\ EmptyDays \in [Days -> Bucket]
  BY DEF Status, FreeSlot, Slot, EmptyDays, EmptyBucket, Bucket
<1>2. TypeOK
  BY <1>1, BlankRowType, ConstantsAssumption DEF Init, TypeOK, Times, Accounts
<1>3. RowsOwned
  BY DEF Init, RowsOwned, Stored, BlankRow
<1>4. SlotsMatchWork
  BY ConstantsAssumption
     DEF Init, SlotsMatchWork, Active, ActiveStatus, Held, Holds, BlankRow, FreeSlot
<1>. QED
  BY <1>2, <1>3, <1>4 DEF LedgerInv

(* Every step preserves the inductive invariant.                           *)
LEMMA LedgerNext == LedgerInv /\ [Next]_vars => LedgerInv'
BY TypeStep, OwnedStep, SlotsStep DEF LedgerInv

(* LedgerInv holds in every reachable state of the ledger.                 *)
THEOREM LedgerInvariant == Spec => []LedgerInv
BY LedgerInit, LedgerNext, PTL DEF Spec

(* Every table of the ledger keeps its type, whatever the limits, leases   *)
(* and interleavings.                                                      *)
THEOREM TypeCorrect == Spec => []TypeOK
<1>1. LedgerInv => TypeOK
  BY DEF LedgerInv
<1>. QED
  BY <1>1, LedgerInvariant, PTL

(* For any number of slots, users and requests, a request is active exactly*)
(* while one slot holds it and no user holds two slots.                    *)
THEOREM SlotsAlwaysMatchWork == Spec => []SlotsMatchWork
<1>1. LedgerInv => SlotsMatchWork
  BY DEF LedgerInv
<1>. QED
  BY <1>1, LedgerInvariant, PTL

(* A request that has ended never changes its status again, short of the   *)
(* deletion of its account.                                                *)
THEOREM TerminalAlwaysFinal == Spec => TerminalIsFinal
<1>1. LedgerInv /\ [Next]_vars => [TerminalStays]_vars
  BY TerminalStep DEF LedgerInv
<1>. QED
  BY <1>1, LedgerInvariant, PTL DEF Spec, TerminalIsFinal

(* No answer succeeds at or after its logical deadline, and no renewal,    *)
(* settlement or sweep moves that deadline.                                *)
THEOREM AnswersAlwaysInTime == Spec => AnswerSucceedsInTime
<1>1. LedgerInv /\ [Next]_vars => [AnswerStep]_vars
  BY AnswerStepHolds DEF LedgerInv
<1>. QED
  BY <1>1, LedgerInvariant, PTL DEF Spec, AnswerSucceedsInTime

(* The lease of an answer never outlives its deadline by more than the     *)
(* settlement headroom, however often the call is renewed.                 *)
THEOREM AnswerFenceAlwaysFixed == Spec => []AnswerFenceFixed
<1>1. Init => AnswerFenceFixed
  BY DEF Init, AnswerFenceFixed, FreeSlot
<1>2. LedgerInv /\ AnswerFenceFixed /\ [Next]_vars => AnswerFenceFixed'
  BY FenceStep
<1>. QED
  BY <1>1, <1>2, LedgerInvariant, PTL DEF Spec

(* Nothing that was waiting for the lock when an account was deleted       *)
(* brings a row or a count of it back.                                     *)
THEOREM DeletionAlwaysLeavesNothing == Spec => []DeletionLeavesNothing
<1>1. Init => DeletionLeavesNothing
  BY DEF Init, DeletionLeavesNothing
<1>2. LedgerInv /\ DeletionLeavesNothing /\ [Next]_vars => DeletionLeavesNothing'
  BY DeletionStep
<1>. QED
  BY <1>1, <1>2, LedgerInvariant, PTL DEF Spec

(* No idempotency key buys two requests that reached the provider, and no  *)
(* game's operation succeeds twice, whatever became of the first attempt.  *)
THEOREM NothingEverPaidTwice == Spec => []NothingPaidTwice
<1>1. Init => PaidInv
  BY DEF Init, PaidInv, KeysNameOneRequest, OneSuccessPerGame, Stored, BlankRow
<1>2. LedgerInv /\ PaidInv /\ [Next]_vars => PaidInv'
  BY KeysStep, SuccessStep DEF LedgerInv, PaidInv
<1>3. LedgerInv /\ PaidInv => NothingPaidTwice
  BY PaidMeans DEF LedgerInv
<1>. QED
  BY <1>1, <1>2, <1>3, LedgerInvariant, PTL DEF Spec

(* The buckets of users and of the deployment count exactly the rows they  *)
(* were charged for, through every reservation, refund, loss and deletion, *)
(* and no interleaving takes one over its daily limit.                     *)
THEOREM BooksAlwaysBalance == Spec => []BooksBalance
<1>1. Init => RowsCoherent /\ LedgerBooks
  <2>. SUFFICES ASSUME Init PROVE RowsCoherent /\ LedgerBooks
    OBVIOUS
  <2>1. \A r \in Requests : requests[r] = BlankRow("absent")
    BY DEF Init
  <2>2. /\ ~IsWaiting(BlankRow("absent")) /\ ~IsCalled(BlankRow("absent"))
        /\ ~IsOpenDivision(BlankRow("absent")) /\ ~IsSpentDivision(BlankRow("absent"))
    BY DEF IsWaiting, IsCalled, IsOpenDivision, IsSpentDivision, BlankRow, ActiveStatus
  <2>3. RowsCoherent
    BY <2>1 DEF RowsCoherent, BlankRow
  <2>4. \A u \in Users, d \in Days :
          /\ WaitingIn(requests, u, d) = {} /\ CalledIn(requests, u, d) = {}
          /\ OpenIn(requests, u, d) = {} /\ SpentIn(requests, u, d) = {}
    BY <2>1, <2>2 DEF WaitingIn, CalledIn, OpenIn, SpentIn
  <2>5. \A d \in Days : WaitingOn(requests, d) = {} /\ CalledOn(requests, d) = {}
    BY <2>1, <2>2 DEF WaitingOn, CalledOn
  <2>6. /\ \A u \in Users, d \in Days : userModel[u][d] = EmptyBucket /\ userGames[u][d] = EmptyBucket
        /\ \A d \in Days : globalModel[d] = EmptyBucket
    BY DEF Init, EmptyDays
  <2>7. /\ EmptyBucket.used = 0 /\ EmptyBucket.reserved = 0 /\ Spent(EmptyBucket) = 0
        /\ ModelLimit \in Nat /\ GlobalLimit \in Nat /\ GameLimit \in Nat
    BY ConstantsAssumption DEF EmptyBucket, Spent
  <2>8. Cardinality({}) = 0
    BY FS_EmptySet
  <2>9. UserBooks(requests, userModel, userGames)
    BY <2>4, <2>6, <2>7, <2>8 DEF UserBooks
  <2>10. GlobalBooks(requests, globalModel)
    BY <2>5, <2>6, <2>7, <2>8 DEF GlobalBooks
  <2>11. Quotas(userModel, userGames, globalModel)
    BY <2>6, <2>7 DEF Quotas
  <2>. QED
    BY <2>3, <2>9, <2>10, <2>11 DEF LedgerBooks, Books
<1>2. LedgerInv /\ RowsCoherent /\ LedgerBooks /\ [Next]_vars => RowsCoherent' /\ LedgerBooks'
  BY CoherentStep, BooksStep DEF LedgerInv
<1>3. LedgerBooks => BooksBalance
  BY BooksNow DEF LedgerBooks
<1>. QED
  BY <1>1, <1>2, <1>3, LedgerInvariant, PTL DEF Spec

-----------------------------------------------------------------------------
(* The refinement: the initial tables map to no calls, and every           *)
(* transaction maps to one step of ModelCalls or to none.                  *)

(* The stages and owners of ModelCalls, read off a table of rows.          *)
StagesOf(rows) == [r \in Requests |-> Stage(rows[r].status)]
OwnersOf(rows) == [r \in Requests |-> rows[r].user]

(* Stage at each status: an ended call that was not won is lost.           *)
LEMMA StageCases ==
  /\ Stage("absent") = "none"
  /\ Stage("erased") = "gone"
  /\ Stage("reserved") = "waiting"
  /\ Stage("in_progress") = "calling"
  /\ Stage("succeeded") = "won"
  /\ \A st \in {"failed", "indeterminate", "rejected"} : Stage(st) = "lost"
  /\ \A st \in Status : Stage(st) \in {"waiting", "calling"} <=> st \in ActiveStatus
<1>1. \A st \in {"failed", "indeterminate", "rejected"} : Stage(st) = "lost"
  BY DEF Stage
<1>2. /\ Stage("absent") = "none" /\ Stage("erased") = "gone" /\ Stage("reserved") = "waiting"
      /\ Stage("in_progress") = "calling" /\ Stage("succeeded") = "won"
  BY DEF Stage
<1>. QED
  BY <1>1, <1>2 DEF Status, ActiveStatus, TerminalStatus

(* The calls that are alive are the active requests.                       *)
LEMMA AliveMeans ==
  ASSUME TypeOK
  PROVE  Promise!Alive = {r \in Requests : Active(r)}
<1>1. \A r \in Requests : requests[r].status \in Status
  BY DEF TypeOK, Row
<1>. QED
  BY <1>1, StageCases DEF Promise!Alive, Active

(* Reconciliation loses exactly the overdue calls.                         *)
LEMMA SweptStages ==
  ASSUME TypeOK
  PROVE  /\ Overdue \in SUBSET Promise!Alive
         /\ StagesOf(SweptRequests) = Promise!Losing(Overdue)
         /\ OwnersOf(SweptRequests) = OwnersOf(requests)
<1>1. \A r \in Requests : requests[r] \in Row
  BY DEF TypeOK
<1>2. Overdue \in SUBSET Promise!Alive
  BY AliveMeans DEF Overdue
<1>3. \A r \in Requests : Stage(SweptRequests[r].status) =
        IF r \in Overdue THEN "lost" ELSE Stage(requests[r].status)
  <2>1. \A r \in Overdue : SweptRequests[r].status \in {"failed", "indeterminate"}
    BY <1>1 DEF SweptRequests, Lapse, Row, Overdue
  <2>2. \A r \in Requests \ Overdue : SweptRequests[r] = requests[r]
    BY DEF SweptRequests
  <2>. QED
    BY <2>1, <2>2, StageCases
<1>4. \A r \in Requests : SweptRequests[r].user = requests[r].user
  BY <1>1 DEF SweptRequests, Lapse, Row
<1>. QED
  BY <1>2, <1>3, <1>4 DEF StagesOf, OwnersOf, Promise!Losing

(* A slot the sweep left free leaves fewer live calls than there are slots:*)
(* each of them sits in a slot of its own, and none in that one.           *)
LEMMA RoomForOne ==
  ASSUME TypeOK, SlotsMatchWork, NEW free \in Slots, SweptSlots[free].request = None
  PROVE  Cardinality(Promise!Alive \ Overdue) < SlotLimit
<1>. DEFINE live == Promise!Alive \ Overdue
            others == Slots \ {free}
<1>1. /\ live \subseteq Requests /\ IsFiniteSet(live) /\ Cardinality(live) \in Nat
  <2>1. live \subseteq Requests
    BY AliveMeans
  <2>. QED
    BY <2>1, FS_Subset, FS_CardinalityType, ConstantsAssumption
<1>2. IsFiniteSet(others) /\ Cardinality(others) = SlotLimit - 1
  <2>1. SlotLimit \in Nat \ {0} /\ SlotLimit \in Int /\ 1 \in Int
    BY ConstantsAssumption
  <2>2. IsFiniteSet(Slots) /\ Cardinality(Slots) = SlotLimit
    BY <2>1, FS_Interval DEF Slots
  <2>. QED
    BY <2>2, FS_RemoveElement
<1>3. \A r \in live : \E s \in others : SweptSlots[s].request = r
  <2>. SUFFICES ASSUME NEW r \in live
                PROVE  \E s \in others : SweptSlots[s].request = r
    OBVIOUS
  <2>1. r \in Requests /\ Active(r) /\ r \notin Overdue
    BY AliveMeans
  <2>2. SweptRequests[r].status \in ActiveStatus
    BY <2>1 DEF SweptRequests, Active
  <2>3. PICK s \in Slots : SweptSlots[s].request = r
    BY <2>1, <2>2, SweptAgree DEF Agree
  <2>4. s # free
    BY <2>1, <2>3, ConstantsAssumption
  <2>. QED
    BY <2>3, <2>4
<1>4. SUFFICES ASSUME Cardinality(others) < Cardinality(live)
               PROVE  FALSE
  BY <1>1, <1>2, ConstantsAssumption
<1>. DEFINE f == [r \in live |-> CHOOSE s \in others : SweptSlots[s].request = r]
<1>5. \A r \in live : f[r] \in others /\ SweptSlots[f[r]].request = r
  BY <1>3
<1>6. f \in [live -> others]
  BY <1>5
<1>. HIDE DEF f, live, others
<1>7. \E x, y \in live : x # y /\ f[x] = f[y]
  BY <1>1, <1>2, <1>4, <1>6, FS_PigeonHole
<1>. QED
  BY <1>5, <1>7

-----------------------------------------------------------------------------
(* Every transaction is a step of ModelCalls.                              *)

(* No call is in the initial tables.                                       *)
LEMMA PromiseInit == Init => Promise!Init
<1>1. \A r \in Requests : BlankRow("absent").status = "absent" /\ BlankRow("absent").user = None
  BY DEF BlankRow
<1>. QED
  BY <1>1, StageCases DEF Init, Promise!Init

(* A reservation admits a call and loses what its sweep found dead; the    *)
(* slot it takes and the lease it looked for are the two limits.           *)
LEMMA AdmitStep ==
  ASSUME LedgerInv, NEW u \in Users, NEW r \in Requests, NEW op \in Operations, NEW k \in Keys,
         NEW at \in RequestTimes, NEW g \in Games(op), NEW deadline \in Deadlines(op, at),
         Reserve(u, r, op, k, g, at, deadline)
  PROVE  Promise!Admit(r, u, Overdue)
<1>a. TypeOK /\ SlotsMatchWork /\ \A x \in Requests : requests[x] \in Row
  BY DEF LedgerInv, TypeOK
<1>1. Stage(requests[r].status) = "none"
  BY StageCases DEF Reserve
<1>2. Cardinality(Promise!Alive \ Overdue) < SlotLimit
  <2>1. PICK free \in FirstFree(SweptSlots) : TRUE
    BY DEF Reserve
  <2>2. free \in Slots /\ SweptSlots[free].request = None
    BY <2>1 DEF FirstFree
  <2>. QED
    BY <1>a, <2>2, RoomForOne
<1>3. \A other \in Promise!Alive \ Overdue : requests[other].user # u
  <2>. SUFFICES ASSUME NEW other \in Promise!Alive \ Overdue
                PROVE  requests[other].user # u
    OBVIOUS
  <2>1. other \in Requests /\ Active(other) /\ other \notin Overdue
    BY <1>a, AliveMeans
  <2>2. SweptRequests[other].status \in ActiveStatus
    BY <2>1 DEF SweptRequests, Active
  <2>3. PICK s \in Slots : SweptSlots[s].request = other
    BY <1>a, <2>1, <2>2, SweptAgree DEF Agree
  <2>4. SweptSlots[s].request # None
    BY <2>1, <2>3, ConstantsAssumption
  <2>5. SweptSlots[s] = slots[s] /\ slots[s].expires > now
    BY <1>a, <2>4, SweptLeases
  <2>6. at <= now /\ at \in Nat /\ now \in Nat /\ slots[s].expires \in Nat
    BY <1>a DEF RequestTimes, Times, TypeOK, Slot
  <2>7. SweptSlots[s].expires > at
    BY <2>5, <2>6
  <2>. QED
    BY <2>3, <2>4, <2>7 DEF Reserve, HasLease
<1>4. \A x \in Requests : requests'[x] =
        IF x = r THEN [BlankRow("reserved") EXCEPT !.user = u, !.op = op, !.key = k, !.game = g,
                                                   !.created = at, !.deadline = deadline]
                 ELSE SweptRequests[x]
  BY DEF Reserve, SweptRequests
<1>5. requests'[r].status = "reserved" /\ requests'[r].user = u
  BY <1>4 DEF BlankRow
<1>6. StagesOf(requests') = [Promise!Losing(Overdue) EXCEPT ![r] = "waiting"]
  <2>1. Promise!Losing(Overdue) = StagesOf(SweptRequests)
    BY <1>a, SweptStages
  <2>2. \A x \in Requests : Stage(requests'[x].status) =
          IF x = r THEN "waiting" ELSE Stage(SweptRequests[x].status)
    BY <1>4, <1>5, StageCases
  <2>. QED
    BY <2>1, <2>2 DEF StagesOf
<1>7. OwnersOf(requests') = [OwnersOf(requests) EXCEPT ![r] = u]
  <2>1. OwnersOf(SweptRequests) = OwnersOf(requests)
    BY <1>a, SweptStages
  <2>2. \A x \in Requests : requests'[x].user = IF x = r THEN u ELSE SweptRequests[x].user
    BY <1>4, <1>5
  <2>3. OwnersOf(requests') = [OwnersOf(SweptRequests) EXCEPT ![r] = u]
    BY <2>2 DEF OwnersOf
  <2>. QED
    BY <2>1, <2>3
<1>8. StagesOf(requests)[r] = "none"
  BY <1>1 DEF StagesOf
<1>9. \A other \in Promise!Alive \ Overdue : OwnersOf(requests)[other] # u
  <2>1. Promise!Alive \subseteq Requests
    BY <1>a, AliveMeans
  <2>. QED
    BY <1>3, <2>1 DEF OwnersOf
<1>10. Promise!Cardinality(Promise!Alive \ Overdue) < SlotLimit
  <2>1. \A S : Promise!Cardinality(S) = Cardinality(S)
    BY Zenon DEF Promise!Cardinality, Cardinality
  <2>. QED
    BY <1>2, <2>1
<1>. QED
  BY <1>6, <1>7, <1>8, <1>9, <1>10 DEF Promise!Admit, StagesOf, OwnersOf

(* A step that only sweeps loses what is overdue.                          *)
LEMMA SweepStep ==
  ASSUME TypeOK, requests' = SweptRequests
  PROVE  Promise!Lose(Overdue)
<1>1. StagesOf(requests') = Promise!Losing(Overdue) /\ OwnersOf(requests') = OwnersOf(requests)
  BY SweptStages
<1>. QED
  BY <1>1 DEF Promise!Lose, StagesOf, OwnersOf

(* One request ends without success: one call is lost.                     *)
LEMMA LoseOne ==
  ASSUME TypeOK, NEW r \in Requests, Active(r),
         \A x \in Requests \ {r} : requests'[x] = requests[x],
         requests'[r].status \in {"failed", "indeterminate", "rejected"},
         requests'[r].user = requests[r].user
  PROVE  \E lost \in SUBSET Promise!Alive : Promise!Lose(lost)
<1>1. {r} \in SUBSET Promise!Alive
  BY AliveMeans
<1>2. StagesOf(requests') = Promise!Losing({r})
  BY StageCases DEF StagesOf, Promise!Losing
<1>3. OwnersOf(requests') = OwnersOf(requests)
  BY DEF OwnersOf
<1>4. Promise!Lose({r})
  BY <1>2, <1>3 DEF Promise!Lose, StagesOf, OwnersOf
<1>. QED
  BY <1>1, <1>4

(* Deletion forgets a user's calls, whatever their stage, all together.    *)
LEMMA ForgetStep ==
  ASSUME LedgerInv, NEW u \in Users, NEW force \in BOOLEAN, DeleteAccount(u, force)
  PROVE  Promise!Forget(u, Overdue)
<1>a. TypeOK /\ RowsOwned
  BY DEF LedgerInv
<1>1. \A x \in Requests : x \in RowsOf(u) <=> requests[x].user = u
  <2>1. \A x \in Requests : ~Stored(x) => requests[x].user = None
    <3>1. \A st : BlankRow(st).user = None
      BY DEF BlankRow
    <3>. QED
      BY <1>a, <3>1 DEF RowsOwned
  <2>2. u # None
    BY ConstantsAssumption
  <2>. QED
    BY <2>1, <2>2 DEF RowsOf
<1>2. \A x \in Requests : requests'[x] = IF requests[x].user = u THEN BlankRow("erased")
                                                                 ELSE SweptRequests[x]
  BY <1>1 DEF DeleteAccount
<1>3. BlankRow("erased").status = "erased" /\ BlankRow("erased").user = None
  BY DEF BlankRow
<1>4. /\ StagesOf(SweptRequests) = Promise!Losing(Overdue)
      /\ OwnersOf(SweptRequests) = OwnersOf(requests)
  BY <1>a, SweptStages
<1>5. \A x \in Requests : /\ Stage(SweptRequests[x].status) = Promise!Losing(Overdue)[x]
                          /\ SweptRequests[x].user = requests[x].user
  <2>1. \A x \in Requests : /\ StagesOf(SweptRequests)[x] = Stage(SweptRequests[x].status)
                            /\ OwnersOf(SweptRequests)[x] = SweptRequests[x].user
                            /\ OwnersOf(requests)[x] = requests[x].user
    BY DEF StagesOf, OwnersOf
  <2>. QED
    BY <1>4, <2>1
<1>6. /\ StagesOf(requests') = [x \in Requests |-> IF requests[x].user = u THEN "gone"
                                                   ELSE Promise!Losing(Overdue)[x]]
      /\ OwnersOf(requests') = [x \in Requests |-> IF requests[x].user = u THEN None
                                                   ELSE requests[x].user]
  BY <1>2, <1>3, <1>5, StageCases DEF StagesOf, OwnersOf
<1>. QED
  BY <1>6 DEF Promise!Forget, StagesOf, OwnersOf

(* Rows whose status and owner stay leave the calls alone.                 *)
LEMMA CallsStay ==
  ASSUME \A x \in Requests : requests'[x].status = requests[x].status
                            /\ requests'[x].user = requests[x].user
  PROVE  UNCHANGED Promise!callVars
BY DEF Promise!callVars

(* Every transaction of the ledger is a step of ModelCalls, or none.       *)
LEMMA PromiseStep ==
  ASSUME LedgerInv, [Next]_vars
  PROVE  [Promise!Next]_Promise!callVars
<1>a. TypeOK /\ requests \in [Requests -> Row] /\ \A x \in Requests : requests[x] \in Row
  BY DEF LedgerInv, TypeOK
<1>b. Overdue \in SUBSET Promise!Alive
  BY <1>a, SweptStages
<1>1. ASSUME NEW u \in Users, NEW r \in Requests, NEW op \in Operations, NEW k \in Keys,
             NEW at \in RequestTimes, NEW g \in Games(op), NEW deadline \in Deadlines(op, at),
             Reserve(u, r, op, k, g, at, deadline)
      PROVE  Promise!Next
  <2>1. Promise!Admit(r, u, Overdue)
    BY <1>1, AdmitStep
  <2>2. PICK lost \in SUBSET Promise!Alive : lost = Overdue
    BY <1>b
  <2>3. Promise!Admit(r, u, lost)
    BY <2>1, <2>2 DEF Promise!Admit, Promise!Losing
  <2>. QED
    BY <2>3 DEF Promise!Next
<1>2. ASSUME requests' = SweptRequests
      PROVE  Promise!Next
  <2>1. Promise!Lose(Overdue)
    BY <1>2, <1>a, SweepStep
  <2>. QED
    BY <1>b, <2>1 DEF Promise!Next
<1>3. ASSUME NEW r \in Requests, NEW g \in Requests, Attach(r, g)
      PROVE  UNCHANGED Promise!callVars
  <2>1. \A x \in Requests : requests'[x].status = requests[x].status
                            /\ requests'[x].user = requests[x].user
    BY <1>3, <1>a DEF Attach, Row
  <2>. QED
    BY <2>1, CallsStay
<1>4. ASSUME NEW r \in Requests, Begin(r)
      PROVE  Promise!Next
  <2>1. /\ \A x \in Requests \ {r} : requests'[x] = requests[x]
        /\ requests[r].status = "reserved" /\ requests'[r].status = "in_progress"
        /\ requests'[r].user = requests[r].user
    BY <1>4, <1>a DEF Begin, Row
  <2>2. StagesOf(requests') = [StagesOf(requests) EXCEPT ![r] = "calling"]
    BY <2>1, StageCases DEF StagesOf
  <2>3. OwnersOf(requests') = OwnersOf(requests)
    BY <2>1 DEF OwnersOf
  <2>4. Stage(requests[r].status) = "waiting"
    BY <2>1, StageCases
  <2>5. Promise!Call(r)
    BY <2>2, <2>3, <2>4 DEF Promise!Call, StagesOf, OwnersOf
  <2>. QED
    BY <2>5 DEF Promise!Next
<1>5. ASSUME NEW r \in Requests, Renew(r)
      PROVE  UNCHANGED Promise!callVars
  <2>1. \A x \in Requests : requests'[x].status = requests[x].status
                            /\ requests'[x].user = requests[x].user
    BY <1>5, <1>a DEF Renew, Row
  <2>. QED
    BY <2>1, CallsStay
<1>6. ASSUME NEW r \in Requests, Active(r),
             \A x \in Requests \ {r} : requests'[x] = requests[x],
             requests'[r].status \in {"failed", "indeterminate", "rejected"},
             requests'[r].user = requests[r].user
      PROVE  Promise!Next
  <2>1. \E lost \in SUBSET Promise!Alive : Promise!Lose(lost)
    BY <1>6, <1>a, LoseOne
  <2>. QED
    BY <2>1 DEF Promise!Next
<1>7. ASSUME NEW r \in Requests, NEW outcome \in {"succeeded", "failed", "indeterminate"},
             Settle(r, outcome)
      PROVE  Promise!Next
  <2>1. /\ \A x \in Requests \ {r} : requests'[x] = requests[x]
        /\ requests[r].status = "in_progress" /\ requests'[r].status = outcome
        /\ requests'[r].user = requests[r].user
    BY <1>7, <1>a DEF Settle, Row
  <2>2. CASE outcome = "succeeded"
    <3>1. StagesOf(requests') = [StagesOf(requests) EXCEPT ![r] = "won"]
      BY <2>1, <2>2, StageCases DEF StagesOf
    <3>2. OwnersOf(requests') = OwnersOf(requests)
      BY <2>1 DEF OwnersOf
    <3>3. Stage(requests[r].status) = "calling"
      BY <2>1, StageCases
    <3>4. Promise!Win(r)
      BY <3>1, <3>2, <3>3 DEF Promise!Win, StagesOf, OwnersOf
    <3>. QED
      BY <3>4 DEF Promise!Next
  <2>3. CASE outcome # "succeeded"
    BY <1>6, <2>1, <2>3 DEF Active, ActiveStatus
  <2>. QED
    BY <2>2, <2>3
<1>8. ASSUME NEW r \in Requests, SettleDuplicate(r) \/ SettleLateAnswer(r)
      PROVE  Promise!Next
  BY <1>6, <1>8, <1>a DEF SettleDuplicate, SettleLateAnswer, Active, ActiveStatus, Row
<1>9. ASSUME NEW r \in Requests, NEW reason, Release(r, reason)
      PROVE  Promise!Next
  BY <1>6, <1>9, <1>a DEF Release, Active, Row
<1>10. ASSUME NEW u \in Users, NEW force \in BOOLEAN, DeleteAccount(u, force)
       PROVE  Promise!Next
  <2>1. Promise!Forget(u, Overdue)
    BY <1>10, ForgetStep
  <2>2. PICK lost \in SUBSET Promise!Alive : lost = Overdue
    BY <1>b
  <2>3. Promise!Forget(u, lost)
    BY <2>1, <2>2 DEF Promise!Forget, Promise!Losing
  <2>. QED
    BY <2>3 DEF Promise!Next
<1>11. ASSUME UNCHANGED requests
       PROVE  UNCHANGED Promise!callVars
  BY <1>11, CallsStay
<1>. QED
  BY <1>1, <1>2, <1>3, <1>4, <1>5, <1>7, <1>8, <1>9, <1>10, <1>11
     DEF Next, ReserveAny, ReserveRefused, CreateShell, Reconcile, Suspend, Restore, Tick, vars

-----------------------------------------------------------------------------
(* The ledger implements ModelCalls: under no interleaving of handlers,    *)
(* sweeps and deletions are more calls alive than there are slots, or two  *)
(* of one user, and none is made or decided twice.                         *)
THEOREM LedgerImplementsModelCalls == Spec => ImplementsModelCalls
<1>1. Init => Promise!Init
  BY PromiseInit
<1>2. LedgerInv /\ [Next]_vars => [Promise!Next]_Promise!callVars
  BY PromiseStep
<1>. QED
  BY <1>1, <1>2, LedgerInvariant, PTL DEF Spec, ImplementsModelCalls, Promise!Spec

=============================================================================
