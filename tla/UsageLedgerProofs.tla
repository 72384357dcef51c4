------------------------- MODULE UsageLedgerProofs -------------------------
(***************************************************************************)
(* Type correctness of the usage ledger (in particular that no counter is  *)
(* ever negative), that a reservation is settled at most once, and that    *)
(* the sweeper keeps off those with a heartbeat, for any set of requests,  *)
(* limits, windows and prices, and any batch size.                         *)
(***************************************************************************)
EXTENDS UsageLedger, TLAPS

USE DEF Row, Item, Settled, Statuses

ResvRecord == [status : Statuses, model : Models, seen : [Limits -> Row],
               items : [Limits -> Item], age : Nat]

EditRecord == [phase : {"idle", "read", "refreshed"},
               rules : [Limits -> Nat], reset : BOOLEAN, at : Nat,
               read : [Limits -> Row], cached : [Limits -> Row], count : Nat, kept : BOOLEAN]

SweepRecord == [phase : {"idle", "select", "claim", "write"},
                old : SUBSET Requests, batch : SUBSET Requests,
                torn : SUBSET Requests, faults : Nat]

LEMMA NothingTyped ==
    /\ NoRow \in Row
    /\ NoItem \in Item
    /\ NoRows \in [Limits -> Row]
    /\ NoItems \in [Limits -> Item]
    /\ NoReservation \in ResvRecord
    /\ NoEdit \in EditRecord
    /\ NoSweep \in SweepRecord
    /\ \A n \in Nat : SweepIdle(n) \in SweepRecord
<1>1. NoRow \in Row /\ NoItem \in Item
  BY DEF NoRow, NoItem
<1>2. NoRows \in [Limits -> Row] /\ NoItems \in [Limits -> Item]
  BY <1>1 DEF NoRows, NoItems
<1>3. NoReservation \in ResvRecord
  BY <1>2, RulesAssumption DEF NoReservation, ResvRecord
<1>4. NoEdit \in EditRecord
  BY <1>2 DEF NoEdit, EditRecord
<1>5. NoSweep \in SweepRecord /\ \A n \in Nat : SweepIdle(n) \in SweepRecord
  BY DEF NoSweep, SweepIdle, SweepRecord
<1>6. QED
  BY <1>1, <1>2, <1>3, <1>4, <1>5

\* Windows only move forward, to a natural number.
LEMMA AdvanceResetTyped ==
    ASSUME now \in Nat, NEW t \in Nat, NEW w \in Nat \ {0}
    PROVE  AdvanceReset(t, w) \in Nat
<1>1. CASE t > now
  BY <1>1 DEF AdvanceReset
<1>2. CASE t <= now
  <2>1. now - t \in Nat
    BY <1>2
  <2>2. (now - t) \div w \in Nat
    BY <2>1
  <2>3. ((now - t) \div w + 1) * w \in Nat
    BY <2>2
  <2>4. QED
    BY <1>2, <2>3 DEF AdvanceReset
<1>3. QED
  BY <1>1, <1>2

LEMMA CostsTyped ==
    ASSUME NEW l \in Limits, NEW model \in Models, NEW tokens \in Nat \X Nat
    PROVE  /\ Increment(l, model, tokens) \in Nat
           /\ ReserveBudget(l, model, tokens) \in Nat
<1>1. tokens[1] \in Nat /\ tokens[2] \in Nat
  OBVIOUS
<1>2. Price[model] \in Nat /\ UnknownPrice \in Nat
  BY PriceAssumption
<1>3. Cost(model, tokens) \in Nat
  BY <1>1, <1>2 DEF Cost
<1>4. LimitType[l] \in Types
  BY RulesAssumption
<1>5. Increment(l, model, tokens) \in Nat
  BY <1>1, <1>3, <1>4 DEF Increment, Types
<1>6. UnknownPrice * (tokens[1] + tokens[2]) \in Nat
  BY <1>1, <1>2
<1>7. QED
  BY <1>5, <1>6 DEF ReserveBudget

LEMMA ResetExpiredTyped ==
    ASSUME now \in Nat, NEW rows \in [Limits -> Row]
    PROVE  ResetExpired(rows) \in [Limits -> Row]
<1> SUFFICES ASSUME NEW l \in Limits
             PROVE  [rows[l] EXCEPT !.current = 0,
                                    !.resetAt = AdvanceReset(@, Window[l])] \in Row
  BY DEF ResetExpired
<1>1. rows[l].resetAt \in Nat /\ Window[l] \in Nat \ {0}
  BY RulesAssumption
<1>2. AdvanceReset(rows[l].resetAt, Window[l]) \in Nat
  BY <1>1, AdvanceResetTyped
<1>3. QED
  BY <1>2

\* No settlement makes a counter negative, whatever the reservation held.
LEMMA AdjustTyped ==
    ASSUME NEW rows \in [Limits -> Row], NEW items \in [Limits -> Item],
           NEW actual \in [Limits -> Nat]
    PROVE  AdjustReservedUsage(rows, items, actual) \in [Limits -> Row]
<1> SUFFICES ASSUME NEW l \in Limits
             PROVE  LET value == rows[l].current + actual[l] - items[l].reserved
                    IN  [rows[l] EXCEPT !.current = IF value >= 0 THEN value ELSE @] \in Row
  BY DEF AdjustReservedUsage
<1>1. QED
  OBVIOUS

LEMMA SettleRowTyped ==
    ASSUME NEW row \in ResvRecord, NEW status \in Settled, NEW actual \in [Limits -> Nat]
    PROVE  SettleRow(row, status, actual) \in ResvRecord
<1>1. [l \in Limits |-> IF l \in Present(row.items)
                        THEN [row.items[l] EXCEPT !.actual = actual[l]]
                        ELSE NoItem] \in [Limits -> Item]
  BY NothingTyped DEF ResvRecord
<1>2. QED
  BY <1>1 DEF SettleRow, ResvRecord

LEMMA InitTyped == Init => TypeOK
<1> SUFFICES ASSUME Init PROVE TypeOK
  OBVIOUS
<1>1. \A l \in Limits : [max |-> InitialMax, current |-> 0, resetAt |-> Window[l]] \in Row
  BY RulesAssumption, AmountsAssumption
<1>2. limit \in [Limits -> Row]
  BY <1>1 DEF Init
<1>3. resv \in [Requests -> ResvRecord] /\ edit \in EditRecord /\ sweep \in SweepRecord
  BY NothingTyped DEF Init
<1>4. QED
  BY <1>2, <1>3 DEF Init, TypeOK, ResvRecord, EditRecord, SweepRecord

\* The parts of TypeOK, with the records named.
LEMMA TypeParts ==
    TypeOK <=> /\ now \in Nat
               /\ key \in {"active", "inactive", "deleted"}
               /\ limit \in [Limits -> Row]
               /\ resv \in [Requests -> ResvRecord]
               /\ edit \in EditRecord
               /\ sweep \in SweepRecord
  BY DEF TypeOK, ResvRecord, EditRecord, SweepRecord

LEMMA TypePartsNext ==
    TypeOK' <=> /\ now' \in Nat
                /\ key' \in {"active", "inactive", "deleted"}
                /\ limit' \in [Limits -> Row]
                /\ resv' \in [Requests -> ResvRecord]
                /\ edit' \in EditRecord
                /\ sweep' \in SweepRecord
  BY DEF TypeOK, ResvRecord, EditRecord, SweepRecord

LEMMA ReserveTyped ==
    ASSUME TypeOK, NEW r \in Requests, NEW model \in Models, NEW tokens \in Budgets,
           Reserve(r, model, tokens)
    PROVE  /\ limit' \in [Limits -> Row]
           /\ resv' \in [Requests -> ResvRecord]
<1> DEFINE seen == resv[r].seen
           applying == {l \in Present(seen) : Applies(l, model)}
           delta(l) == ReserveDelta(l, seen[l], model, tokens)
           item(l) == [reserved |-> delta(l), resetAt |-> seen[l].resetAt, actual |-> 0]
           made == [status |-> "reserved", model |-> model, seen |-> NoRows,
                    items |-> [l \in Limits |-> IF l \in applying THEN item(l) ELSE NoItem],
                    age |-> 0]
<1>1. seen \in [Limits -> Row] /\ tokens \in Nat \X Nat
  BY TypeParts, AmountsAssumption DEF ResvRecord
<1>2. \A l \in Limits : delta(l) \in Nat
  <2> TAKE l \in Limits
  <2>1. ReserveBudget(l, model, tokens) \in Nat
    BY <1>1, CostsTyped
  <2>2. seen[l].max \in Nat /\ seen[l].current \in Nat
    BY <1>1
  <2> HIDE DEF seen
  <2>3. QED
    BY <2>1, <2>2 DEF ReserveDelta
<1>3. \A l \in Limits : item(l) \in Item
  BY <1>1, <1>2
<1>4. made \in ResvRecord
  BY <1>3, NothingTyped DEF ResvRecord
<1>5. CASE /\ limit' = [l \in Limits |-> IF l \in applying
                                        THEN [limit[l] EXCEPT !.current = @ + delta(l)]
                                        ELSE limit[l]]
           /\ resv' = [resv EXCEPT ![r] = made]
  <2>1. \A l \in Limits : [limit[l] EXCEPT !.current = @ + delta(l)] \in Row
    <3> TAKE l \in Limits
    <3>1. limit[l] \in Row /\ delta(l) \in Nat
      BY <1>2, TypeParts
    <3> HIDE DEF delta
    <3>2. QED
      BY <3>1
  <2>2. limit' \in [Limits -> Row]
    BY <1>5, <2>1, TypeParts
  <2>3. resv' \in [Requests -> ResvRecord]
    <3> HIDE DEF made
    <3>1. QED
      BY <1>4, <1>5, TypeParts
  <2>4. QED
    BY <2>2, <2>3
<1>6. CASE resv' = [resv EXCEPT ![r] = NoReservation] /\ UNCHANGED limit
  BY <1>6, NothingTyped, TypeParts
<1>7. QED
  BY <1>5, <1>6 DEF Reserve

LEMMA SettleTyped ==
    ASSUME TypeOK, NEW r \in Requests, NEW status \in Settled, NEW actual \in [Limits -> Nat],
           limit' = AdjustReservedUsage(limit, resv[r].items, actual),
           resv' = [resv EXCEPT ![r] = SettleRow(@, status, actual)]
    PROVE  /\ limit' \in [Limits -> Row]
           /\ resv' \in [Requests -> ResvRecord]
<1>1. resv[r] \in ResvRecord /\ resv[r].items \in [Limits -> Item]
  BY TypeParts DEF ResvRecord
<1>2. limit' \in [Limits -> Row]
  BY <1>1, TypeParts, AdjustTyped
<1>3. SettleRow(resv[r], status, actual) \in ResvRecord
  BY <1>1, SettleRowTyped
<1>4. QED
  BY <1>2, <1>3, TypeParts

LEMMA UpsertTyped ==
    ASSUME TypeOK, NEW l \in Limits
    PROVE  IncomingRow(l) \in Row /\ UpsertRow(l) \in Row
<1>1. edit.read[l] \in Row /\ edit.rules[l] \in Nat /\ edit.at \in Nat
  BY TypeParts DEF EditRecord
<1>2. Window[l] \in Nat
  BY RulesAssumption
<1>3. [edit.read[l] EXCEPT !.max = edit.rules[l]] \in Row
  BY <1>1
<1>4. [max |-> edit.rules[l], current |-> 0, resetAt |-> edit.at + Window[l]] \in Row
  BY <1>1, <1>2
<1>5. IncomingRow(l) \in Row
  BY <1>3, <1>4 DEF IncomingRow
<1>6. limit[l] \in Row
  BY TypeParts
<1>7. QED
  BY <1>5, <1>6 DEF UpsertRow

\* Every step keeps the types.
LEMMA StepTyped == TypeOK /\ [Next]_vars => TypeOK'
<1> SUFFICES ASSUME TypeOK, [Next]_vars
             PROVE  TypeOK'
  OBVIOUS
<1> USE TypeParts, TypePartsNext
<1>1. CASE ValidateKey
  BY <1>1, ResetExpiredTyped DEF ValidateKey
<1>2. ASSUME NEW r \in Requests, EnforceRead(r)
      PROVE  TypeOK'
  <2>1. limit' \in [Limits -> Row]
    BY <1>2, ResetExpiredTyped DEF EnforceRead
  <2>2. [resv[r] EXCEPT !.status = "checking", !.seen = limit'] \in ResvRecord
    BY <2>1 DEF ResvRecord
  <2>3. resv' = [resv EXCEPT ![r] = [resv[r] EXCEPT !.status = "checking", !.seen = limit']]
    BY <1>2 DEF EnforceRead
  <2>4. resv' \in [Requests -> ResvRecord]
    BY <2>2, <2>3
  <2>5. QED
    BY <1>2, <2>1, <2>4 DEF EnforceRead
<1>3. ASSUME NEW r \in Requests, NEW model \in Models, NEW tokens \in Budgets,
             Reserve(r, model, tokens)
      PROVE  TypeOK'
  BY <1>3, ReserveTyped DEF Reserve
<1>4. ASSUME NEW r \in Requests, NEW status \in {"finalized", "failed"}, NEW tokens \in Usages,
             Settle(r, status, tokens)
      PROVE  TypeOK'
  <2> DEFINE actual == [l \in Limits |-> Increment(l, resv[r].model, tokens)]
  <2>1. resv[r].model \in Models /\ tokens \in Nat \X Nat
    BY AmountsAssumption DEF ResvRecord
  <2>2. actual \in [Limits -> Nat]
    BY <2>1, CostsTyped
  <2>3. /\ limit' = AdjustReservedUsage(limit, resv[r].items, actual)
        /\ resv' = [resv EXCEPT ![r] = SettleRow(@, status, actual)]
        /\ UNCHANGED <<now, key, edit, sweep>>
    BY <1>4 DEF Settle
  <2>4. limit' \in [Limits -> Row] /\ resv' \in [Requests -> ResvRecord]
    <3> HIDE DEF actual
    <3>1. QED
      BY <2>2, <2>3, SettleTyped
  <2>5. QED
    BY <2>3, <2>4
<1>5. ASSUME NEW r \in Requests, Release(r)
      PROVE  TypeOK'
  <2>1. Unused \in [Limits -> Nat]
    BY DEF Unused
  <2>2. limit' \in [Limits -> Row] /\ resv' \in [Requests -> ResvRecord]
    BY <1>5, <2>1, SettleTyped DEF Release
  <2>3. QED
    BY <1>5, <2>2 DEF Release
<1>6. ASSUME NEW r \in Requests, Touch(r)
      PROVE  TypeOK'
  <2>1. [resv[r] EXCEPT !.age = 0] \in ResvRecord
    BY DEF ResvRecord
  <2>2. resv' \in [Requests -> ResvRecord]
    BY <1>6, <2>1 DEF Touch
  <2>3. sweep' \in SweepRecord
    BY <1>6 DEF Touch, SweepRecord
  <2>4. QED
    BY <1>6, <2>2, <2>3 DEF Touch
<1>7. ASSUME NEW active \in BOOLEAN, SetActive(active)
      PROVE  TypeOK'
  BY <1>7 DEF SetActive
<1>8. ASSUME NEW rules \in [Limits -> MaxValues \cup {0}], NEW reset \in EditResets,
             EditRead(rules, reset)
      PROVE  TypeOK'
  <2>0. MaxValues \cup {0} \subseteq Nat
    BY AmountsAssumption
  <2>a. rules \in [Limits -> Nat]
    BY <2>0
  <2>1. rules \in [Limits -> Nat] /\ reset \in BOOLEAN
    BY <2>a, BoundsAssumption, Zenon
  <2>2. edit.count + 1 \in Nat
    BY DEF EditRecord
  <2>b. (edit.kept \/ ~reset) \in BOOLEAN
    BY Zenon
  <2>3. edit' \in EditRecord
    BY <1>8, <2>1, <2>2, <2>b, NothingTyped DEF EditRead, EditRecord
  <2>4. QED
    BY <1>8, <2>3 DEF EditRead
<1>9. CASE EditRefresh
  <2>1. edit.count \in Nat /\ edit.kept \in BOOLEAN
    BY DEF EditRecord
  <2>2. [NoEdit EXCEPT !.count = edit.count, !.kept = edit.kept] \in EditRecord
    BY <2>1, NothingTyped DEF EditRecord
  <2>3. [edit EXCEPT !.phase = "refreshed", !.cached = limit] \in EditRecord
    BY DEF EditRecord
  <2>4. QED
    BY <1>9, <2>2, <2>3 DEF EditRefresh
<1>10. CASE EditCommit
  <2>1. edit' \in EditRecord
    <3>1. edit.count \in Nat /\ edit.kept \in BOOLEAN
      BY DEF EditRecord
    <3>2. QED
      BY <1>10, <3>1, NothingTyped DEF EditCommit, EditRecord
  <2> DEFINE submitted == {l \in Limits : edit.rules[l] # 0}
             upserted == [l \in Limits |->
                            IF l \notin submitted THEN NoRow
                            ELSE IF l \in Present(limit) THEN UpsertRow(l)
                            ELSE IncomingRow(l)]
             trimmed == [r \in Requests |->
                        [resv[r] EXCEPT !.items = DropItems(@, submitted)]]
  <2>a. \/ UNCHANGED <<limit, resv>>
        \/ limit' = upserted /\ resv' = trimmed
    BY <1>10 DEF EditCommit
  <2>2. limit' \in [Limits -> Row]
    <3>1. upserted \in [Limits -> Row]
      <4> HIDE DEF Row, submitted
      <4>1. QED
        BY UpsertTyped, NothingTyped
    <3> HIDE DEF upserted
    <3>2. QED
      BY <2>a, <3>1
  <2>3. \A r \in Requests : \A rules :
           [resv[r] EXCEPT !.items = DropItems(@, rules)] \in ResvRecord
    <3> TAKE r \in Requests
    <3> TAKE rules
    <3>1. resv[r] \in ResvRecord /\ resv[r].items \in [Limits -> Item]
      BY DEF ResvRecord
    <3>2. DropItems(resv[r].items, rules) \in [Limits -> Item]
      BY <3>1, NothingTyped DEF DropItems
    <3>3. QED
      BY <3>1, <3>2 DEF ResvRecord
  <2>4. resv' \in [Requests -> ResvRecord]
    <3>1. trimmed \in [Requests -> ResvRecord]
      <4> HIDE DEF submitted
      <4>1. QED
        BY <2>3
    <3> HIDE DEF trimmed
    <3>2. QED
      BY <2>a, <3>1
  <2>5. sweep' \in SweepRecord
    <3>1. \/ UNCHANGED sweep
          \/ sweep' = [sweep EXCEPT !.torn = @ \cup
                        {r \in sweep.batch : ~(Present(resv[r].items) \subseteq submitted)}]
      BY <1>10 DEF EditCommit
    <3> HIDE DEF submitted
    <3>2. QED
      BY <3>1 DEF SweepRecord
  <2>6. QED
    BY <1>10, <2>1, <2>2, <2>4, <2>5 DEF EditCommit
<1>11. CASE DeleteKey
  BY <1>11, NothingTyped DEF DeleteKey
<1>12. CASE Tick
  <2>1. now' \in Nat
    BY <1>12, BoundsAssumption DEF Tick
  <2>2. \A r \in Requests : [resv[r] EXCEPT !.age = @ + 1] \in ResvRecord
    <3> TAKE r \in Requests
    <3>1. resv[r] \in ResvRecord /\ resv[r].age + 1 \in Nat
      BY DEF ResvRecord
    <3>2. QED
      BY <3>1 DEF ResvRecord
  <2>3. resv' \in [Requests -> ResvRecord]
    BY <1>12, <2>2 DEF Tick
  <2>4. QED
    BY <1>12, <2>1, <2>3 DEF Tick
<1>13. CASE SweepStart
  <2>1. sweep' \in SweepRecord
    BY <1>13 DEF SweepStart, SweepRecord
  <2>2. QED
    BY <1>13, <2>1, ResetExpiredTyped DEF SweepStart
<1>14. CASE SweepSelect
  <2>1. sweep.faults \in Nat
    BY DEF SweepRecord
  <2>2. sweep' \in SweepRecord
    <3>1. \/ sweep' = SweepIdle(sweep.faults)
          \/ \E stale \in SUBSET sweep.old : \E batch \in SUBSET stale :
                sweep' = [sweep EXCEPT !.phase = "claim", !.old = stale, !.batch = batch]
      BY <1>14, Zenon DEF SweepSelect
    <3>2. CASE sweep' = SweepIdle(sweep.faults)
      BY <2>1, <3>2, NothingTyped
    <3>3. ASSUME NEW stale \in SUBSET sweep.old, NEW batch \in SUBSET stale,
                 sweep' = [sweep EXCEPT !.phase = "claim", !.old = stale, !.batch = batch]
          PROVE  sweep' \in SweepRecord
      BY <3>3 DEF SweepRecord
    <3>4. QED
      BY <3>1, <3>2, <3>3
  <2>3. QED
    BY <1>14, <2>2 DEF SweepSelect
<1>15. CASE SweepClaim
  <2>1. sweep' \in SweepRecord
    BY <1>15 DEF SweepClaim, Claimed, SweepRecord
  <2>2. QED
    BY <1>15, <2>1 DEF SweepClaim
<1>16. CASE SweepTorn \/ SweepFails
  <2>1. sweep.faults \in Nat /\ sweep.faults + 1 \in Nat
    BY DEF SweepRecord
  <2>2. sweep' \in SweepRecord /\ UNCHANGED <<now, key, limit, resv, edit>>
    BY <1>16, <2>1, NothingTyped DEF SweepTorn, SweepFails
  <2>3. QED
    BY <2>2
<1>17. ASSUME NEW r \in Requests, SweepRelease(r)
       PROVE  TypeOK'
  <2>1. Unused \in [Limits -> Nat]
    BY DEF Unused
  <2>2. limit' \in [Limits -> Row] /\ resv' \in [Requests -> ResvRecord]
    BY <1>17, <2>1, SettleTyped DEF SweepRelease
  <2>3. sweep' \in SweepRecord
    BY <1>17 DEF SweepRelease, SweepRecord
  <2>4. QED
    BY <1>17, <2>2, <2>3 DEF SweepRelease
<1>18. CASE UNCHANGED vars
  BY <1>18 DEF vars
<1>19. QED
  BY <1>1, <1>2, <1>3, <1>4, <1>5, <1>6, <1>7, <1>8, <1>9, <1>10, <1>11, <1>12, <1>13,
     <1>14, <1>15, <1>16, <1>17, <1>18
  DEF Next, Request, SweeperStep, Dashboard

\* Every row of the ledger is well formed at all times; in particular no
\* counter, reserved or charged amount is ever negative, although refunds
\* are subtracted from counters that others reset and edit concurrently.
THEOREM LedgerTyped == Spec => []TypeOK
  BY InitTyped, StepTyped, PTL DEF Spec

\* What the sweeper relies on: a reservation it still looks at was settled or
\* deleted by others, or has had no heartbeat since the cutoff; and those its
\* transaction claimed stay reserved until it releases them.
OldStale ==
    \A r \in sweep.old :
        \/ key = "deleted" /\ resv[r].status = "free"
        \/ resv[r].status \in Settled
        \/ resv[r].status = "reserved" /\ resv[r].age > StaleAge

WriteHolds ==
    sweep.phase = "write" =>
        \A r \in sweep.batch : r \in sweep.old /\ resv[r].status = "reserved"

IInv == TypeOK /\ OldStale /\ WriteHolds

\* The steps of the others: a reservation that is old for the sweeper is left
\* alone, or leaves its status for good, or is touched and no longer old.
LEMMA OthersKeepOld ==
    ASSUME TypeOK, OldStale, NEW r \in sweep.old, r \in sweep'.old,
           ValidateKey \/ (\E q \in Requests : Request(q)) \/ Dashboard \/ Tick
    PROVE  \/ key' = "deleted" /\ resv'[r].status = "free"
           \/ resv'[r].status \in Settled
           \/ resv'[r].status = "reserved" /\ resv'[r].age > StaleAge
<1> USE TypeParts
<1>0. /\ r \in Requests /\ resv \in [Requests -> ResvRecord]
      /\ resv[r].status \in Statuses /\ resv[r].age \in Nat /\ StaleAge \in Nat
      /\ \/ key = "deleted" /\ resv[r].status = "free"
         \/ resv[r].status \in Settled
         \/ resv[r].status = "reserved" /\ resv[r].age > StaleAge
  BY BoundsAssumption DEF SweepRecord, ResvRecord, OldStale
<1> HIDE TypeParts
<1>1. CASE ValidateKey
  BY <1>0, <1>1 DEF ValidateKey
<1>2. ASSUME NEW q \in Requests, EnforceRead(q)
      PROVE  UNCHANGED <<key, resv[r]>>
  <2>1. q # r
    BY <1>0, <1>2 DEF EnforceRead
  <2>2. QED
    BY <1>0, <1>2, <2>1 DEF EnforceRead
<1>3. ASSUME NEW q \in Requests, NEW model \in Models, NEW tokens \in Budgets,
             Reserve(q, model, tokens)
      PROVE  UNCHANGED <<key, resv[r]>>
  <2>1. q # r
    BY <1>0, <1>3 DEF Reserve
  <2>2. QED
    BY <1>0, <1>3, <2>1 DEF Reserve
<1>4. ASSUME NEW q \in Requests, NEW status \in Settled, NEW actual,
             resv' = [resv EXCEPT ![q] = SettleRow(@, status, actual)], key' = key
      PROVE  UNCHANGED <<key, resv[r]>> \/ resv'[r].status \in Settled
  <2>1. CASE q = r
    <3>1. resv'[r] = SettleRow(resv[r], status, actual) /\ resv[r] \in ResvRecord
      BY <1>0, <1>4, <2>1
    <3>2. QED
      BY <3>1 DEF SettleRow, ResvRecord
  <2>2. CASE q # r
    BY <1>0, <1>4, <2>2
  <2>3. QED
    BY <2>1, <2>2
<1>5. ASSUME NEW q \in Requests, Touch(q)
      PROVE  UNCHANGED <<key, resv[r]>>
  <2>1. q # r
    BY <1>5, TypeParts DEF Touch, SweepRecord
  <2>2. QED
    BY <1>0, <1>5, <2>1 DEF Touch
<1>6. CASE \E q \in Requests : Request(q)
  <2> PICK q \in Requests : Request(q)
    BY <1>6
  <2>1. ASSUME NEW status \in {"finalized", "failed"}, NEW tokens \in Usages,
               Settle(q, status, tokens)
        PROVE  UNCHANGED <<key, resv[r]>> \/ resv'[r].status \in Settled
    <3>1. /\ resv' = [resv EXCEPT ![q] = SettleRow(@, status,
                          [l \in Limits |-> Increment(l, resv[q].model, tokens)])]
          /\ key' = key /\ status \in Settled
      BY <2>1 DEF Settle, Settled
    <3>2. QED
      BY <3>1, <1>4, Zenon
  <2>2. ASSUME Release(q)
        PROVE  UNCHANGED <<key, resv[r]>> \/ resv'[r].status \in Settled
    <3>1. resv' = [resv EXCEPT ![q] = SettleRow(@, "released", Unused)] /\ key' = key
      BY <2>2 DEF Release
    <3>2. "released" \in Settled
      BY DEF Settled
    <3> HIDE DEF Settled
    <3>3. QED
      BY <3>1, <3>2, <1>4, Zenon
  <2>3. UNCHANGED <<key, resv[r]>> \/ resv'[r].status \in Settled
    <3> HIDE DEF Settled
    <3>1. QED
      BY <1>2, <1>3, <1>5, <2>1, <2>2, Zenon DEF Request
  <2>4. QED
    BY <1>0, <2>3
<1>7. CASE \E active \in BOOLEAN : SetActive(active)
  BY <1>0, <1>7 DEF SetActive
<1>8. CASE \E rules \in [Limits -> MaxValues \cup {0}], reset \in EditResets : EditRead(rules, reset)
  BY <1>0, <1>8 DEF EditRead
<1>9. CASE EditRefresh
  BY <1>0, <1>9 DEF EditRefresh
<1>10. CASE EditCommit
  <2> DEFINE submitted == {l \in Limits : edit.rules[l] # 0}
  <2>1. /\ key' = key
        /\ \/ resv' = resv
           \/ resv' = [q \in Requests |-> [resv[q] EXCEPT !.items = DropItems(@, submitted)]]
    BY <1>10 DEF EditCommit
  <2> HIDE DEF submitted
  <2>2. resv'[r].status = resv[r].status /\ resv'[r].age = resv[r].age
    BY <1>0, <2>1 DEF ResvRecord
  <2>3. QED
    BY <1>0, <2>1, <2>2
<1>11. CASE DeleteKey
  <2>1. resv[r].status # "checking"
    BY <1>0
  <2>2. resv'[r] = NoReservation /\ key' = "deleted"
    BY <1>0, <1>11, <2>1 DEF DeleteKey
  <2>3. QED
    BY <2>2 DEF NoReservation
<1>12. CASE Tick
  <2>1. \/ resv'[r] = resv[r]
        \/ resv[r].status = "reserved" /\ resv'[r] = [resv[r] EXCEPT !.age = @ + 1]
    BY <1>0, <1>12 DEF Tick
  <2>2. resv'[r].status = resv[r].status /\ resv'[r].age >= resv[r].age /\ resv'[r].age \in Nat
    BY <1>0, <2>1 DEF ResvRecord
  <2>3. QED
    BY <1>0, <1>12, <2>2 DEF Tick
<1>13. QED
  BY <1>1, <1>6, <1>7, <1>8, <1>9, <1>10, <1>11, <1>12 DEF Dashboard

LEMMA InitSwept == Init => IInv
  BY InitTyped DEF Init, IInv, OldStale, WriteHolds, NoSweep

\* Every step keeps the invariant of the sweeper.
LEMMA StepSwept == IInv /\ [Next]_vars => IInv'
<1> SUFFICES ASSUME IInv, [Next]_vars
             PROVE  OldStale' /\ WriteHolds'
  BY StepTyped DEF IInv
<1> USE DEF IInv
<1>0. /\ TypeOK /\ sweep \in SweepRecord /\ sweep.old \subseteq Requests
      /\ sweep.batch \subseteq Requests
      /\ resv \in [Requests -> ResvRecord]
  BY TypeParts DEF SweepRecord
<1>1. ASSUME sweep.phase # "write",
             ValidateKey \/ (\E q \in Requests : Request(q)) \/ Dashboard \/ Tick
      PROVE  OldStale' /\ WriteHolds'
  <2>1. \/ UNCHANGED sweep
        \/ \E q \in Requests : sweep' = [sweep EXCEPT !.old = @ \ {q}]
        \/ \E torn : sweep' = [sweep EXCEPT !.torn = torn]
    <3>1. CASE ValidateKey \/ Tick
      BY <3>1 DEF ValidateKey, Tick
    <3>2. CASE \E q \in Requests : Request(q)
      BY <3>2, Zenon DEF Request, EnforceRead, Reserve, Settle, Release, Touch
    <3>3. CASE EditCommit
      BY <3>3, Zenon DEF EditCommit
    <3>4. CASE Dashboard /\ ~EditCommit
      BY <3>4, Zenon DEF Dashboard, SetActive, EditRead, EditRefresh, DeleteKey
    <3>5. QED
      BY <1>1, <3>1, <3>2, <3>3, <3>4
  <2>2. sweep'.old \subseteq sweep.old /\ sweep'.phase = sweep.phase
    BY <1>0, <2>1 DEF SweepRecord
  <2>3. WriteHolds'
    BY <1>1, <2>2 DEF WriteHolds
  <2>4. OldStale'
    BY <1>0, <1>1, <2>2, OthersKeepOld DEF OldStale
  <2>5. QED
    BY <2>3, <2>4
<1>2. CASE SweepStart
  <2> DEFINE old == {r \in Requests : resv[r].status = "reserved" /\ resv[r].age > StaleAge}
  <2>1. /\ sweep.phase = "idle" /\ UNCHANGED <<key, resv>>
        /\ \/ UNCHANGED sweep
           \/ sweep' = [sweep EXCEPT !.phase = "select", !.old = old]
    BY <1>2 DEF SweepStart
  <2>2. sweep'.phase # "write"
    BY <1>0, <2>1 DEF SweepRecord
  <2>3. sweep'.old = sweep.old \/ sweep'.old = old
    <3> HIDE DEF old
    <3>1. QED
      BY <1>0, <2>1 DEF SweepRecord
  <2>4. QED
    BY <2>1, <2>2, <2>3 DEF OldStale, WriteHolds
<1>3. CASE SweepSelect
  <2>1. /\ UNCHANGED <<key, resv>>
        /\ \/ sweep' = SweepIdle(sweep.faults)
           \/ \E stale \in SUBSET sweep.old : \E batch :
                 sweep' = [sweep EXCEPT !.phase = "claim", !.old = stale, !.batch = batch]
    BY <1>3, Zenon DEF SweepSelect
  <2>2. sweep'.old \subseteq sweep.old /\ sweep'.phase # "write"
    BY <1>0, <2>1 DEF SweepRecord, SweepIdle, NoSweep
  <2>3. QED
    BY <2>1, <2>2 DEF OldStale, WriteHolds
<1>4. CASE SweepClaim
  <2>1. UNCHANGED <<key, resv>> /\ sweep'.old = sweep.old /\ sweep'.batch = Claimed
    BY <1>0, <1>4 DEF SweepClaim, SweepRecord
  <2>2. QED
    BY <2>1 DEF Claimed, StillStale, OldStale, WriteHolds
<1>5. CASE SweepTorn \/ SweepFails
  BY <1>5 DEF SweepTorn, SweepFails, SweepIdle, NoSweep, OldStale, WriteHolds
<1>6. ASSUME NEW q \in Requests, SweepRelease(q)
      PROVE  OldStale' /\ WriteHolds'
  <2>1. /\ sweep'.old = sweep.old \ {q} /\ sweep'.batch = sweep.batch \ {q}
        /\ key' = key /\ sweep.phase = "write"
        /\ \A r \in Requests \ {q} : resv'[r] = resv[r]
    BY <1>0, <1>6 DEF SweepRelease, SweepRecord
  <2>2. QED
    BY <1>0, <2>1 DEF OldStale, WriteHolds
<1>7. CASE UNCHANGED vars
  BY <1>7 DEF vars, OldStale, WriteHolds
<1>8. QED
  BY <1>1, <1>2, <1>3, <1>4, <1>5, <1>6, <1>7 DEF Next, SweeperStep

LEMMA LedgerSwept == Spec => []IInv
  BY InitSwept, StepSwept, PTL DEF Spec

\* The sweeper never releases the reservation of a request whose heartbeat
\* came after the cutoff of its pass, for any number of requests and batches,
\* however the heartbeat falls between its statements (repository.py:666-681).
THEOREM LedgerHeartbeatKept == Spec => HeartbeatKept
<1>1. IInv => \A r \in Requests : SweepRelease(r) => resv[r].age > StaleAge
  BY DEF IInv, OldStale, WriteHolds, SweepRelease
<1>2. IInv /\ [Next]_vars
        => [\A r \in Requests : SweepRelease(r) => resv[r].age > StaleAge]_vars
  BY <1>1
<1>3. QED
  BY <1>2, LedgerSwept, PTL DEF Spec, HeartbeatKept

\* What happens to one reservation in a step: it is left alone, or was not
\* settled, or lost items of deleted rules, or its key is gone.
LEMMA ReservationStep ==
    ASSUME IInv, Next, NEW r \in Requests, resv[r].status \in Settled
    PROVE  \/ key' = "deleted"
           \/ resv'[r] = resv[r]
           \/ \E rules : resv'[r] = [resv[r] EXCEPT !.items = DropItems(@, rules)]
<1> USE TypeParts
<1>0. resv \in [Requests -> ResvRecord] /\ resv[r] \in ResvRecord
  BY DEF IInv
<1>1. CASE ValidateKey
  BY <1>1 DEF ValidateKey
<1>2. ASSUME NEW q \in Requests, Request(q)
      PROVE  resv'[r] = resv[r]
  <2>1. resv[q].status \notin Settled
    BY <1>2 DEF Request, EnforceRead, Reserve, Settle, Release, Touch, ClaimReservation
  <2>2. q # r
    BY <2>1
  <2>3. CASE EnforceRead(q)
    BY <2>2, <2>3, <1>0 DEF EnforceRead
  <2>4. ASSUME NEW model \in Models, NEW tokens \in Budgets, Reserve(q, model, tokens)
        PROVE  resv'[r] = resv[r]
    BY <2>2, <2>4, <1>0 DEF Reserve
  <2>5. ASSUME NEW status \in {"finalized", "failed"}, NEW tokens \in Usages,
               Settle(q, status, tokens)
        PROVE  resv'[r] = resv[r]
    BY <2>2, <2>5, <1>0 DEF Settle
  <2>6. CASE Release(q)
    BY <2>2, <2>6, <1>0 DEF Release
  <2>7. CASE Touch(q)
    BY <2>2, <2>7, <1>0 DEF Touch
  <2>8. QED
    BY <1>2, <2>3, <2>4, <2>5, <2>6, <2>7 DEF Request
<1>3. CASE \E active \in BOOLEAN : SetActive(active)
  BY <1>3 DEF SetActive
<1>4. CASE \E rules \in [Limits -> MaxValues \cup {0}], reset \in EditResets : EditRead(rules, reset)
  BY <1>4 DEF EditRead
<1>5. CASE EditRefresh
  BY <1>5 DEF EditRefresh
<1>6. CASE EditCommit
  <2> DEFINE submitted == {l \in Limits : edit.rules[l] # 0}
  <2>1. \/ resv' = resv
        \/ resv' = [q \in Requests |-> [resv[q] EXCEPT !.items = DropItems(@, submitted)]]
    BY <1>6 DEF EditCommit
  <2> HIDE DEF submitted
  <2>2. QED
    BY <2>1
<1>7. CASE DeleteKey
  BY <1>7 DEF DeleteKey
<1>8. CASE Tick
  BY <1>8 DEF Tick
<1>9. CASE SweepStart \/ SweepSelect \/ SweepClaim \/ SweepTorn \/ SweepFails
  BY <1>9, Zenon DEF SweepStart, SweepSelect, SweepClaim, SweepTorn, SweepFails
<1>10. ASSUME NEW q \in Requests, SweepRelease(q)
       PROVE  resv'[r] = resv[r]
  <2>1. q # r
    BY <1>10 DEF IInv, WriteHolds, SweepRelease
  <2>2. QED
    BY <1>0, <1>10, <2>1 DEF SweepRelease
<1>11. QED
  BY <1>1, <1>2, <1>3, <1>4, <1>5, <1>6, <1>7, <1>8, <1>9, <1>10
  DEF Next, SweeperStep, Dashboard

\* Each reservation is settled at most once: a late finalize after the
\* sweeper released it, a release after a finalize, or any second call
\* changes neither its status nor its charges.
THEOREM LedgerSettledOnce == Spec => SettledOnce
<1> DEFINE Once == \A r \in Requests : resv[r].status \in Settled =>
                      \/ key' = "deleted"
                      \/ /\ resv'[r].status = resv[r].status
                         /\ \A l \in Present(resv'[r].items) :
                               resv'[r].items[l] = resv[r].items[l]
<1>1. IInv /\ Next => Once
  <2> SUFFICES ASSUME IInv, Next, NEW r \in Requests, resv[r].status \in Settled,
                      key' # "deleted"
               PROVE  /\ resv'[r].status = resv[r].status
                      /\ \A l \in Present(resv'[r].items) :
                            resv'[r].items[l] = resv[r].items[l]
    OBVIOUS
  <2>1. CASE resv'[r] = resv[r]
    BY <2>1
  <2>2. ASSUME NEW rules, resv'[r] = [resv[r] EXCEPT !.items = DropItems(@, rules)]
        PROVE  /\ resv'[r].status = resv[r].status
               /\ \A l \in Present(resv'[r].items) :
                     resv'[r].items[l] = resv[r].items[l]
    <3>1. resv[r] \in ResvRecord
      BY TypeParts DEF IInv
    <3>2. /\ resv'[r].status = resv[r].status
          /\ resv'[r].items = DropItems(resv[r].items, rules)
      BY <2>2, <3>1 DEF ResvRecord
    <3>3. QED
      BY <3>2 DEF Present, DropItems, NoItem
  <2>3. QED
    BY <2>1, <2>2, ReservationStep
<1>2. IInv /\ [Next]_vars => [Once]_vars
  BY <1>1
<1>3. QED
  BY <1>2, LedgerSwept, PTL DEF Spec, SettledOnce

=============================================================================
