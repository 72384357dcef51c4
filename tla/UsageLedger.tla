---------------------------- MODULE UsageLedger ----------------------------
(***************************************************************************)
(* The usage ledger of one API key (app/modules/api_keys).                 *)
(*                                                                         *)
(* Before a request goes upstream its budget is reserved against every     *)
(* limit that applies to it; when it ends the reservation is settled with  *)
(* what was really used, or released.  Limits roll over to a new window    *)
(* when they expire.  Request handlers, the reset sweeper of the leader    *)
(* replica and the dashboard's edits run concurrently, in any replica.     *)
(*                                                                         *)
(* Concurrency is that of the database: READ COMMITTED.  A transaction     *)
(* that only writes through conditional UPDATEs is one action, taken at    *)
(* its commit (the rows it updated stay locked until then); what a handler *)
(* read earlier, and still uses, is state: `seen` of a reservation and     *)
(* `read`, `cached` of an edit.                                            *)
(***************************************************************************)
EXTENDS Integers, FiniteSetsExt

CONSTANTS
    Requests,       \* requests, each with at most one reservation
    Limits,         \* limit rules, by (limit_type, limit_window, model_filter)
    LimitType,      \* limit_type of each rule
    Window,         \* limit_window_delta of each rule
    ModelFilter,    \* model_filter of each rule, NoModel where it is None
    Models,         \* the models a request may name, NoModel for none
    NoModel,
    Price,          \* price per token of each model, 0 for an unknown one
    UnknownPrice,   \* price reserved per token of an unknown model
    MaxValues,      \* max_value a dashboard edit may submit
    Budgets,        \* <<input, output>> tokens a request may budget
    Usages,         \* <<input, output>> tokens a request may turn out to use
    StaleAge,       \* age up to which the sweeper leaves a reservation alone
    BatchSize,      \* reservations the sweeper releases in one transaction
    MaxSweepFaults, \* bound: passes of the sweeper that fail
    MaxTime,        \* bound: the clock stops here (reservations still age)
    MaxEdits,       \* bound: dashboard edits of the limits
    EditResets,     \* the values of reset_usage such edits may have
    InitialMax      \* max_value of every limit at the start

Types == {"total_tokens", "input_tokens", "output_tokens", "cost_usd", "credits"}

ASSUME RulesAssumption ==
    /\ LimitType \in [Limits -> Types]
    /\ Window \in [Limits -> Nat \ {0}]
    /\ NoModel \in Models
    /\ ModelFilter \in [Limits -> Models]
ASSUME PriceAssumption ==
    /\ Price \in [Models -> Nat]
    /\ Price[NoModel] = 0
    /\ UnknownPrice \in Nat
ASSUME AmountsAssumption ==
    /\ MaxValues \subseteq Nat \ {0}
    /\ InitialMax \in Nat \ {0}
    /\ Budgets \subseteq Nat \X Nat
    /\ Usages \subseteq Nat \X Nat
ASSUME BoundsAssumption ==
    /\ StaleAge \in Nat
    /\ BatchSize \in Nat \ {0}
    /\ MaxSweepFaults \in Nat
    /\ MaxTime \in Nat
    /\ MaxEdits \in Nat
    /\ EditResets \subseteq BOOLEAN

VARIABLES
    now,    \* utcnow()
    key,    \* the key row: "active", "inactive" (is_active is false, or
            \* expires_at has passed) or "deleted"
    limit,  \* its ApiKeyLimit rows, one for each rule or NoRow
    resv,   \* its ApiKeyUsageReservation rows, and the requests before them
    edit,   \* the update_key call in progress that submits limits
    sweep   \* the pass of the leader's sweeper in progress

vars == <<now, key, limit, resv, edit, sweep>>

Row == [max : Nat, current : Nat, resetAt : Nat]
Item == [reserved : Nat, resetAt : Nat, actual : Nat]

\* No row for a rule, no item for a rule: reset_at is never null in the code.
NoRow == [max |-> 0, current |-> 0, resetAt |-> 0]
NoItem == [reserved |-> 0, resetAt |-> 0, actual |-> 0]
NoRows == [l \in Limits |-> NoRow]
NoItems == [l \in Limits |-> NoItem]

\* The rules that have a row, or an item.
Present(rows) == {l \in Limits : rows[l].resetAt # 0}

\* "free": no reservation; "checking": enforce_limits_for_request has read
\* the limits; the others are the row's status.
Settled == {"finalized", "failed", "released"}
Statuses == {"free", "checking", "reserved"} \cup Settled

NoReservation ==
    [status |-> "free", model |-> NoModel, seen |-> NoRows, items |-> NoItems, age |-> 0]

\* rules: the max_value submitted for each rule, 0 for one not submitted;
\* read, cached: the rows as get_by_id loaded them, first and last.  count and
\* kept are history: how many edits began, and whether one was to keep usage.
NoEdit == [phase |-> "idle", rules |-> [l \in Limits |-> 0], reset |-> FALSE,
           at |-> 0, read |-> NoRows, cached |-> NoRows, count |-> 0, kept |-> FALSE]

\* "select": looking for stale reservations; "claim": `batch` was selected;
\* "write": the batch's transaction holds its rows.  old: the reservations
\* whose updated_at is before the cutoff of the pass; torn: those of the
\* batch that lost an item since it was read; faults: history.
NoSweep == [phase |-> "idle", old |-> {}, batch |-> {}, torn |-> {}, faults |-> 0]

TypeOK ==
    /\ now \in Nat
    /\ key \in {"active", "inactive", "deleted"}
    /\ limit \in [Limits -> Row]
    /\ resv \in [Requests -> [status : Statuses, model : Models,
                              seen : [Limits -> Row], items : [Limits -> Item],
                              age : Nat]]
    /\ edit \in [phase : {"idle", "read", "refreshed"},
                 rules : [Limits -> Nat], reset : BOOLEAN, at : Nat,
                 read : [Limits -> Row], cached : [Limits -> Row], count : Nat, kept : BOOLEAN]
    /\ sweep \in [phase : {"idle", "select", "claim", "write"},
                  old : SUBSET Requests, batch : SUBSET Requests,
                  torn : SUBSET Requests, faults : Nat]

\* A key just created: every rule is present, unused, one window ahead.
Init ==
    /\ now = 0
    /\ key = "active"
    /\ limit = [l \in Limits |-> [max |-> InitialMax, current |-> 0, resetAt |-> Window[l]]]
    /\ resv = [r \in Requests |-> NoReservation]
    /\ edit = NoEdit
    /\ sweep = NoSweep

-----------------------------------------------------------------------------
(* What a request costs *)

Cost(model, tokens) == Price[model] * (tokens[1] + tokens[2])

\* _compute_increment_for_limit_type
Increment(l, model, tokens) ==
    CASE LimitType[l] = "total_tokens"  -> tokens[1] + tokens[2]
      [] LimitType[l] = "input_tokens"  -> tokens[1]
      [] LimitType[l] = "output_tokens" -> tokens[2]
      [] LimitType[l] = "cost_usd"      -> Cost(model, tokens)
      [] LimitType[l] = "credits"       -> 0

\* _reserve_budget_for_limit_type: as the increment, but a request whose
\* price is not known reserves a default price.
ReserveBudget(l, model, tokens) ==
    IF LimitType[l] = "cost_usd" /\ Cost(model, tokens) = 0
    THEN UnknownPrice * (tokens[1] + tokens[2])
    ELSE Increment(l, model, tokens)

\* _limit_applies_for_request
Applies(l, model) == ModelFilter[l] \in {NoModel, model}

\* _reserve_delta_for_limit
ReserveDelta(l, row, model, tokens) ==
    LET remaining == row.max - row.current
        budget    == ReserveBudget(l, model, tokens)
    IN  IF remaining <= 0 THEN 0
        ELSE IF budget < remaining THEN budget ELSE remaining

-----------------------------------------------------------------------------
(* Windows *)

\* Slip: the new window begins when the old one is noticed to be over.
AdvanceReset_FromNow(resetAt, w) == IF resetAt > now THEN resetAt ELSE now + w

\* advance_limit_reset: whole windows are added until the end is past now.
AdvanceReset(resetAt, w) ==
    IF resetAt > now THEN resetAt ELSE resetAt + ((now - resetAt) \div w + 1) * w

\* Slip: the window rolls over but the counter is not cleared.
ResetExpired_KeepsCounter(rows) ==
    [l \in Limits |->
        IF l \notin Present(rows) \/ rows[l].resetAt >= now THEN rows[l]
        ELSE [rows[l] EXCEPT !.resetAt = AdvanceReset(@, Window[l])]]

\* _lazy_reset_expired_limits and reset_expired_limits, over all the rows.
ResetExpired(rows) ==
    [l \in Limits |->
        IF l \notin Present(rows) \/ rows[l].resetAt >= now THEN rows[l]
        ELSE [rows[l] EXCEPT !.current = 0,
                             !.resetAt = AdvanceReset(@, Window[l])]]

-----------------------------------------------------------------------------
(* Admission: validate_key, then enforce_limits_for_request *)

\* validate_key, on a cache miss: an active key's expired limits roll over.
ValidateKey ==
    /\ key = "active"
    /\ \E l \in Present(limit) : limit[l].resetAt < now
    /\ limit' = ResetExpired(limit)
    /\ UNCHANGED <<now, key, resv, edit, sweep>>

\* enforce_limits_for_request up to its last read of the key: a key that is
\* not active, or past its expires_at, is refused; expired limits roll over
\* (each in a transaction of its own) and the rows are read.
EnforceRead(r) ==
    /\ resv[r].status = "free"
    /\ key = "active"
    /\ limit' = ResetExpired(limit)
    /\ resv' = [resv EXCEPT ![r].status = "checking", ![r].seen = limit']
    /\ UNCHANGED <<now, key, edit, sweep>>

\* Slip: the reservation is not conditional on the row's current usage.
TryReserveUsage_Unconditional(l, row, delta) ==
    /\ l \in Present(limit)
    /\ delta > 0 => limit[l].resetAt = row.resetAt

\* try_reserve_usage: the UPDATE of one limit matches its row.  Nothing is
\* updated for a delta of zero, but the item to be created refers to the row.
TryReserveUsage(l, row, delta) ==
    /\ l \in Present(limit)
    /\ delta > 0 => /\ limit[l].resetAt = row.resetAt
                    /\ limit[l].current + delta <= limit[l].max

\* The rest of enforce_limits_for_request, one transaction: it succeeds for
\* all the limits that apply and creates the reservation, or rolls back.
Reserve(r, model, tokens) ==
    LET seen     == resv[r].seen
        applying == {l \in Present(seen) : Applies(l, model)}
        delta(l) == ReserveDelta(l, seen[l], model, tokens)
        granted  == \A l \in applying : /\ seen[l].current < seen[l].max
                                        /\ TryReserveUsage(l, seen[l], delta(l))
    IN  /\ resv[r].status = "checking"
        /\ \/ /\ granted
              /\ key # "deleted"
              /\ limit' = [l \in Limits |->
                             IF l \in applying
                             THEN [limit[l] EXCEPT !.current = @ + delta(l)]
                             ELSE limit[l]]
              /\ resv' = [resv EXCEPT ![r] =
                    [status |-> "reserved", model |-> model, seen |-> NoRows,
                     items |-> [l \in Limits |->
                        IF l \in applying
                        THEN [reserved |-> delta(l), resetAt |-> seen[l].resetAt, actual |-> 0]
                        ELSE NoItem],
                     age |-> 0]]
           \/ /\ ~granted \/ key = "deleted"
              /\ resv' = [resv EXCEPT ![r] = NoReservation]
              /\ UNCHANGED limit
        /\ UNCHANGED <<now, key, edit, sweep>>

-----------------------------------------------------------------------------
(* Settlement *)

\* Slip: the adjustment is applied to whatever window is current.
AdjustReservedUsage_AnyWindow(rows, items, actual) ==
    [l \in Limits |->
        IF l \notin Present(items) THEN rows[l]
        ELSE LET value == rows[l].current + actual[l] - items[l].reserved
             IN  [rows[l] EXCEPT !.current = IF value >= 0 THEN value ELSE @]]

\* Slip: the guard that keeps the counter from going negative is dropped.
AdjustReservedUsage_NoFloor(rows, items, actual) ==
    [l \in Limits |->
        IF l \notin Present(items) THEN rows[l]
        ELSE IF items[l].resetAt # rows[l].resetAt THEN rows[l]
        ELSE [rows[l] EXCEPT !.current = @ + actual[l] - items[l].reserved]]

\* adjust_reserved_usage for every item: the reserved amount is exchanged
\* for the actual one in the window it was reserved in; an adjustment that
\* would make the counter negative is skipped.
AdjustReservedUsage(rows, items, actual) ==
    [l \in Limits |->
        IF l \notin Present(items) THEN rows[l]
        ELSE IF items[l].resetAt # rows[l].resetAt THEN rows[l]
        ELSE LET value == rows[l].current + actual[l] - items[l].reserved
             IN  [rows[l] EXCEPT !.current = IF value >= 0 THEN value ELSE @]]

\* upsert_reservation_item_actual for every item, then the final status.
SettleRow(row, status, actual) ==
    [row EXCEPT !.status = status,
                !.items = [l \in Limits |->
                             IF l \in Present(row.items)
                             THEN [row.items[l] EXCEPT !.actual = actual[l]]
                             ELSE NoItem]]

\* Slip: a reservation is settled whatever its status.
ClaimReservation_Unchecked(r) == resv[r].status \notin {"free", "checking"}

\* transition_usage_reservation_status from "reserved".
ClaimReservation(r) == resv[r].status = "reserved"

\* finalize_usage_reservation, fail_usage_reservation
Settle(r, status, tokens) ==
    LET actual == [l \in Limits |-> Increment(l, resv[r].model, tokens)]
    IN  /\ ClaimReservation(r)
        /\ limit' = AdjustReservedUsage(limit, resv[r].items, actual)
        /\ resv' = [resv EXCEPT ![r] = SettleRow(@, status, actual)]
        /\ UNCHANGED <<now, key, edit, sweep>>

Unused == [l \in Limits |-> 0]

\* release_usage_reservation
Release(r) ==
    /\ ClaimReservation(r)
    /\ limit' = AdjustReservedUsage(limit, resv[r].items, Unused)
    /\ resv' = [resv EXCEPT ![r] = SettleRow(@, "released", Unused)]
    /\ UNCHANGED <<now, key, edit, sweep>>

\* touch_usage_reservation, the heartbeat of a running request
Touch(r) ==
    /\ resv[r].status = "reserved"
    /\ resv' = [resv EXCEPT ![r].age = 0]
    /\ sweep' = [sweep EXCEPT !.old = @ \ {r}]
    /\ UNCHANGED <<now, key, limit, edit>>

-----------------------------------------------------------------------------
(* The sweeper of the leader replica: _reset_once *)

\* A pass begins: reset_expired_limits, which unlike ValidateKey does not look
\* at the key, and the cutoff that release_stale_usage_reservations uses to
\* the end of the pass.
SweepStart ==
    LET old == {r \in Requests : resv[r].status = "reserved" /\ resv[r].age > StaleAge}
    IN  /\ sweep.phase = "idle"
        /\ limit' = ResetExpired(limit)
        /\ sweep' = IF old = {} THEN sweep ELSE [sweep EXCEPT !.phase = "select", !.old = old]
        /\ UNCHANGED <<now, key, resv, edit>>

\* The pass is over, or gave up.
SweepIdle(faults) == [NoSweep EXCEPT !.faults = faults]

\* The ids of the next batch and their items are read; the pass ends when
\* there are none.  The oldest come first, which is left open.
SweepSelect ==
    LET stale == {r \in sweep.old : resv[r].status = "reserved"}
    IN  /\ sweep.phase = "select"
        /\ \/ /\ stale = {}
              /\ sweep' = SweepIdle(sweep.faults)
           \/ \E batch \in SUBSET stale :
                 /\ batch # {}
                 /\ Cardinality(batch) = Min({BatchSize, Cardinality(stale)})
                 /\ sweep' = [sweep EXCEPT !.phase = "claim", !.old = stale, !.batch = batch]
        /\ UNCHANGED <<now, key, limit, resv, edit>>

\* Slip: the conditional UPDATE looks at the status alone.
StillStale_StatusOnly(r) == resv[r].status = "reserved"

\* The conditional UPDATE that claims a reservation for release: it was not
\* settled, and no heartbeat touched it, since it was selected.
StillStale(r) == resv[r].status = "reserved" /\ r \in sweep.old

Claimed == {r \in sweep.batch : StillStale(r)}

\* Slip: a reservation that cannot be claimed ends the pass.
SweepClaim_AllOrNothing ==
    /\ sweep.phase = "claim" /\ Claimed \cap sweep.torn = {}
    /\ sweep' = IF Claimed = sweep.batch
                THEN [sweep EXCEPT !.phase = "write"] ELSE SweepIdle(sweep.faults)
    /\ UNCHANGED <<now, key, limit, resv, edit>>

\* The batch's transaction claims the reservations still stale, and skips the
\* others.  What it claimed stays locked until it commits.
SweepClaim ==
    /\ sweep.phase = "claim" /\ Claimed \cap sweep.torn = {}
    /\ sweep' = [sweep EXCEPT !.phase = IF Claimed = {} THEN "select" ELSE "write",
                              !.batch = Claimed, !.torn = {}]
    /\ UNCHANGED <<now, key, limit, resv, edit>>

\* A rule of an item that was read is gone: inserting the item again breaks
\* its foreign key, the whole batch is rolled back and the pass given up.
SweepTorn ==
    /\ sweep.phase = "claim" /\ Claimed \cap sweep.torn # {}
    /\ sweep' = SweepIdle(sweep.faults)
    /\ UNCHANGED <<now, key, limit, resv, edit>>

\* One claimed reservation is released; the last one commits.  The
\* transaction shows at its commit: Next has no other step until then.
SweepRelease(r) ==
    /\ sweep.phase = "write" /\ r \in sweep.batch
    /\ limit' = AdjustReservedUsage(limit, resv[r].items, Unused)
    /\ resv' = [resv EXCEPT ![r] = SettleRow(@, "released", Unused)]
    /\ sweep' = [sweep EXCEPT !.phase = IF sweep.batch = {r} THEN "select" ELSE "write",
                              !.old = @ \ {r}, !.batch = @ \ {r}]
    /\ UNCHANGED <<now, key, edit>>

\* A statement fails for another reason, with the same effect.
SweepFails ==
    /\ sweep.phase \in {"select", "claim"} /\ sweep.faults < MaxSweepFaults
    /\ sweep' = SweepIdle(sweep.faults + 1)
    /\ UNCHANGED <<now, key, limit, resv, edit>>

-----------------------------------------------------------------------------
(* The dashboard: update_key and delete_key *)

\* update_key that changes is_active or expires_at and submits no limits;
\* a key that reaches its expires_at becomes inactive by itself.
SetActive(active) ==
    /\ key # "deleted"
    /\ key' = IF active THEN "active" ELSE "inactive"
    /\ key' # key
    /\ UNCHANGED <<now, limit, resv, edit, sweep>>

\* The ends of the windows of rule l that the ledger still refers to.
WindowEnds(l) ==
    LET rowSets == {limit} \cup {resv[r].seen : r \in Requests}
                           \cup {resv[r].items : r \in Requests}
    IN  {rows[l].resetAt : rows \in {f \in rowSets : l \in Present(f)}}

\* Instants have microseconds in the code and are few in the model: an edit
\* happens at none that is a whole number of windows from a window's end,
\* so that the windows it starts can be told from all others.
DistinctInstant ==
    \A l \in Limits : \A t \in WindowEnds(l) : (now - t) % Window[l] # 0

\* update_key submitting limits, or reset_usage alone (then it resubmits
\* the rules it read): the key and its limits are loaded by get_by_id, and
\* the new rows are computed from what was loaded then.
EditRead(rules, reset) ==
    /\ edit.phase = "idle"
    /\ edit.count < MaxEdits
    /\ key # "deleted"
    /\ DistinctInstant
    /\ edit' = [phase |-> "read", rules |-> rules, reset |-> reset, at |-> now,
                read |-> limit, cached |-> NoRows, count |-> edit.count + 1,
                kept |-> edit.kept \/ ~reset]
    /\ UNCHANGED <<now, key, limit, resv, sweep>>

\* repository.update: get_by_id (populate_existing) loads the rows again
\* into the session; a key that is gone ends the call.
EditRefresh ==
    /\ edit.phase = "read"
    /\ edit' = IF key = "deleted"
               THEN [NoEdit EXCEPT !.count = edit.count, !.kept = edit.kept]
               ELSE [edit EXCEPT !.phase = "refreshed", !.cached = limit]
    /\ UNCHANGED <<now, key, limit, resv, sweep>>

\* _build_limit_rows_for_update, _build_reset_limit_rows: a rule that was
\* there keeps the usage that was read, unless usage is to be reset.
IncomingRow(l) ==
    IF l \in Present(edit.read) /\ ~edit.reset
    THEN [edit.read[l] EXCEPT !.max = edit.rules[l]]
    ELSE [max |-> edit.rules[l], current |-> 0, resetAt |-> edit.at + Window[l]]

\* upsert_limits assigns the incoming values to the loaded row; the flush
\* writes the columns whose value differs from the loaded one.
UpsertRow(l) ==
    LET new    == IncomingRow(l)
        loaded == edit.cached[l]
        row    == limit[l]
    IN  [max     |-> IF new.max # loaded.max THEN new.max ELSE row.max,
         current |-> IF new.current # loaded.current THEN new.current ELSE row.current,
         resetAt |-> IF new.resetAt # loaded.resetAt THEN new.resetAt ELSE row.resetAt]

\* Deleting a rule deletes its reservation items (ON DELETE CASCADE).
DropItems(items, rules) ==
    [l \in Limits |-> IF l \in rules THEN items[l] ELSE NoItem]

\* upsert_limits and the commit: rules not submitted are deleted with their
\* items, new ones inserted.  A key deleted meanwhile fails the flush.
EditCommit ==
    LET submitted == {l \in Limits : edit.rules[l] # 0}
    IN  /\ edit.phase = "refreshed"
        /\ edit' = [NoEdit EXCEPT !.count = edit.count, !.kept = edit.kept]
        /\ IF key = "deleted"
           THEN UNCHANGED <<limit, resv, sweep>>
           ELSE /\ limit' = [l \in Limits |->
                               IF l \notin submitted THEN NoRow
                               ELSE IF l \in Present(limit) THEN UpsertRow(l)
                               ELSE IncomingRow(l)]
                /\ resv' = [r \in Requests |->
                              [resv[r] EXCEPT !.items = DropItems(@, submitted)]]
                /\ sweep' = [sweep EXCEPT !.torn = @ \cup
                              {r \in sweep.batch : ~(Present(resv[r].items) \subseteq submitted)}]
        /\ UNCHANGED <<now, key>>

\* delete_key: the limits and the reservations go with the key.
DeleteKey ==
    /\ key # "deleted"
    /\ key' = "deleted"
    /\ limit' = NoRows
    /\ resv' = [r \in Requests |->
                  IF resv[r].status = "checking" THEN resv[r] ELSE NoReservation]
    /\ UNCHANGED <<now, edit, sweep>>

-----------------------------------------------------------------------------
(* Time, and the specification *)

Tick ==
    /\ now' = IF now < MaxTime THEN now + 1 ELSE now
    /\ resv' = [r \in Requests |->
                  IF resv[r].status = "reserved" /\ resv[r].age <= StaleAge
                  THEN [resv[r] EXCEPT !.age = @ + 1] ELSE resv[r]]
    /\ UNCHANGED <<key, limit, edit, sweep>>

Request(r) ==
    \/ EnforceRead(r)
    \/ \E model \in Models, tokens \in Budgets : Reserve(r, model, tokens)
    \/ \E status \in {"finalized", "failed"}, tokens \in Usages : Settle(r, status, tokens)
    \/ Release(r)
    \/ Touch(r)

SweeperStep ==
    \/ SweepStart \/ SweepSelect \/ SweepClaim \/ SweepTorn
    \/ \E r \in Requests : SweepRelease(r)

Dashboard ==
    \/ \E active \in BOOLEAN : SetActive(active)
    \/ \E rules \in [Limits -> MaxValues \cup {0}], reset \in EditResets : EditRead(rules, reset)
    \/ EditRefresh
    \/ EditCommit
    \/ DeleteKey

Next ==
    \/ /\ sweep.phase # "write"
       /\ ValidateKey \/ (\E r \in Requests : Request(r)) \/ Dashboard \/ Tick
    \/ SweeperStep \/ SweepFails

Spec == Init /\ [][Next]_vars

\* Time passes, and the sweeper's loop goes on in a leading replica: a pass
\* begins every hour and its statements end.  Nothing is assumed of what a
\* pass selects or claims.
FairSpec == Spec /\ WF_vars(sweep.phase # "write" /\ Tick) /\ WF_vars(SweeperStep)

-----------------------------------------------------------------------------
(* Properties *)

\* What reservation r holds of the current window of limit l.
InWindow(r, l) ==
    l \in Present(resv[r].items) /\ resv[r].items[l].resetAt = limit[l].resetAt

Held(r, l) ==
    IF ~InWindow(r, l) THEN 0
    ELSE IF resv[r].status = "reserved" THEN resv[r].items[l].reserved
    ELSE resv[r].items[l].actual

HeldTotal(l) == MapThenSumSet(LAMBDA r : Held(r, l), Requests)

\* A limit's counter is exactly what the reservations of its window hold:
\* what is reserved by those in flight and what the settled ones used.  No
\* interleaving of reservations, settlements, releases, roll-overs and
\* sweeps charges a request twice, loses a refund or leaks one into the
\* next window, as long as nobody edits the limits.
LedgerBalanced ==
    edit.count = 0 => \A l \in Present(limit) : limit[l].current = HeldTotal(l)

\* As LedgerBalanced, when rules are also replaced and usage is reset from the
\* dashboard: the counter may then stay too high, never too low.  (Edits that
\* are to keep usage are the subject of PolicyEditPreservesUsage.)
NeverUndercounts ==
    ~edit.kept => \A l \in Present(limit) : limit[l].current >= HeldTotal(l)

\* Apart from what requests used beyond their reservation, a window never
\* admits more than max_value, though requests decide on rows read earlier
\* (an edit may lower max_value below what was admitted).
AdmittedWithinMax ==
    LET within(r, l) ==
            IF ~InWindow(r, l) THEN 0
            ELSE IF Held(r, l) < resv[r].items[l].reserved
                 THEN Held(r, l) ELSE resv[r].items[l].reserved
    IN  edit.count = 0 => \A l \in Present(limit) :
            MapThenSumSet(LAMBDA r : within(r, l), Requests) <= limit[l].max

\* A settled reservation is never settled again: its status and what it was
\* charged stay, until its key (or the rule of an item) is deleted.
SettledOnce ==
    [][\A r \in Requests : resv[r].status \in Settled =>
          \/ key' = "deleted"
          \/ /\ resv'[r].status = resv[r].status
             /\ \A l \in Present(resv'[r].items) : resv'[r].items[l] = resv[r].items[l]]_vars

\* The reservation of a request that is gone (no more heartbeats) does not
\* hold its budget for ever: a pass of the sweeper releases it, although
\* others of its batch may be settled or touched between the selection and
\* the claim every time, and passes fail (repository.py:619-706).  The age is
\* 0 only after a heartbeat, so a reservation is settled, released or touched
\* again and again.
AbandonedReleased ==
    \A r \in Requests : []<>(resv[r].status # "reserved" \/ resv[r].age = 0)

\* The sweeper does not release the reservation of a request whose heartbeat
\* came after the cutoff, however long ago it selected it (repository.py:666-681).
HeartbeatKept ==
    [][\A r \in Requests : SweepRelease(r) => resv[r].age > StaleAge]_vars

\* A window always ends a whole number of windows after the key was created,
\* at most one window ahead, however late the limit rolls over and whoever
\* rolls it over, as long as nobody edits the limits (limit_windows.py:22-41).
WindowsOnSchedule ==
    edit.count = 0 => \A l \in Present(limit) :
        limit[l].resetAt % Window[l] = 0 /\ limit[l].resetAt <= now + Window[l]

\* openspec/specs/api-keys/spec.md: "Matching existing rule: current_value
\* and reset_at SHALL be preserved; only max_value is updated" by an update
\* of the limits that does not ask for a reset.
PolicyEditPreservesUsage ==
    [][edit.phase = "refreshed" /\ edit'.phase = "idle" /\ ~edit.reset =>
          \A l \in Present(limit) \cap Present(limit') :
              /\ limit'[l].current = limit[l].current
              /\ limit'[l].resetAt = limit[l].resetAt]_vars

=============================================================================
