---------------------------- MODULE AccountPool ----------------------------
(***************************************************************************)
(* The load balancer of one replica (app/modules/proxy/load_balancer.py):  *)
(* concurrent requests that select an account, use it and report what      *)
(* happened, around the account rows in the database, the runtime state    *)
(* kept per account, the per-account locks and the selection input cache   *)
(* (app/modules/proxy/account_cache.py).  Operators and the usage refresh  *)
(* write the same rows.                                                    *)
(*                                                                         *)
(* Requests run on one event loop, so an action is what happens between    *)
(* two awaits.  A selection without a sticky key builds the states,        *)
(* chooses and saves the runtime state without giving way, unless it finds *)
(* an account lock held; one with a sticky key awaits the sticky row       *)
(* between building and choosing.  The sticky rows themselves are open:    *)
(* the lookup may answer with any account of the pool or with none.  Two   *)
(* places where the code goes on without an await, after a cache hit and   *)
(* before a retry, are steps of their own here, which only adds            *)
(* interleavings.                                                          *)
(***************************************************************************)
EXTENDS BalancerLogic

CONSTANTS
    Accounts,
    Requests,
    None,           \* no account, no lock holder
    StickyKinds,    \* subset of BOOLEAN: whether requests bring a sticky key
    MaxAttempts,    \* _MAX_SELECTION_ATTEMPTS
    Grace,          \* _STICKY_GRACE_PERIOD_SECONDS
    ResetDelays,    \* reset delays upstream names in an error, 0 for none
    RetryDelays,    \* retry delays of a rate limit error
    ErrorCounts,    \* counts record_errors is called with
    Reports,        \* usage reports of the refresh
    UsageWindow,    \* reset delay of a usage report
    MaxTime, MaxErrors, MaxGen, MaxClosings   \* bounds

ASSUME PoolAssumption ==
    /\ None \notin Accounts \cup Requests
    /\ StickyKinds \subseteq BOOLEAN
    /\ MaxAttempts \in Nat \ {0} /\ Grace \in Nat /\ UsageWindow \in Nat
    /\ ResetDelays \cup RetryDelays \subseteq Nat /\ ErrorCounts \subseteq Nat \ {0}
    /\ Reports \subseteq [p : Levels, s : Levels]
    /\ {MaxTime, MaxErrors, MaxGen, MaxClosings} \subseteq Nat

VARIABLES
    now,        \* time.time()
    db,         \* the accounts table
    usage,      \* the latest usage rows
    runtime,    \* LoadBalancer._runtime
    lock,       \* LoadBalancer._account_locks: holder or None
    cache,      \* AccountSelectionCache
    bump,       \* an operator or the usage refresh still has to invalidate it
    req,        \* the requests
    closings,   \* history: how often an account was closed, and as who sees it
    told        \* history: the used-up windows the cache was told of

vars == <<now, db, usage, runtime, lock, cache, bump, req, closings, told>>

\* Phases of a request, in the order of the code.
Phases == {"idle", "loading", "reading", "storing", "ready", "sticky", "syncing",
           "persisting", "serving", "recording", "marking", "bumping"}

NoRow == [status |-> "absent", reset |-> 0, blocked |-> 0]
NoUsage == [p |-> "none", s |-> "none", pReset |-> 0, sReset |-> 0, at |-> 0]
NoInputs == [rows |-> [a \in Accounts |-> NoRow], usage |-> [a \in Accounts |-> NoUsage]]
NoState == [status |-> "absent", reset |-> 0, cooldown |-> 0, blocked |-> 0,
            lastError |-> 0, errors |-> 0]
\* The window a usage row reports as used up, and until when.
Spent == [weekly : BOOLEAN, until : Nat]
NotSpent == [a \in Accounts |-> [weekly |-> FALSE, until |-> 0]]

NoStates == [a \in Accounts |-> NoState]
NoRuntimes == [a \in Accounts |-> FreshRuntime]

\* _SelectionInputs: what load_selection_inputs returns.
Inputs == [rows : [Accounts -> AccountRow \cup {NoRow}], usage : [Accounts -> Usage]]

Request == [phase : Phases, sticky : BOOLEAN, attempt : 0..MaxAttempts, gen : Nat,
            inputs : Inputs, states : [Accounts -> AccountState \cup {NoState}],
            choice : Accounts \cup {None}, todo : SUBSET Accounts,
            stale : SUBSET Accounts, quiet : BOOLEAN, before : [Accounts -> Runtime],
            snap : AccountRow \cup {NoRow}, write : AccountRow \cup {NoRow},
            shut : [Accounts -> Nat], spent : [Accounts -> Spent]]

Idle == [phase |-> "idle", sticky |-> FALSE, attempt |-> 0, gen |-> 0,
         inputs |-> NoInputs, states |-> NoStates, choice |-> None, todo |-> {},
         stale |-> {}, quiet |-> FALSE, before |-> NoRuntimes, snap |-> NoRow,
         write |-> NoRow, shut |-> [a \in Accounts |-> 0], spent |-> NotSpent]

\* The variables range over these sets.
TypeOK ==
    /\ now \in Nat
    /\ db \in [Accounts -> AccountRow]
    /\ usage \in [Accounts -> Usage]
    /\ runtime \in [Accounts -> Runtime]
    /\ lock \in [Accounts -> Requests \cup {None}]
    /\ cache \in [gen : Nat, full : BOOLEAN, inputs : Inputs]
    /\ bump \in BOOLEAN
    /\ req \in [Requests -> Request]
    /\ closings \in [Accounts -> [n : Nat, term : Nat, seen : Nat]]
    /\ told \in [Accounts -> Spent]

Init ==
    /\ now = 1
    /\ db = [a \in Accounts |-> [status |-> "active", reset |-> 0, blocked |-> 0]]
    /\ usage = [a \in Accounts |-> NoUsage]
    /\ runtime = NoRuntimes
    /\ lock = [a \in Accounts |-> None]
    /\ cache = [gen |-> 0, full |-> FALSE, inputs |-> NoInputs]
    /\ bump = FALSE
    /\ req = [p \in Requests |-> Idle]
    /\ closings = [a \in Accounts |-> [n |-> 0, term |-> 0, seen |-> 0]]
    /\ told = NotSpent

----------------------------------------------------------------------------
(* Writing account rows and invalidating the cache.                        *)

\* An account is closed while its row is paused or deactivated; n counts the
\* closings, term is the current one, seen the one the cache was told of.
SetRow(a, row) ==
    /\ db' = [db EXCEPT ![a] = row]
    /\ closings' = [closings EXCEPT ![a] =
          IF row.status \notin Terminal THEN [@ EXCEPT !.term = 0, !.seen = 0]
          ELSE IF db[a].status \in Terminal THEN @
          ELSE [@ EXCEPT !.n = @ + 1, !.term = closings[a].n + 1]]

KeepRows == UNCHANGED <<db, closings>>

SpentBy(u) ==
    IF u.s = "full" THEN [weekly |-> TRUE, until |-> u.sReset]
    ELSE [weekly |-> FALSE, until |-> IF u.p = "full" THEN u.pReset ELSE 0]

Invalidate ==
    /\ cache' = [gen |-> cache.gen + 1, full |-> FALSE, inputs |-> NoInputs]
    /\ closings' = [a \in Accounts |-> [closings[a] EXCEPT !.seen = closings[a].term]]
    /\ told' = [a \in Accounts |-> SpentBy(usage[a])]

\* update_status_if_current.  Slip: written without the expected values.
CompareAndSet_Unconditional(a, old, new) ==
    IF new # old THEN SetRow(a, new) ELSE KeepRows

CompareAndSet(a, old, new) ==
    IF new # old /\ db[a] = old THEN SetRow(a, new) ELSE KeepRows

Persisted(a, old, new) == new = old \/ db[a] = old

----------------------------------------------------------------------------
(* Loading the inputs of a selection: from the cache, or from the database *)
(* and then into the cache, unless it was invalidated meanwhile.           *)

Begin(p) ==
    /\ req[p].phase = "idle"
    /\ \E sticky \in StickyKinds :
          req' = [req EXCEPT ![p] =
             [Idle EXCEPT !.phase = "loading", !.sticky = sticky, !.attempt = 1,
                          !.shut = [a \in Accounts |-> closings[a].seen], !.spent = told]]
    /\ UNCHANGED <<now, db, usage, runtime, lock, cache, bump, closings, told>>

Load(p) ==
    /\ req[p].phase = "loading"
    /\ req' = [req EXCEPT ![p] =
          IF cache.full
          THEN [@ EXCEPT !.phase = "ready", !.inputs = cache.inputs]
          ELSE [@ EXCEPT !.phase = "reading", !.gen = cache.gen]]
    /\ UNCHANGED <<now, db, usage, runtime, lock, cache, bump, closings, told>>

Selectable(row) == IF row.status \in Terminal THEN NoRow ELSE row

ReadRows(p) ==
    /\ req[p].phase = "reading"
    /\ req' = [req EXCEPT ![p].phase = "storing",
                          ![p].inputs = [rows |-> [a \in Accounts |-> Selectable(db[a])],
                                         usage |-> usage]]
    /\ UNCHANGED <<now, db, usage, runtime, lock, cache, bump, closings, told>>

\* Slip: set() does not compare the generation of the load with the current one.
CacheSet_AnyGeneration(gen, inputs) ==
    cache' = [cache EXCEPT !.full = TRUE, !.inputs = inputs]

CacheSet(gen, inputs) ==
    cache' = IF gen = cache.gen THEN [cache EXCEPT !.full = TRUE, !.inputs = inputs]
                                ELSE cache

StoreInputs(p) ==
    /\ req[p].phase = "storing"
    /\ CacheSet(req[p].gen, req[p].inputs)
    /\ req' = [req EXCEPT ![p].phase = "ready", ![p].gen = 0]
    /\ UNCHANGED <<now, db, usage, runtime, lock, bump, closings, told>>

ExpireCache ==
    /\ cache.full
    /\ cache' = [cache EXCEPT !.full = FALSE, !.inputs = NoInputs]
    /\ UNCHANGED <<now, db, usage, runtime, lock, bump, req, closings, told>>

----------------------------------------------------------------------------
(* Choosing.                                                               *)

\* Slip: accounts without a row among the inputs are not left out.
Pool_All(p) == Accounts

Pool(p) == {a \in Accounts : req[p].inputs.rows[a] # NoRow}

\* _build_states
Built(p) == [a \in Accounts |->
    IF a \in Pool(p)
    THEN StateFromAccount(req[p].inputs.rows[a], req[p].inputs.usage[a], runtime[a], now)
    ELSE NoState]

SweptOn(states, B) == [a \in Accounts |-> IF a \in B THEN Sweep(states[a], now) ELSE states[a]]

\* What select_account makes of the states of B: a choice among the
\* candidates, or none.
Outcomes(states, B) ==
    LET swept == SweptOn(states, B)
        cand == Candidates(swept, B, now, TRUE)
    IN  IF cand = {} THEN {[states |-> swept, choice |-> None]}
        ELSE {[states |-> swept, choice |-> c] : c \in cand}

\* _select_account_preferring_budget_safe: the accounts below the budget
\* threshold (any subset: percentages are not modelled) first, then all.
Picks(states, A) ==
    UNION {LET first == IF safe = {} THEN {} ELSE {k \in Outcomes(states, safe) : k.choice # None}
           IN  IF first # {} THEN first ELSE Outcomes(states, A) : safe \in SUBSET A}

\* Slip: the grace period is given to an account blocked for any reason.
PinnedPicks_AnyBlocked(states, a) ==
    LET here == SweptOn(states, {a})
        soon == Sweep(here[a], now + Grace)
    IN  IF \/ Available(here[a], now)
           \/ here[a].status \in Blocked /\ Available(soon, now + Grace)
        THEN {[states |-> here, choice |-> a]} ELSE {}

\* The pinned account of a sticky key: taken if it is available, or if it is
\* rate limited and will be within the grace period.
PinnedPicks(states, a) ==
    LET here == SweptOn(states, {a})
        soon == Sweep(here[a], now + Grace)
    IN  IF Available(here[a], now) THEN {[states |-> here, choice |-> a]}
        ELSE IF here[a].status = "rate_limited" /\ Available(soon, now + Grace)
             THEN {[states |-> here, choice |-> a]}
        ELSE {}

\* _select_with_stickiness, for an answer pin of the sticky lookup.  Whether
\* the pinned account is over the budget threshold is open, so it may also be
\* passed over.
StickyPicks(states, A, pin) ==
    IF pin = None THEN Picks(states, A)
    ELSE PinnedPicks(states, pin) \cup Picks(SweptOn(states, {pin}), A)

Quiet(k, A) == k.choice = None /\ NoneAvailable(k.states, A, now)

----------------------------------------------------------------------------
(* Saving the runtime state of every account, each under its lock.         *)

\* The accounts of todo reached before the loop waits for a lock.
Reached(F, todo) ==
    /\ \A a \in F : lock[a] = None
    /\ F = todo \/ \E a \in todo \ F : lock[a] # None

Synced(states, F) ==
    [a \in Accounts |-> IF a \in F THEN RuntimeOf(states[a]) ELSE runtime[a]]

\* After the last account the snapshot to return is taken, the runtime state
\* and the cache generation are noted, and the rows are persisted.
AfterSync(r, left) ==
    IF left # {} THEN [r EXCEPT !.phase = "syncing", !.todo = left]
    ELSE LET c == r.choice
         IN  [r EXCEPT !.phase = "persisting",
                !.todo = {a \in Accounts : r.inputs.rows[a] # NoRow},
                !.stale = {},
                !.states = IF c = None THEN @ ELSE [@ EXCEPT ![c].status = "active"],
                !.snap = IF c = None THEN NoRow
                         ELSE [status |-> "active", reset |-> r.states[c].reset,
                               blocked |-> r.inputs.rows[c].blocked],
                !.gen = IF r.sticky THEN 0 ELSE cache.gen,
                !.before = IF r.quiet /\ ~r.sticky THEN runtime' ELSE NoRuntimes]

\* Without a sticky key: build, choose and save in one go.
Choose(p) ==
    /\ req[p].phase = "ready" /\ ~req[p].sticky
    /\ \E k \in Picks(Built(p), Pool(p)), F \in SUBSET Pool(p) :
          /\ Reached(F, Pool(p))
          /\ runtime' = Synced(k.states, F)
          /\ req' = [req EXCEPT ![p] =
                AfterSync([@ EXCEPT !.states = k.states, !.choice = k.choice,
                                    !.quiet = Quiet(k, Pool(p))], Pool(p) \ F)]
    /\ UNCHANGED <<now, db, usage, lock, cache, bump, closings, told>>

Build(p) ==
    /\ req[p].phase = "ready" /\ req[p].sticky
    /\ req' = [req EXCEPT ![p].phase = "sticky", ![p].states = Built(p)]
    /\ UNCHANGED <<now, db, usage, runtime, lock, cache, bump, closings, told>>

ChooseSticky(p) ==
    /\ req[p].phase = "sticky"
    /\ \E pin \in Pool(p) \cup {None} : \E k \in StickyPicks(req[p].states, Pool(p), pin) :
          req' = [req EXCEPT ![p].phase = "syncing", ![p].todo = Pool(p),
                             ![p].states = k.states, ![p].choice = k.choice,
                             ![p].quiet = Quiet(k, Pool(p))]
    /\ UNCHANGED <<now, db, usage, runtime, lock, cache, bump, closings, told>>

Sync(p) ==
    /\ req[p].phase = "syncing"
    /\ \E F \in SUBSET req[p].todo :
          /\ F # {} \/ req[p].todo = {}
          /\ Reached(F, req[p].todo)
          /\ runtime' = Synced(req[p].states, F)
          /\ req' = [req EXCEPT ![p] = AfterSync(@, req[p].todo \ F)]
    /\ UNCHANGED <<now, db, usage, lock, cache, bump, closings, told>>

----------------------------------------------------------------------------
(* Persisting the rows, one compare-and-set per account, and what follows. *)

Persist(p, a) ==
    /\ req[p].phase = "persisting" /\ a \in req[p].todo
    /\ LET old == req[p].inputs.rows[a]
           new == RowOf(req[p].states[a])
       IN  /\ CompareAndSet(a, old, new)
           /\ req' = [req EXCEPT ![p].todo = @ \ {a},
                 ![p].inputs.rows[a] = IF Persisted(a, old, new) THEN new ELSE old,
                 ![p].stale = IF Persisted(a, old, new) THEN @ ELSE @ \cup {a}]
    /\ UNCHANGED <<now, usage, runtime, lock, cache, bump, told>>

\* The selected row was no longer the one the selection started from.
FoundStale(r) == r.choice \in r.stale

\* The fields of the runtime state that the selection compares.
Watched(rt) == [f \in {"reset", "cooldown", "errors", "lastError"} |-> rt[f]]

\* Another request invalidated the cache while the rows were persisted, or
\* changed the runtime state of a pool with nothing available.
Overtaken(r) ==
    /\ ~r.sticky
    /\ \/ r.choice # None /\ cache.gen # r.gen
       \/ r.quiet /\ \E a \in Accounts : Watched(runtime[a]) # Watched(r.before[a])

MayRetry(r) == r.attempt < MaxAttempts

Decided(p) == req[p].phase = "persisting" /\ req[p].todo = {}

Retry(p) ==
    /\ Decided(p) /\ (FoundStale(req[p]) \/ Overtaken(req[p])) /\ MayRetry(req[p])
    /\ req' = [req EXCEPT ![p] =
          [Idle EXCEPT !.phase = "loading", !.sticky = req[p].sticky,
                       !.attempt = req[p].attempt + 1,
                       !.shut = req[p].shut, !.spent = req[p].spent]]
    /\ UNCHANGED <<now, db, usage, runtime, lock, cache, bump, closings, told>>

\* No account to return: nothing was chosen, or the choice is still stale.
GiveUp(p) ==
    /\ Decided(p)
    /\ req[p].choice = None \/ FoundStale(req[p])
    /\ ~((FoundStale(req[p]) \/ Overtaken(req[p])) /\ MayRetry(req[p]))
    /\ req' = [req EXCEPT ![p] = Idle]
    /\ UNCHANGED <<now, db, usage, runtime, lock, cache, bump, closings, told>>

Serve(p) ==
    /\ Decided(p)
    /\ req[p].choice # None /\ ~FoundStale(req[p])
    /\ ~(Overtaken(req[p]) /\ MayRetry(req[p]))
    /\ req' = [req EXCEPT ![p] = [Idle EXCEPT !.phase = "serving", !.choice = req[p].choice,
                                              !.snap = req[p].snap, !.shut = req[p].shut]]
    /\ UNCHANGED <<now, db, usage, runtime, lock, cache, bump, closings, told>>

----------------------------------------------------------------------------
(* What a request reports of its account.  Each report takes the account   *)
(* lock and keeps it over its database write.                              *)

\* _state_for: the status of the snapshot, the rest from the runtime state.
StateFor(snap, rt) ==
    [status |-> snap.status, reset |-> rt.reset, cooldown |-> rt.cooldown,
     blocked |-> BlockedSince(snap, rt), lastError |-> rt.lastError, errors |-> rt.errors]

\* A request that ends without a report (its client left, a neutral error).
Leave(p) ==
    /\ req[p].phase = "serving"
    /\ req' = [req EXCEPT ![p] = Idle]
    /\ UNCHANGED <<now, db, usage, runtime, lock, cache, bump, closings, told>>

RecordSuccess(p) ==
    /\ req[p].phase = "serving" /\ lock[req[p].choice] = None
    /\ runtime' = [runtime EXCEPT ![req[p].choice] =
          IF @.errors > 0 THEN [@ EXCEPT !.errors = 0, !.lastError = 0] ELSE @]
    /\ req' = [req EXCEPT ![p] = Idle]
    /\ UNCHANGED <<now, db, usage, lock, cache, bump, closings, told>>

\* The runtime state is saved, then the row is written under the lock.
Report(p, phase, st) ==
    LET a == req[p].choice
    IN  /\ req[p].phase = "serving" /\ lock[a] = None
        /\ lock' = [lock EXCEPT ![a] = p]
        /\ runtime' = [runtime EXCEPT ![a] = RuntimeOf(st)]
        /\ req' = [req EXCEPT ![p].phase = phase, ![p].write = RowOf(st)]
        /\ UNCHANGED <<now, db, usage, cache, bump, closings, told>>

RecordErrors(p, count) ==
    LET st == StateFor(req[p].snap, runtime[req[p].choice])
    IN  /\ req[p].phase = "serving"
        /\ st.errors + count <= MaxErrors
        /\ Report(p, "recording", [st EXCEPT !.errors = @ + count, !.lastError = now])

RecordPersist(p) ==
    /\ req[p].phase = "recording"
    /\ CompareAndSet(req[p].choice, req[p].snap, req[p].write)
    /\ lock' = [lock EXCEPT ![req[p].choice] = None]
    /\ req' = [req EXCEPT ![p] = Idle]
    /\ UNCHANGED <<now, usage, runtime, cache, bump, told>>

At(delay) == IF delay = 0 THEN 0 ELSE now + delay

MarkRateLimit(p, reset, delay) ==
    LET st == StateFor(req[p].snap, runtime[req[p].choice])
    IN  /\ req[p].phase = "serving" /\ cache.gen < MaxGen
        /\ st.errors < MaxErrors
        /\ Report(p, "marking", HandleRateLimit(st, At(reset), delay, now))

MarkQuotaExceeded(p, reset) ==
    LET st == StateFor(req[p].snap, runtime[req[p].choice])
    IN  /\ req[p].phase = "serving" /\ cache.gen < MaxGen
        /\ Report(p, "marking", HandleQuotaExceeded(st, At(reset), now))

MarkPermanentFailure(p) ==
    LET st == StateFor(req[p].snap, runtime[req[p].choice])
    IN  /\ req[p].phase = "serving" /\ cache.gen < MaxGen
        /\ closings[req[p].choice].n < MaxClosings
        /\ Report(p, "marking", HandlePermanentFailure(st))

\* _persist_state writes whatever the row has become meanwhile.
MarkPersist(p) ==
    /\ req[p].phase = "marking"
    /\ IF req[p].write = req[p].snap THEN KeepRows ELSE SetRow(req[p].choice, req[p].write)
    /\ req' = [req EXCEPT ![p].phase = "bumping"]
    /\ UNCHANGED <<now, usage, runtime, lock, cache, bump, told>>

MarkInvalidate(p) ==
    /\ req[p].phase = "bumping"
    /\ Invalidate
    /\ lock' = [lock EXCEPT ![req[p].choice] = None]
    /\ req' = [req EXCEPT ![p] = Idle]
    /\ UNCHANGED <<now, db, usage, runtime, bump>>

----------------------------------------------------------------------------
(* Other writers of the rows.                                              *)

\* pause_account, reactivate_account, and an import of fresh credentials.
OperatorSets(a, status) ==
    /\ ~bump /\ cache.gen < MaxGen
    /\ status = "paused" => closings[a].n < MaxClosings
    /\ SetRow(a, [status |-> status, reset |-> 0, blocked |-> 0])
    /\ bump' = TRUE
    /\ UNCHANGED <<now, usage, runtime, lock, cache, req, told>>

\* _recover_quota_status_from_usage
RecoveredRow(row, u) ==
    IF /\ row.status = "quota_exceeded" /\ u.s = "free"
       /\ row.blocked = 0 \/ now >= row.blocked + QuotaCooldown
    THEN IF u.p = "full" THEN [status |-> "rate_limited", reset |-> u.pReset, blocked |-> 0]
                         ELSE [status |-> "active", reset |-> 0, blocked |-> 0]
    ELSE row

\* The usage refresh of one account.  The leader may be another replica,
\* which leaves the cache of this one alone.
UsageRefresh(a, report, here) ==
    LET u == [p |-> report.p, s |-> report.s, at |-> now,
              pReset |-> IF report.p = "none" THEN 0 ELSE now + UsageWindow,
              sReset |-> IF report.s = "none" THEN 0 ELSE now + UsageWindow]
    IN  /\ ~bump /\ cache.gen < MaxGen
        /\ db[a].status # "deactivated"
        /\ usage' = [usage EXCEPT ![a] = u]
        /\ CompareAndSet(a, db[a], RecoveredRow(db[a], u))
        /\ bump' = here
        /\ told' = [told EXCEPT ![a].weekly = FALSE, ![a].until = 0]
        /\ req' = [p \in Requests |-> [req[p] EXCEPT !.spent[a] = NotSpent[a]]]
        /\ UNCHANGED <<now, runtime, lock, cache>>

\* _deactivate_for_client_error: reset_at is cleared, blocked_at is left.
UsageDeactivate(a, here) ==
    /\ ~bump /\ cache.gen < MaxGen
    /\ db[a].status # "deactivated" /\ closings[a].n < MaxClosings
    /\ SetRow(a, [db[a] EXCEPT !.status = "deactivated", !.reset = 0])
    /\ bump' = here
    /\ UNCHANGED <<now, usage, runtime, lock, cache, req, told>>

BumpCache ==
    /\ bump
    /\ Invalidate
    /\ bump' = FALSE
    /\ UNCHANGED <<now, db, usage, runtime, lock, req>>

Tick ==
    /\ now < MaxTime
    /\ now' = now + 1
    /\ UNCHANGED <<db, usage, runtime, lock, cache, bump, req, closings, told>>

----------------------------------------------------------------------------

Selection(p) ==
    \/ Load(p) \/ ReadRows(p) \/ StoreInputs(p)
    \/ Choose(p) \/ Build(p) \/ ChooseSticky(p) \/ Sync(p)
    \/ \E a \in Accounts : Persist(p, a)
    \/ Retry(p) \/ GiveUp(p) \/ Serve(p)

Outcome(p) ==
    \/ Leave(p) \/ RecordSuccess(p)
    \/ \E count \in ErrorCounts : RecordErrors(p, count)
    \/ \E reset \in ResetDelays, delay \in RetryDelays : MarkRateLimit(p, reset, delay)
    \/ \E reset \in ResetDelays : MarkQuotaExceeded(p, reset)
    \/ MarkPermanentFailure(p)

FinishReport(p) == RecordPersist(p) \/ MarkPersist(p) \/ MarkInvalidate(p)

Others ==
    \/ \E a \in Accounts, status \in {"active", "paused"} : OperatorSets(a, status)
    \/ \E a \in Accounts, report \in Reports, here \in BOOLEAN : UsageRefresh(a, report, here)
    \/ \E a \in Accounts, here \in BOOLEAN : UsageDeactivate(a, here)
    \/ BumpCache \/ ExpireCache \/ Tick

Next ==
    \/ \E p \in Requests : Begin(p) \/ Selection(p) \/ Outcome(p) \/ FinishReport(p)
    \/ Others

Spec == Init /\ [][Next]_vars

----------------------------------------------------------------------------

\* A selection never brings back an account that somebody paused or
\* deactivated while it ran: only an operator or a report writes over such a
\* row (_persist_selection_state goes through update_status_if_current).
SelectionKeepsClosed ==
    [][\A p \in Requests, a \in Accounts :
          Persist(p, a) /\ db[a].status \in Terminal => db'[a] = db[a]]_vars

\* Once an account is closed and the cache was told of it, no selection that
\* begins afterwards serves the account, until somebody opens it again (the
\* generation check of AccountSelectionCache.set).
ClosedNotServed ==
    \A p \in Requests :
       req[p].phase = "serving" =>
          LET c == req[p].choice
          IN  req[p].shut[c] = 0 \/ req[p].shut[c] # closings[c].seen

\* Once the usage refresh has recorded that a window of an account is used up
\* and the cache was told, no selection that begins afterwards returns the
\* account before that window resets, as long as no newer row arrives:
\* whatever the stored row, the runtime state and the cache hold, and with any
\* retry.  A sticky key may keep its account the grace period earlier, and
\* only for the primary window (apply_usage_quota, the cache generation and
\* the grace rule of _select_with_stickiness together).
ExhaustedNotServed ==
    [][\A p \in Requests : Serve(p) =>
          LET spent == req[p].spent[req[p].choice]
              early == IF req[p].sticky /\ ~spent.weekly THEN Grace ELSE 0
          IN  spent.until <= now + early]_vars

\* An account deactivated because its credentials are dead stays out of the
\* pool until somebody authenticates it again.
DeactivatedStays ==
    [][\A a \in Accounts :
          db[a].status = "deactivated" /\ db'[a].status # "deactivated" =>
             \E status \in {"active", "paused"} : OperatorSets(a, status)]_vars

=============================================================================
