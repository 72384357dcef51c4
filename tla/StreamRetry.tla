---------------------------- MODULE StreamRetry ----------------------------
(***************************************************************************)
(* One streamed request: ProxyService._stream_with_retry, the attempts it  *)
(* makes through _stream_once (app/modules/proxy/service.py), and the API  *)
(* handler that reserved usage for it and iterates it                      *)
(* (app/modules/proxy/api.py).                                             *)
(*                                                                         *)
(* The request tries at most MaxAccountAttempts accounts, and an account   *)
(* at most MaxTransientRetries times for transient failures.  Errors reach *)
(* it as events of the stream, as ProxyResponseError with an HTTP status,  *)
(* or as failed refreshes; it fails over, surfaces, or refreshes the token *)
(* once and tries again.  However it ends, the reservation must be         *)
(* finalized or released.                                                  *)
(*                                                                         *)
(* Everything outside is a choice: what the upstream answers, which        *)
(* account the balancer picks, whether a database call raises, when the    *)
(* request budget runs out and when the client goes away.  Error codes are *)
(* the classes the code tells apart; messages, logs and latencies are left *)
(* out.                                                                    *)
(***************************************************************************)
EXTENDS Naturals, FiniteSets

CONSTANTS
    Accounts,               \* accounts of the pool
    None,                   \* no account
    Handlers,               \* API handlers in use: {"responses", "chat"} or part of it
    MaxAccountAttempts,     \* _STREAM_MAX_ACCOUNT_ATTEMPTS
    MaxTransientRetries,    \* _MAX_TRANSIENT_SAME_ACCOUNT_RETRIES
    HttpErrors              \* <<status, code>> pairs the upstream refuses a request with

ASSUME HandlersAssumption == Handlers \subseteq {"responses", "chat"}
ASSUME LimitsAssumption ==
    /\ MaxAccountAttempts \in Nat \ {0}
    /\ MaxTransientRetries \in Nat \ {0}
ASSUME NoneAssumption == None \notin Accounts

VARIABLES
    handler,        \* the API handler that serves the request
    propagate,      \* propagate_http_errors; every API handler passes TRUE, FALSE is
                    \* the default
    continues,      \* the request names a previous_response_id
    failover,       \* deterministic_failover_enabled
    pc,             \* where the request is, see Places
    preferred,      \* preferred_account_id
    required,       \* require_preferred_account
    attempt,        \* index of the account attempt
    retries,        \* transient_retries
    account,        \* the selected account
    excluded,       \* excluded_account_ids
    lastExc,        \* last_transient_exc is set
    refreshed,      \* the attempt runs after a forced token refresh
    exc,            \* the exception being handled
    settlement,     \* _StreamSettlement of the current try, with saw_text_delta
                    \* and suppressed_duplicate_tool_call
    budgetOut,      \* the request's deadline has passed
    held,           \* "lease", "heartbeat": what _stream_once holds
    reservation,    \* status of the usage reservation
    settled,        \* the flag of the same name
    cancelled,      \* "no", "task" (task cancelled) or "close" (generator closed)
    cleanup,        \* a background release is scheduled
    outcome,        \* how the generator ended
    client,         \* what the client has received
    calls,          \* history: upstream requests sent
    late,           \* history, while the generator runs: those sent after the deadline
    failed          \* history: what raised outside the protocol: database calls, by
                    \* what they were for, and the code of a try

request == <<handler, propagate, continues, failover>>
routing == <<preferred, required>>
loop    == <<attempt, retries, account, excluded, lastExc, refreshed>>
ledger  == <<reservation, settled, cleanup>>
vars    == <<request, pc, routing, loop, exc, settlement, budgetOut, held,
             ledger, cancelled, outcome, client, calls, late, failed>>

\* "handler": usage is reserved, the generator has not run; "owner": inside
\* its `try`; "loop": head of the account loop; "select", "fresh", "ready":
\* up to the first try on an account; "open": admission to send; "sent":
\* waiting for the first event; "stream": an event was passed on; "ended":
\* _stream_once returned; "inner", "outer": the two levels of exception
\* handlers; "refresh", "refreshed": the forced refresh; "settle"; then the
\* `finally`, the handler's own error handling, and the end.
Places == {"handler", "owner", "loop", "select", "fresh", "ready", "open",
           "sent", "stream", "ended", "inner", "outer", "refresh",
           "refreshed", "settle", "finally", "caller", "done"}

\* Error codes by the sets of the code they are in: _ACCOUNT_RECOVERY_RETRY_CODES
\* are "limit" and "permanent"; _TRANSIENT_RETRY_CODES are "transient",
\* "timeout" and "idle"; "soft" codes are transient only to the failure
\* classification; "context" are the two errors about the previous response;
\* "neutral" are the proxy's own overload errors.
Codes == {"limit", "permanent", "transient", "timeout", "idle", "soft",
          "context", "neutral", "other"}
RecoveryCodes  == {"limit", "permanent"}
TransientCodes == {"transient", "timeout", "idle"}

\* What an upstream can put in a response.failed event.
UpstreamCodes == Codes \ {"neutral"}

\* "retryable" and "retryable_excluding" are _RetryableStreamError without
\* and with exclude_account; "proxy" is ProxyResponseError.
ExcKinds == {"none", "retryable", "retryable_excluding", "transient", "terminal", "proxy"}
Exc(k, s, c) == [kind |-> k, status |-> s, code |-> c]
NoExc == Exc("none", 0, "other")

\* The refusal of the proxy's own admission gates.
Overloaded == <<429, "neutral">>

FreshSettlement == [status |-> "success", usage |-> FALSE, health |-> FALSE,
                    success |-> TRUE, visible |-> FALSE, text |-> FALSE,
                    suppressed |-> FALSE]

TypeOK ==
    /\ handler \in Handlers
    /\ propagate \in BOOLEAN /\ continues \in BOOLEAN /\ failover \in BOOLEAN
    /\ pc \in Places
    /\ preferred \in Accounts \cup {None}
    /\ required \in BOOLEAN
    /\ attempt \in 0..MaxAccountAttempts
    /\ retries \in 0..MaxTransientRetries
    /\ account \in Accounts \cup {None}
    /\ excluded \subseteq Accounts
    /\ lastExc \in BOOLEAN /\ refreshed \in BOOLEAN
    /\ exc \in [kind : ExcKinds, status : {0} \cup {h[1] : h \in HttpErrors \cup {Overloaded}},
                code : Codes]
    /\ settlement \in [status : {"success", "error"}, usage : BOOLEAN,
                       health : BOOLEAN, success : BOOLEAN,
                       visible : BOOLEAN, text : BOOLEAN, suppressed : BOOLEAN]
    /\ budgetOut \in BOOLEAN
    /\ held \subseteq {"lease", "heartbeat"}
    /\ reservation \in {"reserved", "finalized", "released"}
    /\ settled \in BOOLEAN /\ cleanup \in BOOLEAN
    /\ cancelled \in {"no", "task", "close"}
    /\ outcome \in {"open", "end", "proxy_error", "crash", "cancelled"}
    /\ client \in [seen : BOOLEAN, answers : Nat, completed : BOOLEAN]
    /\ calls \in Nat /\ late \in 0..calls
    /\ failed \subseteq {"early", "select", "refresh", "try", "report", "settle", "release"}

Init ==
    /\ handler \in Handlers
    /\ propagate \in BOOLEAN /\ continues \in BOOLEAN /\ failover \in BOOLEAN
    /\ pc = "handler"
    /\ preferred = None /\ required = FALSE
    /\ attempt = 0 /\ retries = 0
    /\ account = None /\ excluded = {}
    /\ lastExc = FALSE /\ refreshed = FALSE
    /\ exc = NoExc /\ settlement = FreshSettlement
    /\ budgetOut = FALSE /\ held = {}
    /\ reservation = "reserved" /\ settled = FALSE /\ cleanup = FALSE
    /\ cancelled = "no" /\ outcome = "open"
    /\ client = [seen |-> FALSE, answers |-> 0, completed |-> FALSE]
    /\ calls = 0 /\ late = 0 /\ failed = {}

-----------------------------------------------------------------------------
(* Pieces the handlers share. *)

\* The final answer: a terminal event or an HTTP error.
Answer == client' = [client EXCEPT !.seen = TRUE, !.answers = @ + 1]

Leave(how) == pc' = "finally" /\ outcome' = how

\* `yield response.failed; return`.
FailAndEnd == Answer /\ Leave("end") /\ UNCHANGED failed

\* An error no handler of the generator catches.
Escape(what) == Leave("crash") /\ failed' = failed \cup {what} /\ UNCHANGED client

\* `continue` of the account loop.
NextAttempt ==
    /\ pc' = "loop" /\ attempt' = attempt + 1 /\ exc' = NoExc
    /\ UNCHANGED <<retries, account, refreshed, outcome, client, failed>>

\* The request is decided: nothing reads the locals of the loop any more.
DropLocals ==
    /\ preferred' = None /\ required' = FALSE
    /\ attempt' = 0 /\ retries' = 0
    /\ account' = None /\ excluded' = {}
    /\ lastExc' = FALSE /\ refreshed' = FALSE
    /\ exc' = NoExc /\ settlement' = FreshSettlement
    /\ budgetOut' = FALSE /\ late' = 0

\* _should_penalize_stream_error.
Penalized(code) == code \in RecoveryCodes \cup TransientCodes

\* allow_retry and allow_transient_retry of the current try; the attempt
\* after a forced refresh has neither.
AllowRetry == ~refreshed /\ attempt < MaxAccountAttempts - 1
AllowTransientRetry == ~refreshed /\ (retries < MaxTransientRetries - 1 \/ AllowRetry)

\* _rewrite_previous_response_stream_error; the attempt after a forced
\* refresh is not told the preferred account.
Rewritten(code) ==
    /\ continues
    /\ \/ code = "context"
       \/ code \in RecoveryCodes /\ preferred # None /\ ~refreshed

\* classify_upstream_failure and failover_decision for an HTTP refusal that
\* came before any output.
FailsOver(status, code) ==
    /\ failover
    /\ attempt < MaxAccountAttempts - 1
    /\ code \in {"limit", "transient", "soft"} \/ status >= 500

\* An exception leaves _stream_once.  The handlers are those of the account
\* loop, except for the attempt after a forced refresh: that one runs inside
\* a handler, and whatever it raises leaves the generator.
Raise(e) ==
    IF refreshed
    THEN Leave(IF e.kind = "proxy" THEN "proxy_error" ELSE "crash") /\ UNCHANGED exc
    ELSE /\ pc' = IF e.kind \in {"transient", "proxy"} THEN "inner" ELSE "outer"
         /\ exc' = e
         /\ UNCHANGED outcome

\* release_usage_reservation and finalize_usage_reservation change only a
\* reservation that is still reserved.
SettleAs(status) ==
    reservation' = IF reservation = "reserved" THEN status ELSE reservation

-----------------------------------------------------------------------------
(* Before the first try. *)

\* The rate limit headers or the settings cannot be read, or the request is
\* cancelled while they are: neither read is inside a block that releases
\* the reservation.
EarlyFailure ==
    /\ pc = "handler"
    /\ pc' = "done" /\ failed' = failed \cup {"early"}
    /\ \/ outcome' = "crash" /\ UNCHANGED cancelled
       \/ outcome' = "cancelled" /\ cancelled' = "task"
    /\ UNCHANGED <<request, routing, loop, exc, settlement, budgetOut, held,
                   ledger, client, calls, late>>

\* _raise_for_unsupported_input_image_references, before the `try` whose
\* `finally` releases the reservation.
RejectImage ==
    /\ pc = "handler"
    /\ pc' = "caller" /\ outcome' = "proxy_error"
    /\ UNCHANGED <<request, routing, loop, exc, settlement, budgetOut, held,
                   ledger, cancelled, client, calls, late, failed>>

Start ==
    /\ pc = "handler"
    /\ pc' = "owner"
    /\ UNCHANGED <<request, routing, loop, exc, settlement, budgetOut, held,
                   ledger, cancelled, outcome, client, calls, late, failed>>

\* A request that continues a response is bound to the account that gave it,
\* when that is known; otherwise an uploaded file may suggest an account.
ResolveOwner ==
    /\ pc = "owner"
    /\ \E a \in Accounts \cup {None} :
          /\ preferred' = a
          /\ required' = (continues /\ a # None)
    /\ pc' = "loop"
    /\ UNCHANGED <<request, loop, exc, settlement, budgetOut, held, ledger,
                   cancelled, outcome, client, calls, late, failed>>

OwnerLookupFails ==
    /\ pc = "owner" /\ continues
    /\ Leave("proxy_error")
    /\ UNCHANGED <<request, routing, loop, exc, settlement, budgetOut, held,
                   ledger, cancelled, client, calls, late, failed>>

\* Slip: one account attempt too many.
BeginAttempt_OneMore ==
    /\ pc = "loop" /\ attempt <= MaxAccountAttempts /\ ~budgetOut
    /\ pc' = "select"
    /\ UNCHANGED <<request, routing, loop, exc, settlement, budgetOut, held,
                   ledger, cancelled, outcome, client, calls, late, failed>>

BeginAttempt ==
    /\ pc = "loop" /\ attempt < MaxAccountAttempts /\ ~budgetOut
    /\ pc' = "select"
    /\ UNCHANGED <<request, routing, loop, exc, settlement, budgetOut, held,
                   ledger, cancelled, outcome, client, calls, late, failed>>

\* The places that compare the deadline with the clock before going on.
OutOfBudget ==
    /\ \/ pc = "loop" /\ attempt < MaxAccountAttempts
       \/ pc \in {"select", "fresh", "ready", "refresh", "refreshed"}
    /\ budgetOut
    /\ FailAndEnd
    /\ UNCHANGED <<request, routing, loop, exc, settlement, budgetOut, held,
                   ledger, cancelled, calls, late>>

\* Slip: the loop is left without an event.
GiveUp_Silent ==
    /\ Leave(IF propagate /\ lastExc THEN "proxy_error" ELSE "end")
    /\ UNCHANGED <<client, failed>>

\* No account is left: the last HTTP failure is raised again if the caller
\* wants HTTP errors, else an event says so.
GiveUp ==
    IF propagate /\ lastExc
    THEN Leave("proxy_error") /\ UNCHANGED <<client, failed>>
    ELSE FailAndEnd

Exhausted ==
    /\ pc = "loop" /\ attempt = MaxAccountAttempts
    /\ GiveUp
    /\ UNCHANGED <<request, routing, loop, exc, settlement, budgetOut, held,
                   ledger, cancelled, calls, late>>

\* Slip: the preferred account is tried although it was given up.
PreferredPick_Again == {preferred} \ {None}

\* The accounts _select_account_with_budget may return: the preferred one
\* first, then any; never an excluded one.
PreferredPick == {preferred} \ (excluded \cup {None})

PoolPick == Accounts \ excluded

\* Slip: any account may continue a response.
AcceptsAccount_Any(a) == TRUE

\* The owner of the previous response is not replaced by another account.
AcceptsAccount(a) == required => a = preferred

SelectAccount ==
    /\ pc = "select" /\ ~budgetOut
    /\ \E a \in PreferredPick \cup PoolPick :
          IF AcceptsAccount(a)
          THEN account' = a /\ pc' = "fresh" /\ UNCHANGED <<outcome, client, failed>>
          ELSE FailAndEnd /\ UNCHANGED account
    /\ UNCHANGED <<request, routing, attempt, retries, excluded, lastExc, refreshed,
                   exc, settlement, budgetOut, held, ledger, cancelled, calls, late>>

SelectNone ==
    /\ pc = "select" /\ ~budgetOut
    /\ IF required THEN FailAndEnd ELSE GiveUp
    /\ UNCHANGED <<request, routing, loop, exc, settlement, budgetOut, held,
                   ledger, cancelled, calls, late>>

SelectRaises ==
    /\ pc = "select" /\ ~budgetOut
    /\ Escape("select")
    /\ UNCHANGED <<request, routing, loop, exc, settlement, budgetOut, held,
                   ledger, cancelled, calls, late>>

\* _ensure_fresh: the token is fresh, or was refreshed.
Fresh ==
    /\ pc = "fresh" /\ ~budgetOut
    /\ pc' = "ready"
    /\ UNCHANGED <<request, routing, loop, exc, settlement, budgetOut, held,
                   ledger, cancelled, outcome, client, calls, late, failed>>

\* The refresh endpoint cannot be reached, at the first or the forced refresh.
RefreshUnreachable ==
    /\ pc \in {"fresh", "refresh"} /\ ~budgetOut
    /\ FailAndEnd
    /\ UNCHANGED <<request, routing, loop, exc, settlement, budgetOut, held,
                   ledger, cancelled, calls, late>>

\* Slip: a rejected refresh does not count as an attempt.
RefreshRejected_NotCounted ==
    /\ pc \in {"fresh", "refresh"} /\ ~budgetOut
    /\ pc' = "loop" /\ exc' = NoExc
    /\ UNCHANGED <<request, routing, loop, settlement, budgetOut, held, ledger,
                   cancelled, outcome, client, calls, late, failed>>

\* RefreshError: the next attempt may select the account again.  When the
\* failure is permanent the balancer is told, which may raise.
RefreshRejected ==
    /\ pc \in {"fresh", "refresh"} /\ ~budgetOut
    /\ \/ NextAttempt
       \/ Escape("report") /\ UNCHANGED <<attempt, retries, account, refreshed, exc>>
    /\ UNCHANGED <<request, routing, excluded, lastExc, settlement, budgetOut, held,
                   ledger, cancelled, calls, late>>

\* The refresh is refused by the admission gate, or its database calls
\* raise.  Inside the loop's `try` both are handled; the forced refresh is
\* already inside a handler.
RefreshRefused ==
    /\ pc \in {"fresh", "refresh"} /\ ~budgetOut
    /\ IF pc = "fresh"
       THEN pc' = "outer" /\ exc' = Exc("proxy", Overloaded[1], Overloaded[2]) /\ UNCHANGED outcome
       ELSE Leave("proxy_error") /\ UNCHANGED exc
    /\ UNCHANGED <<request, routing, loop, settlement, budgetOut, held, ledger,
                   cancelled, client, calls, late, failed>>

RefreshRaises ==
    /\ pc \in {"fresh", "refresh"} /\ ~budgetOut
    /\ IF pc = "fresh"
       THEN Answer /\ Leave("end") /\ failed' = failed \cup {"refresh"}
       ELSE Escape("refresh")
    /\ UNCHANGED <<request, routing, loop, exc, settlement, budgetOut, held,
                   ledger, cancelled, calls, late>>

BeginTries ==
    /\ pc = "ready" /\ ~budgetOut
    /\ pc' = "open" /\ retries' = 0
    /\ UNCHANGED <<request, routing, attempt, account, excluded, lastExc, refreshed,
                   exc, settlement, budgetOut, held, ledger, cancelled, outcome,
                   client, calls, late, failed>>

-----------------------------------------------------------------------------
(* One try: _stream_once. *)

\* The admission lease is taken and the request is sent.
Send ==
    /\ pc = "open"
    /\ pc' = "sent" /\ settlement' = FreshSettlement
    /\ held' = {"lease", "heartbeat"} /\ calls' = calls + 1
    /\ late' = IF budgetOut THEN late + 1 ELSE late
    /\ UNCHANGED <<request, routing, loop, exc, budgetOut, ledger, cancelled,
                   outcome, client, failed>>

\* acquire_response_create times out.
SendRefused ==
    /\ pc = "open"
    /\ settlement' = [FreshSettlement EXCEPT !.status = "error", !.success = FALSE]
    /\ Raise(Exc("proxy", Overloaded[1], Overloaded[2]))
    /\ UNCHANGED <<request, routing, loop, budgetOut, held, ledger, cancelled,
                   client, calls, late, failed>>

\* An event that is not terminal is passed on.
PassEvent ==
    /\ pc \in {"sent", "stream"}
    /\ \E text \in BOOLEAN :
          settlement' = [settlement EXCEPT !.visible = TRUE, !.text = @ \/ text]
    /\ pc' = "stream" /\ held' = held \ {"lease"}
    /\ client' = [client EXCEPT !.seen = TRUE]
    /\ UNCHANGED <<request, routing, loop, exc, budgetOut, ledger, cancelled,
                   outcome, calls, late, failed>>

\* A tool call the client was already given is left out.
SuppressDuplicate ==
    /\ pc = "stream"
    /\ settlement' = [settlement EXCEPT !.suppressed = TRUE]
    /\ UNCHANGED <<request, pc, routing, loop, exc, budgetOut, held, ledger,
                   cancelled, outcome, client, calls, late, failed>>

\* response.completed or response.incomplete; a completed response that
\* lacks a suppressed call is turned into a failure.
Finish ==
    /\ pc \in {"sent", "stream"}
    /\ \E kind \in {"completed", "incomplete"}, usage \in BOOLEAN :
          LET spoilt == kind = "completed" /\ settlement.suppressed
              good   == kind = "completed" /\ ~spoilt
          IN /\ settlement' = [settlement EXCEPT
                    !.status = IF good THEN "success" ELSE "error",
                    !.usage = usage, !.visible = TRUE,
                    !.success = @ /\ ~spoilt]
             /\ client' = [client EXCEPT !.seen = TRUE, !.answers = @ + 1,
                                         !.completed = good /\ usage]
    /\ pc' = "ended" /\ held' = held \ {"lease"}
    /\ UNCHANGED <<request, routing, loop, exc, budgetOut, ledger, cancelled,
                   outcome, calls, late, failed>>

\* The answer a rewritten error gives; the balancer is told of the upstream
\* code when that was about the account, which may raise.
RewriteFails(code) == code \in RecoveryCodes

\* A database error inside a try on an account: `except Exception` answers
\* once more and ends, unless the try runs inside the 401 handler.
TryRaises ==
    /\ IF refreshed THEN Escape("report")
       ELSE Answer /\ Leave("end") /\ failed' = failed \cup {"report"}
    /\ held' = {}

\* Anything else that a try raises: a token that cannot be decrypted, an event
\* that cannot be rewritten.  What the upstream client meets becomes an event.
TryBreaks ==
    /\ pc \in {"open", "sent", "stream"}
    /\ IF refreshed THEN Escape("try") ELSE FailAndEnd
    /\ held' = {}
    /\ UNCHANGED <<request, routing, loop, exc, settlement, budgetOut, ledger,
                   cancelled, calls, late>>

FailedSettlement(health) ==
    [settlement EXCEPT !.status = "error", !.success = FALSE, !.health = health]

\* response.failed as the first event.
FirstFailed ==
    /\ pc = "sent"
    /\ \E code \in UpstreamCodes :
          IF Rewritten(code)
          THEN /\ settlement' = [FailedSettlement(FALSE) EXCEPT !.visible = TRUE]
               /\ \/ /\ Answer /\ held' = {} /\ UNCHANGED failed
                     /\ Raise(Exc("terminal", 0, IF code = "context" THEN "transient" ELSE "other"))
                  \/ RewriteFails(code) /\ TryRaises /\ UNCHANGED exc
          ELSE LET kind == CASE AllowRetry /\ code = "idle" -> "retryable_excluding"
                             [] AllowRetry /\ code \in RecoveryCodes -> "retryable"
                             [] AllowTransientRetry /\ code \in TransientCodes \ {"idle"} -> "transient"
                             [] OTHER -> "terminal"
               IN /\ settlement' = [FailedSettlement(Penalized(code)) EXCEPT !.visible = kind = "terminal"]
                  /\ held' = {} /\ UNCHANGED failed
                  /\ IF kind = "terminal" THEN Answer ELSE UNCHANGED client
                  /\ Raise(Exc(kind, 0, code))
    /\ UNCHANGED <<request, routing, loop, budgetOut, ledger, cancelled, calls, late>>

\* response.failed after other events.
LaterFailed ==
    /\ pc = "stream"
    /\ \E code \in UpstreamCodes :
          \/ /\ settlement' = FailedSettlement(~Rewritten(code) /\ Penalized(code) /\ ~settlement.text)
             /\ Answer /\ pc' = "ended"
             /\ UNCHANGED <<held, outcome, failed>>
          \/ /\ Rewritten(code) /\ RewriteFails(code)
             /\ settlement' = FailedSettlement(settlement.health)
             /\ TryRaises
    /\ UNCHANGED <<request, routing, loop, exc, budgetOut, ledger, cancelled, calls, late>>

\* ProxyResponseError from the upstream client.
HttpError ==
    /\ pc \in {"sent", "stream"}
    /\ \E h \in HttpErrors :
          IF Rewritten(h[2])
          THEN /\ settlement' = FailedSettlement(FALSE) /\ UNCHANGED exc
               /\ \/ Answer /\ pc' = "ended" /\ held' = held \ {"lease"} /\ UNCHANGED <<outcome, failed>>
                  \/ RewriteFails(h[2]) /\ TryRaises
          ELSE /\ settlement' = FailedSettlement(Penalized(h[2]))
               /\ held' = {} /\ UNCHANGED <<client, failed>>
               /\ Raise(Exc("proxy", h[1], h[2]))
    /\ UNCHANGED <<request, routing, loop, budgetOut, ledger, cancelled, calls, late>>

\* The stream ends before any event, or cannot be opened at all.
NoFirstEvent ==
    /\ pc = "sent"
    /\ settlement' = FailedSettlement(TRUE)
    /\ \/ Answer /\ pc' = "ended" /\ held' = held \ {"lease"} /\ UNCHANGED <<exc, outcome>>
       \/ AllowRetry /\ held' = {} /\ UNCHANGED client /\ Raise(Exc("retryable_excluding", 0, "other"))
    /\ UNCHANGED <<request, routing, loop, budgetOut, ledger, cancelled, calls, late, failed>>

-----------------------------------------------------------------------------
(* After the try. *)

\* _stream_once has returned: the balancer is told of a failure or a
\* success.  Only the report of a failure reaches the database.
ReportTry ==
    /\ pc = "ended"
    /\ \/ pc' = "settle" /\ held' = {} /\ UNCHANGED <<outcome, client, failed>>
       \/ settlement.health /\ TryRaises
    /\ UNCHANGED <<request, routing, loop, exc, settlement, budgetOut, ledger,
                   cancelled, calls, late>>

\* Slip: whatever has usage is charged.
Billable_AnyStatus == settlement.usage

\* A completed response with both token counts.
Billable == settlement.status = "success" /\ settlement.usage

\* Slip: a settlement that failed counts as one.
SettleUsage_AlwaysSettled ==
    /\ pc = "settle"
    /\ Leave("end") /\ settled' = TRUE
    /\ \/ SettleAs(IF Billable THEN "finalized" ELSE "released") /\ UNCHANGED failed
       \/ failed' = failed \cup {"settle"} /\ UNCHANGED reservation
    /\ DropLocals
    /\ UNCHANGED <<request, held, cleanup, cancelled, client, calls>>

\* _settle_stream_api_key_usage: shielded from cancellation; a database
\* error is logged and leaves the reservation to the `finally`.
SettleUsage ==
    /\ pc = "settle"
    /\ Leave("end")
    /\ \/ /\ SettleAs(IF Billable THEN "finalized" ELSE "released")
          /\ settled' = TRUE /\ UNCHANGED failed
       \/ failed' = failed \cup {"settle"} /\ UNCHANGED <<reservation, settled>>
    /\ DropLocals
    /\ UNCHANGED <<request, held, cleanup, cancelled, client, calls>>

-----------------------------------------------------------------------------
(* The handlers of the account loop. *)

\* Slip: a failure is retried whatever the client has seen.
OutputVisible_Ignored == FALSE

\* The guard of the inner handler: nothing is tried again once the client
\* has seen output of this try.
OutputVisible == settlement.visible

\* The failure is passed on as an event, then reported and settled.
SurfaceFailure ==
    /\ pc = "inner" /\ OutputVisible
    /\ Answer /\ pc' = "ended"
    /\ settlement' = FailedSettlement(Penalized(exc.code))
    /\ UNCHANGED <<request, routing, loop, exc, budgetOut, held, ledger,
                   cancelled, outcome, calls, late, failed>>

\* A report of the handlers reaches the database and may raise; the handler
\* `except Exception` answers.
HandlerReportRaises ==
    Answer /\ Leave("end") /\ failed' = failed \cup {"report"}

\* An HTTP refusal other than 500: the account is reported, and either the
\* next account is tried or the refusal goes to the outer handler.
InnerHttpError ==
    /\ pc = "inner" /\ ~OutputVisible
    /\ exc.kind = "proxy" /\ exc.status # 500
    /\ \/ /\ exc.code # "neutral" /\ FailsOver(exc.status, exc.code)
          /\ excluded' = excluded \cup {account} /\ lastExc' = TRUE
          /\ NextAttempt
       \/ /\ exc.code = "neutral" \/ ~FailsOver(exc.status, exc.code)
          /\ pc' = "outer"
          /\ UNCHANGED <<loop, exc, outcome, client, failed>>
       \/ /\ exc.code # "neutral"
          /\ HandlerReportRaises /\ UNCHANGED <<loop, exc>>
    /\ UNCHANGED <<request, routing, settlement, budgetOut, held, ledger,
                   cancelled, calls, late>>

\* A transient failure: the same account again after a backoff, while tries
\* and budget last.
TransientFailure == exc.kind = "transient" \/ (exc.kind = "proxy" /\ exc.status = 500)

\* Slip: off by one.
TriesLeft_OneMore == retries < MaxTransientRetries

TriesLeft == retries + 1 < MaxTransientRetries

\* Slip: a failure is retried whatever time is left.
RetrySameAccount_NoDeadline ==
    /\ pc = "inner" /\ ~OutputVisible /\ TransientFailure
    /\ TriesLeft
    /\ pc' = "open" /\ retries' = retries + 1 /\ exc' = NoExc
    /\ UNCHANGED <<request, routing, attempt, account, excluded, lastExc, refreshed,
                   settlement, budgetOut, held, ledger, cancelled, outcome,
                   client, calls, late, failed>>

\* The backoff is slept through before the try, which does not look at the
\* deadline again: BudgetRunsOut may come first.
RetrySameAccount ==
    /\ pc = "inner" /\ ~OutputVisible /\ TransientFailure
    /\ TriesLeft /\ ~budgetOut
    /\ pc' = "open" /\ retries' = retries + 1 /\ exc' = NoExc
    /\ UNCHANGED <<request, routing, attempt, account, excluded, lastExc, refreshed,
                   settlement, budgetOut, held, ledger, cancelled, outcome,
                   client, calls, late, failed>>

\* Otherwise the account is reported once per failed try and excluded.
LeaveAccount ==
    /\ pc = "inner" /\ ~OutputVisible /\ TransientFailure
    /\ ~TriesLeft \/ budgetOut
    /\ \/ /\ excluded' = excluded \cup {account}
          /\ lastExc' = (lastExc \/ exc.kind = "proxy")
          /\ NextAttempt
       \/ HandlerReportRaises /\ UNCHANGED <<loop, exc>>
    /\ UNCHANGED <<request, routing, settlement, budgetOut, held, ledger,
                   cancelled, calls, late>>

\* _RetryableStreamError.
OuterRetryable ==
    /\ pc = "outer" /\ exc.kind \in {"retryable", "retryable_excluding"}
    /\ \/ /\ excluded' = IF exc.kind = "retryable_excluding" THEN excluded \cup {account} ELSE excluded
          /\ NextAttempt
       \/ Escape("report") /\ UNCHANGED <<attempt, retries, account, excluded, refreshed, exc>>
    /\ UNCHANGED <<request, routing, lastExc, settlement, budgetOut, held, ledger,
                   cancelled, calls, late>>

\* Slip: the terminal error is sent, although it was already.
OuterTerminal_SendsAgain ==
    /\ pc = "outer" /\ exc.kind = "terminal"
    /\ FailAndEnd
    /\ UNCHANGED <<request, routing, loop, exc, settlement, budgetOut, held,
                   ledger, cancelled, calls, late>>

\* _TerminalStreamError: the event has been passed on already.
OuterTerminal ==
    /\ pc = "outer" /\ exc.kind = "terminal"
    /\ \/ Leave("end") /\ UNCHANGED <<client, failed>>
       \/ Penalized(exc.code) /\ Escape("report")
    /\ UNCHANGED <<request, routing, loop, exc, settlement, budgetOut, held,
                   ledger, cancelled, calls, late>>

\* ProxyResponseError: a 401 forces a token refresh, anything else is final.
OuterUnauthorized ==
    /\ pc = "outer" /\ exc.kind = "proxy" /\ exc.status = 401
    /\ pc' = "refresh"
    /\ UNCHANGED <<request, routing, loop, exc, settlement, budgetOut, held,
                   ledger, cancelled, outcome, client, calls, late, failed>>

OuterHttpError ==
    /\ pc = "outer" /\ exc.kind = "proxy" /\ exc.status # 401
    /\ \/ propagate /\ Leave("proxy_error") /\ UNCHANGED <<client, failed>>
       \/ ~propagate /\ FailAndEnd
       \/ Penalized(exc.code) /\ Escape("report")
    /\ UNCHANGED <<request, routing, loop, exc, settlement, budgetOut, held,
                   ledger, cancelled, calls, late>>

ForceRefresh ==
    /\ pc = "refresh" /\ ~budgetOut
    /\ pc' = "refreshed"
    /\ UNCHANGED <<request, routing, loop, exc, settlement, budgetOut, held,
                   ledger, cancelled, outcome, client, calls, late, failed>>

BeginRefreshedTry ==
    /\ pc = "refreshed" /\ ~budgetOut
    /\ pc' = "open" /\ refreshed' = TRUE /\ exc' = NoExc
    /\ UNCHANGED <<request, routing, attempt, retries, account, excluded, lastExc,
                   settlement, budgetOut, held, ledger, cancelled, outcome,
                   client, calls, late, failed>>

-----------------------------------------------------------------------------
(* The end of the generator, and around it. *)

\* The `finally`: an unsettled reservation is released; in a cancelled task
\* by a background task.
AfterFinally == pc' = IF outcome = "proxy_error" THEN "caller" ELSE "done"

Finally ==
    /\ pc = "finally"
    /\ AfterFinally
    /\ \/ settled /\ UNCHANGED <<reservation, cleanup, failed>>
       \/ ~settled /\ cancelled = "task" /\ cleanup' = TRUE /\ UNCHANGED <<reservation, failed>>
       \/ ~settled /\ cancelled # "task" /\ SettleAs("released") /\ UNCHANGED <<cleanup, failed>>
       \/ ~settled /\ cancelled # "task" /\ failed' = failed \cup {"release"}
          /\ UNCHANGED <<reservation, cleanup>>
    /\ DropLocals
    /\ UNCHANGED <<request, held, settled, cancelled, outcome, client, calls>>

BackgroundRelease ==
    /\ cleanup
    /\ cleanup' = FALSE
    /\ \/ SettleAs("released") /\ UNCHANGED failed
       \/ failed' = failed \cup {"release"} /\ UNCHANGED reservation
    /\ UNCHANGED <<request, pc, routing, loop, exc, settlement, budgetOut, held,
                   settled, cancelled, outcome, client, calls, late>>

\* The API handler turns a ProxyResponseError into an HTTP error or a
\* response.failed event; the handlers of /responses release the
\* reservation again, the one of /chat/completions does not.
HandlerReleases == handler = "responses"

AnswerHttpError ==
    /\ pc = "caller"
    /\ pc' = "done" /\ Answer
    /\ \/ HandlerReleases /\ SettleAs("released") /\ UNCHANGED failed
       \/ HandlerReleases /\ failed' = failed \cup {"release"} /\ UNCHANGED reservation
       \/ ~HandlerReleases /\ UNCHANGED <<reservation, failed>>
    /\ UNCHANGED <<request, routing, loop, exc, settlement, budgetOut, held, settled,
                   cleanup, cancelled, outcome, calls, late>>

\* The client goes away.  The task is cancelled where it waits; or the
\* generator, suspended at a `yield`, is closed, and the _stream_once inside
\* it is only closed when it is collected.
Waiting == {"owner", "select", "fresh", "open", "sent", "stream", "ended",
            "inner", "outer", "refresh"}

CancelTask ==
    /\ pc \in Waiting
    /\ cancelled' = "task" /\ Leave("cancelled") /\ held' = {}
    /\ DropLocals
    /\ UNCHANGED <<request, ledger, client, calls, failed>>

CloseGenerator ==
    /\ pc \in {"stream", "ended"}
    /\ cancelled' = "close" /\ Leave("cancelled")
    /\ DropLocals
    /\ UNCHANGED <<request, held, ledger, client, calls, failed>>

CloseInner ==
    /\ cancelled = "close" /\ held # {}
    /\ held' = {}
    /\ UNCHANGED <<request, pc, routing, loop, exc, settlement, budgetOut, ledger,
                   cancelled, outcome, client, calls, late, failed>>

\* The deadline passes.  It makes a difference only where the request is
\* about to compare it with the clock or to send: passing anywhere before is
\* the same as passing there.
BudgetRunsOut ==
    /\ pc \in {"loop", "select", "fresh", "ready", "open", "inner", "refresh", "refreshed"}
    /\ ~budgetOut
    /\ budgetOut' = TRUE
    /\ UNCHANGED <<request, pc, routing, loop, exc, settlement, held, ledger,
                   cancelled, outcome, client, calls, late, failed>>

Terminated == pc = "done" /\ ~cleanup /\ held = {} /\ UNCHANGED vars

Step ==
    \/ EarlyFailure \/ RejectImage \/ Start \/ ResolveOwner \/ OwnerLookupFails
    \/ BeginAttempt \/ OutOfBudget \/ Exhausted
    \/ SelectAccount \/ SelectNone \/ SelectRaises
    \/ Fresh \/ RefreshUnreachable \/ RefreshRejected \/ RefreshRefused \/ RefreshRaises
    \/ BeginTries \/ Send \/ SendRefused
    \/ PassEvent \/ SuppressDuplicate \/ Finish
    \/ FirstFailed \/ LaterFailed \/ HttpError \/ NoFirstEvent \/ TryBreaks
    \/ ReportTry \/ SettleUsage
    \/ SurfaceFailure \/ InnerHttpError \/ RetrySameAccount \/ LeaveAccount
    \/ OuterRetryable \/ OuterTerminal \/ OuterUnauthorized \/ OuterHttpError
    \/ ForceRefresh \/ BeginRefreshedTry
    \/ Finally \/ BackgroundRelease \/ AnswerHttpError \/ CloseInner

Environment == CancelTask \/ CloseGenerator \/ BudgetRunsOut

Next == Step \/ Environment \/ Terminated

Spec == Init /\ [][Next]_vars

\* Every await of a request ends: the upstream client has connect, idle and
\* total timeouts, selection and refresh run under the remaining budget, and
\* a background task is scheduled by the event loop.
FairSpec == Spec /\ WF_vars(Step)

-----------------------------------------------------------------------------
(* Properties. *)

Over == pc = "done" /\ ~cleanup

\* Whatever path through failover, surfacing, refresh, cancellation and
\* database errors a request takes, its reservation does not stay reserved,
\* unless the release itself failed or the request ended before the `try` of
\* _stream_with_retry; those are left to the sweep of abandoned reservations.
ReservationSettled ==
    Over => \/ reservation # "reserved"
            \/ "release" \in failed
            \/ "early" \in failed

\* Usage is charged exactly for a response.completed with usage that reached
\* the client of a request that was not cancelled: not for a completed
\* response of an earlier try, not for an incomplete one, and not for one
\* turned into a failure.
ChargedExactly ==
    Over => (reservation = "finalized"
             <=> client.completed /\ cancelled = "no" /\ "settle" \notin failed)

\* The client gets one final answer, a terminal event or an HTTP error, and
\* never two; a second one only if a report to the balancer raised.
OneAnswer == client.answers <= 1 \/ "report" \in failed

\* A request that was not cancelled does not end without an answer, unless
\* a database call or the code of the last try after a refresh raised.
Answered == Over /\ cancelled = "no" /\ failed = {} => client.answers >= 1

\* Once the client has seen any output, the request is not sent again: no
\* retry, failover or refresh can repeat what was already shown.
NoReplay == [][calls' > calls => ~client.seen]_vars

\* The request is not sent on an account it has given up.
ExcludedNotUsed == [][calls' > calls => account \notin excluded]_vars

\* A request that continues a response of a known account is sent on that
\* account only.
OwnerOnly == [][calls' > calls /\ required => account = preferred]_vars

\* The upstream sees at most the tries of every account attempt and the one
\* after a forced refresh.
CallsBounded == calls <= MaxAccountAttempts * MaxTransientRetries + 1

\* After the deadline the request is sent once more at most: the try that was
\* decided on before, whose backoff or admission the deadline fell into
\* (service.py:9240).  Neither its failure, nor a failover or a forced refresh
\* sends another one.
LateTryOnce == late <= 1

\* Every request ends, with nothing held and no release outstanding.
RequestEnds == []<>(Over /\ held = {})

\* What the api-keys specification says of early exits: no path that ends
\* without a request to the upstream leaves the reservation reserved.
EarlyExitReleases ==
    Over /\ calls = 0 /\ failed = {} => reservation # "reserved"

=============================================================================
