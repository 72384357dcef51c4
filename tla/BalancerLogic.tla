--------------------------- MODULE BalancerLogic ---------------------------
(***************************************************************************)
(* The pure functions of the load balancer: how a stored account, its      *)
(* latest usage and its runtime state become a selection state             *)
(* (_state_from_account, apply_usage_quota), what select_account does to   *)
(* each state before it chooses, and what a failed request does to one     *)
(* (app/core/balancer/logic.py, app/core/usage/quota.py).                  *)
(*                                                                         *)
(* Times are naturals and 0 stands for None.  Used percentages are         *)
(* abstracted to the one threshold the code compares with, 100: a window   *)
(* is "none" (no row), "free" or "full", and both windows have the         *)
(* recording time of the latest row.  The routing strategies and the       *)
(* health tiers only rank the accounts that are left, so the choice among  *)
(* them is open.                                                           *)
(***************************************************************************)
EXTENDS Integers, FiniteSetsExt

CONSTANTS
    QuotaCooldown,   \* QUOTA_EXCEEDED_COOLDOWN_SECONDS
    PrimaryWindow,   \* length of the primary window, for a row without reset time
    QuotaDefault,    \* the hour handle_quota_exceeded assumes without a reset
    Recent,          \* the age limit of _usage_entry_is_recent_enough
    BackoffBase,     \* the 30 seconds of the error backoff
    BackoffMax       \* its cap of 300 seconds

ASSUME BalancerAssumption ==
    /\ {QuotaCooldown, PrimaryWindow, QuotaDefault, BackoffBase, BackoffMax} \subseteq Nat \ {0}
    /\ Recent \in Nat

Statuses == {"active", "rate_limited", "quota_exceeded", "paused", "deactivated"}
Terminal == {"paused", "deactivated"}
Blocked == {"rate_limited", "quota_exceeded"}
Levels == {"none", "free", "full"}

\* An account row, a usage snapshot (both windows) and a RuntimeState.
AccountRow == [status : Statuses, reset : Nat, blocked : Nat]
Usage == [p : Levels, s : Levels, pReset : Nat, sReset : Nat, at : Nat]
Runtime == [reset : Nat, cooldown : Nat, blocked : Nat, lastError : Nat, errors : Nat]
AccountState == [status : Statuses, reset : Nat, cooldown : Nat, blocked : Nat,
                 lastError : Nat, errors : Nat]

FreshRuntime == [reset |-> 0, cooldown |-> 0, blocked |-> 0, lastError |-> 0, errors |-> 0]

RuntimeOf(st) == [f \in DOMAIN FreshRuntime |-> st[f]]
RowOf(st) == [status |-> st.status, reset |-> st.reset, blocked |-> st.blocked]

Or(x, y) == IF x # 0 THEN x ELSE y

----------------------------------------------------------------------------
(* Status from usage: apply_usage_quota.  guard is runtime_reset, the time *)
(* before which a blocked account is not freed by a usage row.             *)

Freed(status, guard, t) ==
    IF guard > t THEN [status |-> status, reset |-> guard]
                 ELSE [status |-> "active", reset |-> 0]

SecondaryQuota(status, u, guard, t) ==
    IF u.s = "free" /\ status = "quota_exceeded"
    THEN Freed(status, guard, t)
    ELSE [status |-> status, reset |-> guard]

\* Slip: the weekly window is only looked at for accounts already blocked by it.
ApplyUsageQuota_SkipsWeekly(status, u, guard, t) ==
    LET after == SecondaryQuota(status, u, guard, t)
    IN  IF status \in Terminal THEN [status |-> status, reset |-> guard]
        ELSE IF u.s = "full" /\ status = "quota_exceeded"
             THEN [status |-> "quota_exceeded", reset |-> Or(u.sReset, guard)]
        ELSE IF u.p = "full" THEN [status |-> "rate_limited", reset |-> Or(u.pReset, t + PrimaryWindow)]
        ELSE IF u.p = "free" /\ after.status = "rate_limited"
             THEN Freed(after.status, guard, t)
        ELSE after

\* Slip: the early return for paused and deactivated accounts is gone.
ApplyUsageQuota_AnyStatus(status, u, guard, t) ==
    LET after == SecondaryQuota(status, u, guard, t)
    IN  IF u.s = "full" THEN [status |-> "quota_exceeded", reset |-> Or(u.sReset, guard)]
        ELSE IF u.p = "full" THEN [status |-> "rate_limited", reset |-> Or(u.pReset, t + PrimaryWindow)]
        ELSE IF u.p = "free" /\ after.status = "rate_limited"
             THEN Freed(after.status, guard, t)
        ELSE after

ApplyUsageQuota(status, u, guard, t) ==
    LET after == SecondaryQuota(status, u, guard, t)
    IN  IF status \in Terminal THEN [status |-> status, reset |-> guard]
        ELSE IF u.s = "full" THEN [status |-> "quota_exceeded", reset |-> Or(u.sReset, guard)]
        ELSE IF u.p = "full" THEN [status |-> "rate_limited", reset |-> Or(u.pReset, t + PrimaryWindow)]
        ELSE IF u.p = "free" /\ after.status = "rate_limited"
             THEN Freed(after.status, guard, t)
        ELSE after

----------------------------------------------------------------------------
(* _state_from_account.                                                    *)

BlockedSince(row, rt) == Or(row.blocked, rt.blocked)

CooldownReady(row, rt, t) ==
    IF row.status = "quota_exceeded"
    THEN BlockedSince(row, rt) # 0 /\ t >= BlockedSince(row, rt) + QuotaCooldown
    ELSE rt.cooldown # 0 /\ rt.cooldown <= t /\ rt.blocked # 0

\* A usage row of the window that blocked the account, recorded after the block.
RefreshedSinceBlock(row, u, rt) ==
    /\ BlockedSince(row, rt) # 0
    /\ \/ row.status = "quota_exceeded" /\ u.s # "none"
       \/ row.status = "rate_limited" /\ u.p # "none"
    /\ u.at > BlockedSince(row, rt)


\* The quota window rolled over upstream before the stored reset time.
WindowRolledOver(row, u, rt, t) ==
    LET reset == Or(row.reset, rt.reset)
    IN  /\ row.status = "quota_exceeded" /\ reset > t /\ BlockedSince(row, rt) = 0
        /\ u.s = "free" /\ u.at + Recent >= t /\ u.sReset > reset

StateFromAccount(row, u, rt, t) ==
    LET freed == \/ WindowRolledOver(row, u, rt, t)
                 \/ CooldownReady(row, rt, t) /\ RefreshedSinceBlock(row, u, rt)
        guard == IF freed THEN 0 ELSE Or(row.reset, rt.reset)
        quota == ApplyUsageQuota(row.status, u, guard, t)
    IN  [status |-> quota.status, reset |-> quota.reset, cooldown |-> rt.cooldown,
         blocked |-> IF quota.status \in Blocked THEN BlockedSince(row, rt) ELSE 0,
         lastError |-> rt.lastError, errors |-> rt.errors]

----------------------------------------------------------------------------
(* select_account: the loop over the states, one operator per stage.       *)

BackoffFor(errors) == Min({BackoffMax, BackoffBase * 2 ^ (errors - 3)})

Recovered(st, t) ==
    IF st.status \in Blocked /\ st.reset # 0 /\ t >= st.reset
    THEN [st EXCEPT !.status = "active", !.reset = 0,
                    !.errors = IF st.status = "rate_limited" THEN 0 ELSE @]
    ELSE st

Cooled(st, t) ==
    IF st.status = "active" /\ st.cooldown # 0 /\ t >= st.cooldown
    THEN [st EXCEPT !.cooldown = 0, !.lastError = 0, !.errors = 0]
    ELSE st

Usable(st) == st.status = "active" /\ st.cooldown = 0

BackoffRunning(rt, t) ==
    rt.errors >= 3 /\ rt.lastError # 0 /\ t - rt.lastError < BackoffFor(rt.errors)

InErrorBackoff(st, t) == Usable(st) /\ BackoffRunning(st, t)

Sweep(st, t) ==
    LET c == Cooled(Recovered(st, t), t)
    IN  IF Usable(c) /\ c.errors >= 3 /\ ~InErrorBackoff(c, t)
        THEN [c EXCEPT !.errors = 0, !.lastError = 0]
        ELSE c

Available(st, t) == Usable(st) /\ ~InErrorBackoff(st, t)

\* Who may be chosen among the swept states of the accounts in A.
Candidates(states, A, t, fallback) ==
    LET free == {a \in A : Available(states[a], t)}
        waiting == {a \in A : InErrorBackoff(states[a], t)}
        ends(a) == states[a].lastError + BackoffFor(states[a].errors)
        hard == \E a \in A : states[a].status # "active"
    IN  IF free # {} THEN free
        ELSE IF fallback /\ waiting # {} /\ (hard \/ Cardinality(waiting) > 1)
             THEN {a \in waiting : \A b \in waiting : ends(a) <= ends(b)}
             ELSE {}

\* The message "No available accounts", as opposed to a hint when to retry.
NoneAvailable(states, A, t) ==
    /\ (\E a \in A : states[a].status \in Terminal) => \E a \in A : states[a].status \in Blocked
    /\ \A a \in A : states[a].status = "quota_exceeded" => states[a].reset = 0
    /\ \A a \in A : states[a].cooldown <= t

----------------------------------------------------------------------------
(* What a failed request does to the state of its account.  reset is the   *)
(* reset time upstream named (0 if none), delay its retry delay or the     *)
(* computed backoff.                                                       *)

HandleRateLimit(st, reset, delay, t) ==
    [st EXCEPT !.status = "rate_limited", !.errors = @ + 1, !.lastError = t,
               !.blocked = t, !.reset = Or(reset, @), !.cooldown = t + delay]

HandleQuotaExceeded(st, reset, t) ==
    [st EXCEPT !.status = "quota_exceeded", !.blocked = t,
               !.cooldown = t + QuotaCooldown,
               !.reset = Or(reset, t + QuotaDefault)]

HandlePermanentFailure(st) == [st EXCEPT !.status = "deactivated", !.blocked = 0]

=============================================================================
