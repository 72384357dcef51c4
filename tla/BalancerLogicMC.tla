-------------------------- MODULE BalancerLogicMC --------------------------
(***************************************************************************)
(* One account and a balancer that selects again and again while time      *)
(* passes, from every combination of stored row, usage row and runtime     *)
(* state: the pure functions of BalancerLogic against what they are for.   *)
(***************************************************************************)
EXTENDS BalancerLogic

CONSTANTS MaxTime, MaxErrors,
    MaxReset    \* resets may lie beyond MaxTime

VARIABLES row, usage, runtime, t, state

vars == <<row, usage, runtime, t, state>>

Times == 0 .. MaxTime
Resets == 0 .. MaxReset

\* The rows the program stores: a block has a time, an active or terminal
\* account none (update_status, _persist_state).
Init ==
    /\ t \in Times \ {0}
    /\ row \in {r \in [status : Statuses, reset : Resets, blocked : Times] :
                  /\ r.status = "active" => r.reset = 0 /\ r.blocked = 0
                  /\ r.status \in Terminal => r.blocked = 0
                  /\ r.blocked <= t}
    /\ usage \in {u \in [p : Levels, s : Levels, pReset : Resets, sReset : Resets, at : Times] :
                  /\ u.at <= t
                  /\ u.p = "none" /\ u.s = "none" <=> u.at = 0
                  /\ IF u.p = "none" THEN u.pReset = 0 ELSE u.pReset = 0 \/ u.pReset > u.at
                  /\ IF u.s = "none" THEN u.sReset = 0 ELSE u.sReset = 0 \/ u.sReset > u.at}
    /\ runtime \in {r \in [reset : {0}, cooldown : Times, blocked : {0},
                           lastError : Times, errors : 0 .. MaxErrors] :
                  r.lastError <= t /\ (r.lastError = 0 <=> r.errors = 0)}
    /\ state = StateFromAccount(row, usage, runtime, t)

\* One selection: the states are built and swept, then runtime and row are saved.
Select ==
    /\ LET st == Sweep(StateFromAccount(row, usage, runtime, t), t)
       IN  /\ state' = st
           /\ runtime' = RuntimeOf(st)
           /\ row' = RowOf(st)
    /\ UNCHANGED <<usage, t>>

Tick ==
    /\ t < MaxTime
    /\ t' = t + 1
    /\ UNCHANGED <<row, usage, runtime, state>>

Next == Select \/ Tick

Spec == Init /\ [][Next]_vars

----------------------------------------------------------------------------

StoredReset == Or(row.reset, runtime.reset)

\* Why a blocked account may be offered before the reset time stored with its
\* block.  A usage row of the window it was blocked for, recorded after the
\* block, once the block is old enough to be believed: the persisted time for
\* a quota, a cooldown seen by this process for a rate limit.
RowAfterBlock ==
    LET since == BlockedSince(row, runtime)
    IN  /\ since # 0 /\ since < usage.at
        /\ \/ /\ row.status = "quota_exceeded" /\ usage.s # "none"
              /\ since + QuotaCooldown <= t
           \/ /\ row.status = "rate_limited" /\ usage.p # "none"
              /\ runtime.blocked # 0 /\ runtime.cooldown # 0

\* A recent row of a later quota window, for a block without a time.
RowOfLaterWindow ==
    /\ row.status = "quota_exceeded" /\ BlockedSince(row, runtime) = 0
    /\ usage.s = "free" /\ usage.sReset > StoredReset
    /\ t - usage.at <= Recent

\* A row that says a window is used up until a time that has passed.  Its
\* reset time replaces the stored one (quota.py:26-31, 41-49), also when the
\* row is older than the block.
UsedUpWindowEnded ==
    \/ usage.s = "full" /\ usage.sReset \in 1 .. t
    \/ usage.s # "full" /\ usage.p = "full" /\ usage.pReset \in 1 .. t


\* An account whose usage rows say that a window is used up is not offered
\* before that window resets; when both are, the weekly window is the one that
\* counts (apply_usage_quota looks at it first and returns).  A weekly row
\* without a reset time leaves the stored one, if any; a primary row without
\* one holds the account back as long as it is the latest.
ExhaustedHeldBack ==
    [][Select /\ Available(state', t) =>
          /\ usage.s = "full" => Or(usage.sReset, StoredReset) \in 1 .. t
          /\ usage.s # "full" /\ usage.p = "full" => usage.pReset \in 1 .. t]_vars

\* Paused and deactivated accounts come out of a selection as they went in,
\* whatever their usage rows say (the early return of apply_usage_quota).
TerminalKept ==
    [][Select /\ row.status \in Terminal => row'.status = row.status /\ ~Available(state', t)]_vars

=============================================================================
