--------------------------- MODULE CircuitBreaker ---------------------------
(***************************************************************************)
(* The per-account circuit breaker (app/core/resilience/circuit_breaker.py)*)
(* and the upstream calls that drive it (app/core/clients/proxy.py).       *)
(*                                                                         *)
(* A call asks for admission, runs, records its outcome and gives back the *)
(* half-open probe slot if it was the probe.  Each of these takes the      *)
(* breaker's lock separately, so calls interleave between them.  HTTP      *)
(* calls return the slot in a `finally`; websocket calls are opened with   *)
(* hold_half_open_probe=True and return it when the bound websocket ends.  *)
(*                                                                         *)
(* The code compares time.monotonic() only with _last_failure_time, so the *)
(* clock is the time since the last failure, saturated at the timeout; and *)
(* it compares _failure_count only with 0 and the threshold, so the count  *)
(* saturates at the threshold.                                             *)
(***************************************************************************)
EXTENDS Naturals, FiniteSets

CONSTANTS
    Calls,              \* slots for concurrent upstream calls
    Kinds,              \* transports in use: a subset of {"http", "ws"}
    FailureThreshold,   \* failure_threshold
    SuccessThreshold,   \* success_threshold
    RecoveryTimeout     \* recovery_timeout_seconds

ASSUME KindsAssumption == Kinds \subseteq {"http", "ws"}
ASSUME ThresholdAssumption ==
    /\ FailureThreshold \in Nat \ {0}
    /\ SuccessThreshold \in Nat \ {0}
    /\ RecoveryTimeout \in Nat

VARIABLES
    rawState,       \* _state; HALF_OPEN is never stored, see State
    failureCount,   \* _failure_count
    successCount,   \* _success_count
    sinceFailure,   \* time.monotonic() - _last_failure_time, saturated
    probeInFlight,  \* _half_open_probe_in_flight
    call,           \* the calls in flight
    recovered       \* history: successes recorded half-open since the last failure

breaker == <<rawState, failureCount, successCount, sinceFailure>>
vars == <<breaker, probeInFlight, call, recovered>>

\* "idle": no call; "opening": a websocket before its handshake completes;
\* "running": request or stream in progress; "recorded": the outcome of a
\* websocket stream was recorded, the stream is still open; "releasing":
\* the outcome is settled, only the `finally` that frees the slot remains.
Phases == {"idle", "opening", "running", "recorded", "releasing"}

Idle == [phase |-> "idle", kind |-> "http", probe |-> FALSE]

TypeOK ==
    /\ rawState \in {"closed", "open"}
    /\ failureCount \in 0..FailureThreshold
    /\ successCount \in 0..(SuccessThreshold - 1)
    /\ sinceFailure \in 0..RecoveryTimeout
    /\ probeInFlight \in BOOLEAN
    /\ call \in [Calls -> [phase : Phases, kind : {"http", "ws"}, probe : BOOLEAN]]
    /\ recovered \in 0..SuccessThreshold

Init ==
    /\ rawState = "closed"
    /\ failureCount = 0
    /\ successCount = 0
    /\ sinceFailure = 0
    /\ probeInFlight = FALSE
    /\ call = [c \in Calls |-> Idle]
    /\ recovered = 0

\* The `state` property: an open breaker reads as half-open once the
\* recovery timeout has passed.
State ==
    IF rawState = "open" /\ sinceFailure >= RecoveryTimeout
    THEN "half_open" ELSE rawState

-----------------------------------------------------------------------------
(* Admission: pre_call_check *)

\* Slip: a second probe is admitted while one is in flight.
PreCallCheck_NoSlotCheck(c, kind) ==
    /\ call[c].phase = "idle"
    /\ State # "open"
    /\ probeInFlight' = (probeInFlight \/ State = "half_open")
    /\ call' = [call EXCEPT ![c] =
                  [phase |-> IF kind = "ws" THEN "opening" ELSE "running",
                   kind  |-> kind,
                   probe |-> State = "half_open"]]
    /\ UNCHANGED <<breaker, recovered>>

\* A rejected call leaves no trace, so only admissions are steps.
PreCallCheck(c, kind) ==
    /\ call[c].phase = "idle"
    /\ State # "open"
    /\ State = "half_open" => ~probeInFlight
    /\ probeInFlight' = (probeInFlight \/ State = "half_open")
    /\ call' = [call EXCEPT ![c] =
                  [phase |-> IF kind = "ws" THEN "opening" ELSE "running",
                   kind  |-> kind,
                   probe |-> State = "half_open"]]
    /\ UNCHANGED <<breaker, recovered>>

-----------------------------------------------------------------------------
(* Outcomes: _record_success and _record_failure *)

\* Slip: closing does not clear the failure count.
RecordSuccess_KeepsFailures ==
    \/ /\ State = "half_open"
       /\ successCount + 1 >= SuccessThreshold
       /\ rawState' = "closed"
       /\ successCount' = 0
       /\ UNCHANGED <<failureCount, sinceFailure>>
    \/ /\ State = "half_open"
       /\ successCount + 1 < SuccessThreshold
       /\ successCount' = successCount + 1
       /\ UNCHANGED <<rawState, failureCount, sinceFailure>>
    \/ /\ State # "half_open"
       /\ UNCHANGED breaker

\* Slip: one success too many is needed to close.
RecordSuccess_OffByOne ==
    /\ successCount' = IF State = "half_open" THEN
                         IF successCount >= SuccessThreshold THEN 0 ELSE successCount + 1
                       ELSE successCount
    /\ rawState' = IF State = "half_open" /\ successCount >= SuccessThreshold
                   THEN "closed" ELSE rawState
    /\ failureCount' = IF rawState' = "closed" THEN 0 ELSE failureCount
    /\ UNCHANGED sinceFailure

RecordSuccess ==
    \/ /\ State = "half_open"
       /\ successCount + 1 >= SuccessThreshold
       /\ rawState' = "closed"
       /\ failureCount' = 0
       /\ successCount' = 0
       /\ UNCHANGED sinceFailure
    \/ /\ State = "half_open"
       /\ successCount + 1 < SuccessThreshold
       /\ successCount' = successCount + 1
       /\ UNCHANGED <<rawState, failureCount, sinceFailure>>
    \/ /\ State = "closed"
       /\ failureCount' = 0
       /\ UNCHANGED <<rawState, successCount, sinceFailure>>
    \/ /\ State = "open"
       /\ UNCHANGED breaker

\* Slip: a failure leaves the successes of the recovery it ends.
RecordFailure_KeepsSuccesses ==
    /\ failureCount' = IF failureCount < FailureThreshold
                       THEN failureCount + 1 ELSE failureCount
    /\ sinceFailure' = 0
    /\ rawState' = IF failureCount' >= FailureThreshold THEN "open" ELSE rawState
    /\ UNCHANGED successCount

RecordFailure ==
    /\ failureCount' = IF failureCount < FailureThreshold
                       THEN failureCount + 1 ELSE failureCount
    /\ sinceFailure' = 0
    /\ successCount' = 0
    /\ rawState' = IF failureCount' >= FailureThreshold THEN "open" ELSE rawState

\* Cancelled, or failed with an exception that is not a server error.
RecordNothing == UNCHANGED breaker

Succeed == RecordSuccess /\ recovered' = recovered + (IF State = "half_open" THEN 1 ELSE 0)
Fail    == RecordFailure /\ recovered' = 0
Pass    == RecordNothing /\ UNCHANGED recovered

RecordOutcome == Succeed \/ Fail \/ Pass

SetPhase(c, phase) == call' = [call EXCEPT ![c].phase = phase]

-----------------------------------------------------------------------------
(* Calls *)

\* An HTTP call ends: the outcome is recorded, the `finally` is still to run.
FinishHttp(c) ==
    /\ call[c].kind = "http" /\ call[c].phase = "running"
    /\ RecordOutcome
    /\ SetPhase(c, "releasing")
    /\ UNCHANGED probeInFlight

\* The websocket handshake succeeds with 101: nothing is recorded, and a probe
\* is bound to the websocket (_bind_half_open_probe).
HandshakeSucceeds(c) ==
    /\ call[c].phase = "opening"
    /\ SetPhase(c, "running")
    /\ UNCHANGED <<breaker, probeInFlight, recovered>>

\* The handshake fails: a 5xx or an exception records a failure, any other
\* status a success, a cancellation nothing.  No websocket exists to bind
\* the probe to, and the `finally` skips the release because
\* hold_half_open_probe is set: the call is over.
HandshakeFails(c) ==
    /\ call[c].phase = "opening"
    /\ RecordOutcome
    /\ call' = [call EXCEPT ![c] = Idle]
    /\ UNCHANGED probeInFlight

\* A terminal event arrives; the stream stays open until the peer closes it.
StreamTerminal(c) ==
    /\ call[c].kind = "ws" /\ call[c].phase = "running"
    /\ Succeed
    /\ SetPhase(c, "recorded")
    /\ UNCHANGED probeInFlight

\* The stream ends without a terminal event: an error or an early close
\* records a failure, a cancellation nothing.
StreamBreaks(c) ==
    /\ call[c].kind = "ws" /\ call[c].phase = "running"
    /\ Fail \/ Pass
    /\ SetPhase(c, "releasing")
    /\ UNCHANGED probeInFlight

\* The stream ends after its outcome was recorded (lifecycle_recorded).
StreamEnds(c) ==
    /\ call[c].phase = "recorded"
    /\ SetPhase(c, "releasing")
    /\ UNCHANGED <<breaker, probeInFlight, recovered>>

\* Slip: the slot is only given back while the breaker is still half-open.
ReleaseHalfOpenProbe_WhileHalfOpen(c) ==
    /\ call[c].phase = "releasing"
    /\ probeInFlight' = (probeInFlight /\ ~(call[c].probe /\ State = "half_open"))
    /\ call' = [call EXCEPT ![c] = Idle]
    /\ UNCHANGED <<breaker, recovered>>

\* The `finally` of an HTTP call, or _release_bound_half_open_probe.
ReleaseHalfOpenProbe(c) ==
    /\ call[c].phase = "releasing"
    /\ probeInFlight' = (probeInFlight /\ ~call[c].probe)
    /\ call' = [call EXCEPT ![c] = Idle]
    /\ UNCHANGED <<breaker, recovered>>

\* Time passes.
Tick ==
    /\ sinceFailure < RecoveryTimeout
    /\ sinceFailure' = sinceFailure + 1
    /\ UNCHANGED <<rawState, failureCount, successCount, probeInFlight, call, recovered>>

Step(c) ==
    \/ FinishHttp(c)
    \/ HandshakeSucceeds(c) \/ HandshakeFails(c)
    \/ StreamTerminal(c) \/ StreamBreaks(c) \/ StreamEnds(c)
    \/ ReleaseHalfOpenProbe(c)

Next ==
    \/ \E c \in Calls, kind \in Kinds : PreCallCheck(c, kind)
    \/ \E c \in Calls : Step(c)
    \/ Tick

Spec == Init /\ [][Next]_vars

\* Every upstream call is bounded by connect, idle and total timeouts, so a
\* call in flight eventually takes its next step; the clock never stops.
FairSpec ==
    /\ Spec
    /\ \A c \in Calls : WF_vars(Step(c))
    /\ WF_vars(Tick)

-----------------------------------------------------------------------------
(* Properties *)

HoldsProbe(c) == call[c].phase # "idle" /\ call[c].probe

\* At most one call is the half-open probe at any time, from its admission to
\* the moment its slot is given back, whatever late outcomes of earlier calls
\* did to the breaker in between (circuit_breaker.py:57-61).
ProbeSingleFlight ==
    /\ \A c, d \in Calls : HoldsProbe(c) /\ HoldsProbe(d) => c = d
    /\ \A c \in Calls : HoldsProbe(c) => probeInFlight

\* The stored state and the counters agree: an open breaker has reached the
\* failure threshold, a closed one is below it with no half-open successes
\* left over from an earlier recovery (circuit_breaker.py:86-106).
CountersMatchState ==
    /\ rawState = "open" => failureCount >= FailureThreshold
    /\ rawState = "closed" => failureCount < FailureThreshold /\ successCount = 0

\* An open breaker closes only after its recovery timeout, and on the
\* SuccessThreshold-th success recorded half-open since its last failure:
\* neither a late success of a call admitted before it opened counts, nor one
\* of a recovery that a failure cut short (circuit_breaker.py:86-106).
NoEarlyClose ==
    [][rawState = "open" /\ rawState' = "closed"
         => sinceFailure >= RecoveryTimeout /\ recovered' = SuccessThreshold]_vars

\* The probe slot is taken only while a call that holds it is in flight, so a
\* half-open breaker can always admit its next probe (proxy.py:1248-1250).
ProbeSlotHasHolder == probeInFlight => \E c \in Calls : HoldsProbe(c)

\* A probe slot taken by an HTTP call is eventually given back, whatever the
\* breaker has become meanwhile (proxy.py:219-264).
HttpProbeFreed ==
    (\E c \in Calls : HoldsProbe(c) /\ call[c].kind = "http") ~> ~probeInFlight
=============================================================================
