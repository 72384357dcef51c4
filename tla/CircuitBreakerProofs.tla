------------------------ MODULE CircuitBreakerProofs ------------------------
(***************************************************************************)
(* Proofs about CircuitBreaker for any number of calls and any thresholds. *)
(***************************************************************************)
EXTENDS CircuitBreaker, TLAPS

USE KindsAssumption, ThresholdAssumption

\* While the breaker is open, the successes it counts are those recorded
\* half-open since its last failure.
RecoveryCounted == rawState = "open" => recovered = successCount

\* What a recorded outcome does to the breaker's own variables: types and the
\* agreement of counters and state survive it (circuit_breaker.py:86-106).
LEMMA OutcomeSafe ==
    ASSUME TypeOK, CountersMatchState, RecoveryCounted, RecordOutcome
    PROVE  /\ rawState' \in {"closed", "open"}
           /\ failureCount' \in 0..FailureThreshold
           /\ successCount' \in 0..(SuccessThreshold - 1)
           /\ sinceFailure' \in 0..RecoveryTimeout
           /\ rawState' = "open" => failureCount' >= FailureThreshold
           /\ rawState' = "closed" => failureCount' < FailureThreshold /\ successCount' = 0
           /\ recovered' \in 0..SuccessThreshold
           /\ rawState' = "open" => recovered' = successCount'
           /\ rawState = "open" /\ rawState' = "closed"
                => sinceFailure >= RecoveryTimeout /\ recovered' = SuccessThreshold
<1> USE DEF TypeOK, CountersMatchState, RecoveryCounted
<1>1. CASE Succeed
  BY <1>1 DEF Succeed, RecordSuccess, State, breaker
<1>2. CASE Fail
  BY <1>2 DEF Fail, RecordFailure
<1>3. CASE Pass
  BY <1>3 DEF Pass, RecordNothing, breaker
<1>4. QED
  BY <1>1, <1>2, <1>3 DEF RecordOutcome

\* The inductive invariant of the breaker.
IInv == TypeOK /\ CountersMatchState /\ RecoveryCounted /\ ProbeSingleFlight

LEMMA InitSafe == Init => IInv
<1> SUFFICES ASSUME Init PROVE IInv
  OBVIOUS
<1>1. TypeOK
  <2>1. Idle \in [phase : Phases, kind : {"http", "ws"}, probe : BOOLEAN]
    BY DEF Idle, Phases
  <2>2. call \in [Calls -> [phase : Phases, kind : {"http", "ws"}, probe : BOOLEAN]]
    BY <2>1 DEF Init
  <2>3. /\ failureCount \in 0..FailureThreshold
        /\ successCount \in 0..(SuccessThreshold - 1)
        /\ sinceFailure \in 0..RecoveryTimeout
        /\ recovered \in 0..SuccessThreshold
    BY DEF Init
  <2>4. QED
    BY <2>2, <2>3 DEF Init, TypeOK
<1>2. CountersMatchState /\ RecoveryCounted
  BY DEF Init, CountersMatchState, RecoveryCounted
<1>3. ProbeSingleFlight
  BY DEF Init, ProbeSingleFlight, HoldsProbe, Idle
<1>4. QED
  BY <1>1, <1>2, <1>3 DEF IInv

\* A step of the calls preserves the invariant; one step per action.
LEMMA StepSafe == IInv /\ [Next]_vars => IInv'
<1> SUFFICES ASSUME IInv, [Next]_vars PROVE IInv'
  OBVIOUS
<1> USE DEF IInv
<1>1. ASSUME NEW c \in Calls, NEW kind \in Kinds, PreCallCheck(c, kind)
      PROVE  IInv'
  <2>1. TypeOK' /\ CountersMatchState' /\ RecoveryCounted'
    BY <1>1 DEF PreCallCheck, TypeOK, CountersMatchState, RecoveryCounted, Phases, breaker, State
  <2>2. ProbeSingleFlight'
    BY <1>1 DEF PreCallCheck, TypeOK, ProbeSingleFlight, HoldsProbe, Phases, State
  <2>3. QED
    BY <2>1, <2>2
<1>2. ASSUME NEW c \in Calls, FinishHttp(c)
      PROVE  IInv'
  <2>1. TypeOK' /\ CountersMatchState' /\ RecoveryCounted'
    BY <1>2, OutcomeSafe DEF FinishHttp, SetPhase, TypeOK, CountersMatchState, RecoveryCounted, Phases, breaker
  <2>2. ProbeSingleFlight'
    BY <1>2 DEF FinishHttp, SetPhase, TypeOK, ProbeSingleFlight, HoldsProbe, Phases
  <2>3. QED
    BY <2>1, <2>2
<1>3. ASSUME NEW c \in Calls, HandshakeSucceeds(c)
      PROVE  IInv'
  BY <1>3 DEF HandshakeSucceeds, SetPhase, TypeOK, CountersMatchState, RecoveryCounted, breaker,
              ProbeSingleFlight, HoldsProbe, Phases
<1>4. ASSUME NEW c \in Calls, HandshakeFails(c)
      PROVE  IInv'
  <2>1. TypeOK' /\ CountersMatchState' /\ RecoveryCounted'
    BY <1>4, OutcomeSafe DEF HandshakeFails, Idle, TypeOK, CountersMatchState, RecoveryCounted, Phases, breaker
  <2>2. ProbeSingleFlight'
    BY <1>4 DEF HandshakeFails, Idle, TypeOK, ProbeSingleFlight, HoldsProbe, Phases
  <2>3. QED
    BY <2>1, <2>2
<1>5. ASSUME NEW c \in Calls, StreamTerminal(c)
      PROVE  IInv'
  <2>1. RecordOutcome
    BY <1>5 DEF StreamTerminal, RecordOutcome
  <2>2. TypeOK' /\ CountersMatchState' /\ RecoveryCounted'
    BY <1>5, <2>1, OutcomeSafe DEF StreamTerminal, SetPhase, TypeOK, CountersMatchState, RecoveryCounted, Phases, breaker
  <2>3. ProbeSingleFlight'
    BY <1>5 DEF StreamTerminal, SetPhase, TypeOK, ProbeSingleFlight, HoldsProbe, Phases
  <2>4. QED
    BY <2>2, <2>3
<1>6. ASSUME NEW c \in Calls, StreamBreaks(c)
      PROVE  IInv'
  <2>1. RecordOutcome
    BY <1>6 DEF StreamBreaks, RecordOutcome
  <2>2. TypeOK' /\ CountersMatchState' /\ RecoveryCounted'
    BY <1>6, <2>1, OutcomeSafe DEF StreamBreaks, SetPhase, TypeOK, CountersMatchState, RecoveryCounted, Phases, breaker
  <2>3. ProbeSingleFlight'
    BY <1>6 DEF StreamBreaks, SetPhase, TypeOK, ProbeSingleFlight, HoldsProbe, Phases
  <2>4. QED
    BY <2>2, <2>3
<1>7. ASSUME NEW c \in Calls, StreamEnds(c)
      PROVE  IInv'
  BY <1>7 DEF StreamEnds, SetPhase, TypeOK, CountersMatchState, RecoveryCounted, breaker,
              ProbeSingleFlight, HoldsProbe, Phases
<1>8. ASSUME NEW c \in Calls, ReleaseHalfOpenProbe(c)
      PROVE  IInv'
  <2>1. TypeOK' /\ CountersMatchState' /\ RecoveryCounted'
    BY <1>8 DEF ReleaseHalfOpenProbe, Idle, TypeOK, CountersMatchState, RecoveryCounted, Phases, breaker
  <2>2. ProbeSingleFlight'
    BY <1>8 DEF ReleaseHalfOpenProbe, Idle, TypeOK, ProbeSingleFlight, HoldsProbe, Phases
  <2>3. QED
    BY <2>1, <2>2
<1>9. CASE Tick
  BY <1>9 DEF Tick, TypeOK, CountersMatchState, RecoveryCounted, ProbeSingleFlight, HoldsProbe
<1>10. CASE UNCHANGED vars
  BY <1>10 DEF vars, breaker, TypeOK, CountersMatchState, RecoveryCounted, ProbeSingleFlight, HoldsProbe
<1>11. QED
  BY <1>1, <1>2, <1>3, <1>4, <1>5, <1>6, <1>7, <1>8, <1>9, <1>10 DEF Next, Step

\* The breaker never loses the agreement of its counters with its state, and
\* never has two half-open probes in flight, for any set of concurrent calls
\* (circuit_breaker.py:52-106).
THEOREM BreakerSafe == Spec => [](TypeOK /\ CountersMatchState /\ ProbeSingleFlight)
<1>1. Spec => []IInv
  BY InitSafe, StepSafe, PTL DEF Spec
<1>2. QED
  BY <1>1, PTL DEF IInv

\* A step that closes the breaker comes after the recovery timeout and records
\* the SuccessThreshold-th success since the last failure, whatever successes
\* late calls and cut-short recoveries recorded (circuit_breaker.py:86-106).
THEOREM BreakerNoEarlyClose == Spec => NoEarlyClose
<1>1. IInv /\ [Next]_vars
        => [rawState = "open" /\ rawState' = "closed"
              => sinceFailure >= RecoveryTimeout /\ recovered' = SuccessThreshold]_vars
  <2> SUFFICES ASSUME IInv, Next, rawState = "open", rawState' = "closed"
               PROVE  sinceFailure >= RecoveryTimeout /\ recovered' = SuccessThreshold
    BY DEF vars
  <2>1. RecordOutcome
    BY DEF Next, Step, PreCallCheck, FinishHttp, HandshakeSucceeds, HandshakeFails,
           StreamTerminal, StreamBreaks, StreamEnds, ReleaseHalfOpenProbe, Tick,
           RecordOutcome, breaker
  <2>2. QED
    BY <2>1, OutcomeSafe DEF IInv
<1>2. Spec => []IInv
  BY InitSafe, StepSafe, PTL DEF Spec
<1>3. QED
  BY <1>1, <1>2, PTL DEF Spec, NoEarlyClose
=============================================================================
