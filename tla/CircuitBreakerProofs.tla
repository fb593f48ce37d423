------------------------ MODULE CircuitBreakerProofs ------------------------
(***************************************************************************)
(* Proofs about CircuitBreaker for any callers, any threshold and any      *)
(* cool-down.                                                              *)
(*                                                                         *)
(* The invariant is the conjunction of what is to be shown: a failing call *)
(* in a closed circuit either trips it or leaves it below its threshold,   *)
(* and every settling call, a probe or not, leaves the half-open state and *)
(* takes the flag down.                                                    *)
(***************************************************************************)
EXTENDS CircuitBreaker, TLAPS

-----------------------------------------------------------------------------
\* The inductive invariant.

IInv == TypeOK /\ ClosedBelowThreshold /\ HalfOpenIsProbed

\* The initial circuit is closed with no failure counted.
LEMMA InitInvariant == Init => IInv
<1> SUFFICES ASSUME Init PROVE IInv
  OBVIOUS
<1>1. halfOpenProbeInFlight \in BOOLEAN
  BY DEF Init
<1>2. consecutiveFailures \in 0..Threshold /\ sinceOpened \in 0..CoolDown
  BY ThresholdAssumption, CoolDownAssumption DEF Init
<1>3. /\ state \in {"closed", "open", "half-open"}
      /\ call \in [Calls -> CallStates]
  BY DEF Init, CallStates
<1>4. ClosedBelowThreshold /\ HalfOpenIsProbed
  BY ThresholdAssumption, CoolDownAssumption
  DEF Init, ClosedBelowThreshold, HalfOpenIsProbed
<1> QED BY <1>1, <1>2, <1>3, <1>4 DEF IInv, TypeOK

\* Admission: no step of exec() before its await disturbs the invariant.
LEMMA ExecPreserves ==
  ASSUME IInv, NEW c \in Calls, Exec(c)
  PROVE  IInv'
<1>1. CASE Refuse(c)
  <2>1. TypeOK'
    BY <1>1 DEF Refuse, IInv, TypeOK, CallStates
  <2>2. ClosedBelowThreshold'
    BY <1>1 DEF Refuse, IInv, ClosedBelowThreshold
  <2>3. HalfOpenIsProbed'
    BY <1>1
    DEF Refuse, IInv, TypeOK, HalfOpenIsProbed,
        InFlight
  <2> QED BY <2>1, <2>2, <2>3 DEF IInv
<1>2. CASE AdmitClosed(c)
  <2>1. TypeOK'
    BY <1>2 DEF AdmitClosed, IInv, TypeOK, CallStates
  <2>2. ClosedBelowThreshold' /\ HalfOpenIsProbed'
    BY <1>2
    DEF AdmitClosed, IInv, ClosedBelowThreshold,
        HalfOpenIsProbed
  <2> QED BY <2>1, <2>2 DEF IInv
<1>3. CASE AdmitProbe(c)
  <2>1. halfOpenProbeInFlight' \in BOOLEAN
    BY <1>3, Zenon DEF AdmitProbe
  <2>2. /\ state' \in {"closed", "open", "half-open"}
        /\ consecutiveFailures' \in 0..Threshold
        /\ sinceOpened' \in 0..CoolDown
        /\ call' \in [Calls -> CallStates]
    BY <1>3 DEF AdmitProbe, IInv, TypeOK, CallStates
  <2>3. ClosedBelowThreshold'
    BY <1>3 DEF AdmitProbe, ClosedBelowThreshold
  <2>4. call'[c] = "probe"
    BY <1>3 DEF AdmitProbe, IInv, TypeOK
  <2>5. HalfOpenIsProbed'
    BY <1>3, <2>4, Zenon DEF AdmitProbe, HalfOpenIsProbed
  <2> QED BY <2>1, <2>2, <2>3, <2>5 DEF IInv, TypeOK
<1> QED BY <1>1, <1>2, <1>3 DEF Exec

\* Settlement: whichever call settles, and however, it leaves the circuit
\* closed or open, never half-open, with the flag down.
LEMMA SettlePreserves ==
  ASSUME IInv, NEW c \in Calls, Settle(c)
  PROVE  IInv'
<1>1. state' \in {"closed", "open"}
  BY
  DEF Settle, Succeed, Abort, Fail, Trips,
      IInv, TypeOK
<1>2. halfOpenProbeInFlight' = FALSE
  BY DEF Settle, Succeed, Abort, Fail
<1>3. halfOpenProbeInFlight' \in BOOLEAN /\ HalfOpenIsProbed'
  <2>1. state' # "half-open"
    BY <1>1
  <2> QED BY <1>2, <2>1, Zenon DEF HalfOpenIsProbed
<1>4. FailuresAfter \in 0..Threshold
  BY ThresholdAssumption, CoolDownAssumption DEF FailuresAfter, IInv, TypeOK
<1>5. /\ consecutiveFailures' \in 0..Threshold
      /\ sinceOpened' \in 0..CoolDown
      /\ call' \in [Calls -> CallStates]
  BY <1>4, ThresholdAssumption, CoolDownAssumption
  DEF Settle, Succeed, Abort, Fail, IInv,
      TypeOK, CallStates
<1>6. ClosedBelowThreshold'
  <2>1. CASE Succeed(c)
    BY <2>1, ThresholdAssumption, CoolDownAssumption DEF Succeed, ClosedBelowThreshold
  <2>2. CASE Abort(c)
    BY <2>2 DEF Abort, IInv, ClosedBelowThreshold
  <2>3. CASE Fail(c)
    BY <2>3, <1>4, ThresholdAssumption, CoolDownAssumption
    DEF Fail, Trips, ClosedBelowThreshold
  <2> QED BY <2>1, <2>2, <2>3 DEF Settle
<1> QED BY <1>1, <1>3, <1>5, <1>6 DEF IInv, TypeOK

\* Every step of the breaker preserves the invariant.
LEMMA StepInvariant == IInv /\ [Next]_vars => IInv'
<1> SUFFICES ASSUME IInv, [Next]_vars PROVE IInv'
  OBVIOUS
<1>1. CASE Tick
  <2>1. TypeOK'
    BY <1>1, ThresholdAssumption, CoolDownAssumption DEF Tick, IInv, TypeOK
  <2>2. ClosedBelowThreshold' /\ HalfOpenIsProbed'
    BY <1>1
    DEF Tick, IInv, ClosedBelowThreshold, HalfOpenIsProbed
  <2> QED BY <2>1, <2>2 DEF IInv
<1>2. ASSUME NEW c \in Calls, Exec(c) \/ Settle(c) PROVE IInv'
  BY <1>2, ExecPreserves, SettlePreserves
<1>3. CASE UNCHANGED vars
  BY <1>3
  DEF vars, IInv, TypeOK, ClosedBelowThreshold,
      HalfOpenIsProbed
<1> QED BY <1>1, <1>2, <1>3 DEF Next

\* The inductive invariant of the breaker.
THEOREM Invariant == Spec => []IInv
  BY InitInvariant, StepInvariant, PTL DEF Spec

\* The types of the breaker's fields, and the saturation of its two counters.
THEOREM TypeCorrect == Spec => []TypeOK
  BY Invariant, PTL DEF IInv

\* However calls interleave, a closed circuit is below its threshold.
THEOREM ClosedCircuitBelowThreshold == Spec => []ClosedBelowThreshold
  BY Invariant, PTL DEF IInv

\* The flag is the half-open state, and a half-open circuit has a probe that
\* will move it on.
THEOREM HalfOpenNeverStuck == Spec => []HalfOpenIsProbed
  BY Invariant, PTL DEF IInv

\* While the circuit cools down nobody is admitted or prolongs it, and only a
\* call that was already in flight can close it or change its count.
THEOREM CoolDownIsHeld == Spec => CoolDownHolds
<1> DEFINE Held ==
      CoolingDown =>
        \/ \E c \in Calls : InFlight(c) /\ ~InFlight(c)'
        \/ /\ state' = "open"
           /\ consecutiveFailures' = consecutiveFailures
           /\ sinceOpened <= sinceOpened'
           /\ \A c \in Calls : InFlight(c)' => InFlight(c)
<1>1. ASSUME IInv, [Next]_vars PROVE [Held]_vars
  <2> SUFFICES ASSUME CoolingDown, ~UNCHANGED vars PROVE Held
    OBVIOUS
  <2> USE DEF CoolingDown, InFlight
  <2>1. CASE Tick
    BY <1>1, <2>1, ThresholdAssumption, CoolDownAssumption DEF Tick, IInv, TypeOK
  <2>2. ASSUME NEW c \in Calls, Exec(c) PROVE Held
    BY <1>1, <2>2, ThresholdAssumption, CoolDownAssumption
    DEF Exec, Refuse, AdmitClosed, AdmitProbe,
        MayProbe, IInv, TypeOK, CallStates
  <2>3. ASSUME NEW c \in Calls, Settle(c) PROVE Held
    <3>1. InFlight(c) /\ ~InFlight(c)'
      BY <1>1, <2>3
      DEF Settle, Succeed, Abort, Fail, IInv,
          TypeOK
    <3> QED BY <3>1
  <2> QED BY <1>1, <2>1, <2>2, <2>3 DEF Next
<1> QED BY <1>1, Invariant, PTL DEF Spec, CoolDownHolds
=============================================================================
