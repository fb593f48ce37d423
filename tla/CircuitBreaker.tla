--------------------------- MODULE CircuitBreaker ---------------------------
(***************************************************************************)
(* The circuit breaker that the Open-Meteo client puts in front of the     *)
(* provider (src/src/open-meteo/circuit-breaker.ts).  One breaker object   *)
(* is shared by every request of a process, so several calls of exec() are *)
(* in flight at once: each is admitted (or refused) in one synchronous     *)
(* step, awaits fn(), and settles in another synchronous step.  Everything *)
(* interesting happens between those two steps.                            *)
(*                                                                         *)
(* Two quantities are represented by what the code can observe of them,    *)
(* which loses nothing and keeps the state space finite without a bound:   *)
(*   - openedAt, which is only read in now() - openedAt < coolDownMs, by   *)
(*     sinceOpened, that difference saturating at CoolDown (openedAt       *)
(*     starts at 0, decades before now(), hence saturated);                *)
(*   - consecutiveFailures, which is only read in                          *)
(*     consecutiveFailures >= failureThreshold, saturating at Threshold.   *)
(***************************************************************************)
EXTENDS Naturals

CONSTANTS
    Calls,       \* the concurrent callers of exec()
    Threshold,   \* failureThreshold
    CoolDown     \* coolDownMs, in ticks of the clock

ASSUME ThresholdAssumption == Threshold \in Nat \ {0}
ASSUME CoolDownAssumption == CoolDown \in Nat \ {0}

VARIABLES
    state,                  \* "closed", "open" or "half-open"
    consecutiveFailures,    \* saturating at Threshold
    sinceOpened,            \* now() - openedAt, saturating at CoolDown
    halfOpenProbeInFlight,
    call                    \* where each caller is in exec()

vars == <<state, consecutiveFailures, sinceOpened, halfOpenProbeInFlight, call>>

\* A caller is outside exec(), was refused with CircuitOpenError, or awaits
\* fn() having been admitted by a closed circuit ("normal") or as a probe.
CallStates == {"idle", "refused", "normal", "probe"}
InFlight(c) == call[c] \in {"normal", "probe"}

TypeOK ==
    /\ state \in {"closed", "open", "half-open"}
    /\ consecutiveFailures \in 0..Threshold
    /\ sinceOpened \in 0..CoolDown
    /\ halfOpenProbeInFlight \in BOOLEAN
    /\ call \in [Calls -> CallStates]

Init ==
    /\ state = "closed"
    /\ consecutiveFailures = 0
    /\ sinceOpened = CoolDown
    /\ halfOpenProbeInFlight = FALSE
    /\ call = [c \in Calls |-> "idle"]

-----------------------------------------------------------------------------
\* exec(), before the await.

CoolingDown == state = "open" /\ sinceOpened < CoolDown

MayProbe == state # "closed" /\ ~CoolingDown /\ ~halfOpenProbeInFlight

\* Fault: a refusal re-arms the cool-down (openedAt = now()).
RefuseAndRearm(c) ==
    /\ ~InFlight(c)
    /\ state # "closed"
    /\ ~MayProbe
    /\ call' = [call EXCEPT ![c] = "refused"]
    /\ sinceOpened' = 0
    /\ UNCHANGED <<state, consecutiveFailures, halfOpenProbeInFlight>>

\* Neither closed nor ready for a probe: throw CircuitOpenError.
Refuse(c) ==
    /\ ~InFlight(c)
    /\ state # "closed"
    /\ ~MayProbe
    /\ call' = [call EXCEPT ![c] = "refused"]
    /\ UNCHANGED <<state, consecutiveFailures, sinceOpened, halfOpenProbeInFlight>>

AdmitClosed(c) ==
    /\ ~InFlight(c)
    /\ state = "closed"
    /\ call' = [call EXCEPT ![c] = "normal"]
    /\ UNCHANGED <<state, consecutiveFailures, sinceOpened, halfOpenProbeInFlight>>

AdmitProbe(c) ==
    /\ ~InFlight(c)
    /\ MayProbe
    /\ state' = "half-open"
    /\ halfOpenProbeInFlight' = TRUE
    /\ call' = [call EXCEPT ![c] = "probe"]
    /\ UNCHANGED <<consecutiveFailures, sinceOpened>>

Exec(c) == Refuse(c) \/ AdmitClosed(c) \/ AdmitProbe(c)

-----------------------------------------------------------------------------
\* exec(), after the await.  Whatever the circuit has become meanwhile, each
\* settling call writes the shared state.

Succeed(c) ==
    /\ InFlight(c)
    /\ consecutiveFailures' = 0
    /\ state' = "closed"
    /\ halfOpenProbeInFlight' = FALSE
    /\ call' = [call EXCEPT ![c] = "idle"]
    /\ UNCHANGED sinceOpened

\* Fault: an abort leaves the circuit half-open with the flag set.
AbortKeepingProbe(c) ==
    /\ InFlight(c)
    /\ call' = [call EXCEPT ![c] = "idle"]
    /\ UNCHANGED <<state, consecutiveFailures, sinceOpened, halfOpenProbeInFlight>>

\* fn() rejects with an AbortError: the caller's own cancellation.
Abort(c) ==
    /\ InFlight(c)
    /\ halfOpenProbeInFlight' = FALSE
    /\ state' = IF state = "half-open" THEN "open" ELSE state
    /\ call' = [call EXCEPT ![c] = "idle"]
    /\ UNCHANGED <<consecutiveFailures, sinceOpened>>

\* fn() rejects with anything else.
FailuresAfter ==
    IF consecutiveFailures < Threshold
    THEN consecutiveFailures + 1 ELSE consecutiveFailures

\* Fault: the threshold is compared with the count before this failure.
TripsOneLate == state = "half-open" \/ consecutiveFailures >= Threshold

Trips == state = "half-open" \/ FailuresAfter >= Threshold

Fail(c) ==
    /\ InFlight(c)
    /\ consecutiveFailures' = FailuresAfter
    /\ state' = IF Trips THEN "open" ELSE state
    /\ sinceOpened' = IF Trips THEN 0 ELSE sinceOpened
    /\ halfOpenProbeInFlight' = FALSE
    /\ call' = [call EXCEPT ![c] = "idle"]

Settle(c) == Succeed(c) \/ Abort(c) \/ Fail(c)

\* The clock the breaker reads advances.
Tick ==
    /\ sinceOpened < CoolDown
    /\ sinceOpened' = sinceOpened + 1
    /\ UNCHANGED <<state, consecutiveFailures, halfOpenProbeInFlight, call>>

Next == Tick \/ \E c \in Calls : Exec(c) \/ Settle(c)

Spec == Init /\ [][Next]_vars

(***************************************************************************)
(* Time passes, and every admitted call settles: fn() is a bounded number  *)
(* of attempts, each under an abort timeout (client.ts:311-335).  Nothing  *)
(* forces callers to arrive.                                               *)
(***************************************************************************)
Fairness == WF_vars(Tick) /\ \A c \in Calls : WF_vars(Settle(c))
FairSpec == Spec /\ Fairness

-----------------------------------------------------------------------------
\* Safety

\* A closed circuit has always fewer than failureThreshold consecutive
\* failures, whichever order the calls in flight settle in: no interleaving
\* leaves a circuit closed that exec's catch block should have tripped.
ClosedBelowThreshold == state = "closed" => consecutiveFailures < Threshold

\* The probe flag is raised exactly while the circuit is half-open, so no call
\* that has settled leaves it set (lines 62, 67 and 82 clear it on every way
\* out), and a half-open circuit, which refuses everybody, always has a probe
\* still awaiting fn(): it cannot be stuck with nobody left to move it.  Lines
\* 47 and 54-56 are therefore unreachable.
HalfOpenIsProbed ==
    /\ halfOpenProbeInFlight <=> state = "half-open"
    /\ state = "half-open" => \E c \in Calls : call[c] = "probe"

\* "Ensures only one concurrent half-open probe after cool-down"
\* (circuit-breaker.ts:29).
SingleProbe ==
    \A c, d \in Calls : call[c] = "probe" /\ call[d] = "probe" => c = d

\* While the circuit cools down, only the settling of a call that was already
\* in flight may change its verdict or start the cool-down again: callers that
\* arrive (and time) leave it open with the same count, none of them gets
\* through to the provider, and none of them prolongs the cool-down.
CoolDownHolds ==
    [][ CoolingDown =>
        \/ \E c \in Calls : InFlight(c) /\ ~InFlight(c)'
        \/ /\ state' = "open"
           /\ consecutiveFailures' = consecutiveFailures
           /\ sinceOpened <= sinceOpened'
           /\ \A c \in Calls : InFlight(c)' => InFlight(c)
      ]_vars

-----------------------------------------------------------------------------
\* Liveness

\* Once the provider answers every call, and as long as callers keep coming,
\* the circuit closes for good, whatever mess the failures before left behind.
Recovery ==
    (/\ <>[][\A c \in Calls : ~Fail(c) /\ ~Abort(c)]_vars
     /\ \A c \in Calls : WF_vars(Exec(c)))
    => <>[](state = "closed")
=============================================================================
