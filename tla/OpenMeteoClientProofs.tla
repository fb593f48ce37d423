----------------------- MODULE OpenMeteoClientProofs -----------------------
(***************************************************************************)
(* Proofs about the client for any callers, attempts, time-outs, threshold *)
(* and cool-down: it implements the specification of its circuit breaker   *)
(* (UsesBreaker), about which CircuitBreakerProofs has more to say, and    *)
(* has the properties of its runs.                                         *)
(*                                                                         *)
(* The client's invariant says three things:                               *)
(*   Sound           of a call: its requests are within its deadline,      *)
(*                   pauses may outlast it by their own length, and only a *)
(*                   signal that the caller fires by hand gives an         *)
(*                   AbortError;                                           *)
(*   AdmittedBefore  of the calls and the breaker: while it cools down, a  *)
(*                   call that is still going is older than the opening;   *)
(*   ProbedInTime    of the breaker: a half-open circuit that opens again  *)
(*                   without a failure has its cool-down behind it.        *)
(***************************************************************************)
EXTENDS OpenMeteoClient, TLAPS

-----------------------------------------------------------------------------
\* The breaker's types.

LEMMA BreakerInit == Breaker!Init => Breaker!TypeOK
<1> SUFFICES ASSUME Breaker!Init PROVE Breaker!TypeOK
  OBVIOUS
<1>1. halfOpenProbeInFlight \in BOOLEAN
  BY DEF Breaker!Init
<1>2. consecutiveFailures \in 0..Threshold /\ sinceOpened \in 0..CoolDown
  BY BreakerAssumption DEF Breaker!Init
<1>3. /\ state \in {"closed", "open", "half-open"}
      /\ call \in [Calls \cup Others -> Breaker!CallStates]
  BY DEF Breaker!Init, Breaker!CallStates
<1> QED BY <1>1, <1>2, <1>3 DEF Breaker!TypeOK

LEMMA BreakerStep ==
  Breaker!TypeOK /\ [Breaker!Next]_(Breaker!vars) => Breaker!TypeOK'
<1> SUFFICES ASSUME Breaker!TypeOK, [Breaker!Next]_(Breaker!vars) PROVE Breaker!TypeOK'
  OBVIOUS
<1>1. CASE Breaker!Tick
  BY <1>1, BreakerAssumption DEF Breaker!Tick, Breaker!TypeOK
<1>2. ASSUME NEW c \in Calls \cup Others, Breaker!Exec(c) PROVE Breaker!TypeOK'
  <2>1. CASE Breaker!Refuse(c) \/ Breaker!AdmitClosed(c)
    BY <2>1
    DEF Breaker!Refuse, Breaker!AdmitClosed, Breaker!TypeOK, Breaker!CallStates
  <2>2. CASE Breaker!AdmitProbe(c)
    <3>1. halfOpenProbeInFlight' \in BOOLEAN
      BY <2>2, Zenon DEF Breaker!AdmitProbe
    <3>2. /\ state' \in {"closed", "open", "half-open"}
          /\ consecutiveFailures' \in 0..Threshold
          /\ sinceOpened' \in 0..CoolDown
          /\ call' \in [Calls \cup Others -> Breaker!CallStates]
      BY <2>2 DEF Breaker!AdmitProbe, Breaker!TypeOK, Breaker!CallStates
    <3> QED BY <3>1, <3>2 DEF Breaker!TypeOK
  <2> QED BY <1>2, <2>1, <2>2 DEF Breaker!Exec
<1>3. ASSUME NEW c \in Calls \cup Others, Breaker!Settle(c) PROVE Breaker!TypeOK'
  <2> USE <1>3
  <2>1. state' \in {"closed", "open", "half-open"}
    BY
    DEF Breaker!Settle, Breaker!Succeed, Breaker!Abort, Breaker!Fail, Breaker!Trips,
        Breaker!TypeOK
  <2>2. halfOpenProbeInFlight' \in BOOLEAN
    BY DEF Breaker!Settle, Breaker!Succeed, Breaker!Abort, Breaker!Fail
  <2>3. Breaker!FailuresAfter \in 0..Threshold
    BY BreakerAssumption DEF Breaker!FailuresAfter, Breaker!TypeOK
  <2>4. /\ consecutiveFailures' \in 0..Threshold
        /\ sinceOpened' \in 0..CoolDown
        /\ call' \in [Calls \cup Others -> Breaker!CallStates]
    BY <2>3, BreakerAssumption
    DEF Breaker!Settle, Breaker!Succeed, Breaker!Abort, Breaker!Fail, Breaker!TypeOK,
        Breaker!CallStates
  <2> QED BY <2>1, <2>2, <2>4 DEF Breaker!TypeOK
<1>4. CASE UNCHANGED Breaker!vars
  BY <1>4 DEF Breaker!vars, Breaker!TypeOK
<1> QED BY <1>1, <1>2, <1>3, <1>4 DEF Breaker!Next

-----------------------------------------------------------------------------
\* The invariant of the client: what is true of a call in progress.

DeadlineOf(f) == IF f.signal = "caller" THEN CallerTimeout ELSE Timeout
Going(f) == \E k \in Kinds : f.request[k].pc \notin Settled

\* What a request may be, given the call it belongs to.
Allowed(f, r) ==
  /\ r.pc \in {"fetch", "errorBody"} => f.age <= DeadlineOf(f)
  /\ r.pc = "pause" => r.attempt < MaxAttempts
                       /\ f.age + r.pause <= DeadlineOf(f) + MaxPause
  /\ r.pc = "AbortError" => f.signal = "manual"

Sound(f) ==
  /\ \A k \in Kinds : Allowed(f, f.request[k])
  /\ f.fired = "no" /\ Going(f) => f.age <= DeadlineOf(f)
  /\ f.fired = "AbortError" => f.signal = "manual"

FlightInv ==
  /\ flight \in [Calls -> Flight]
  /\ \A c \in Calls : Sound(flight[c])

\* While the circuit cools down, whoever is still going was admitted before it opened.
AdmittedBefore ==
  Breaker!CoolingDown =>
    \A c \in Calls : Going(flight[c]) => flight[c].age >= sinceOpened

\* Only a circuit whose cool-down is over becomes half-open.
ProbedInTime == state = "half-open" => sinceOpened = CoolDown

ClientInv ==
  /\ Breaker!TypeOK
  /\ operation \in {"fetchForecast", "geocode"}
  /\ FlightInv
  /\ ProbedInTime
  /\ AdmittedBefore

\* Nobody begins anything in this step.
NobodyNew ==
  \A c \in Calls : Going(flight'[c]) => Going(flight[c]) /\ flight'[c].age = flight[c].age

-----------------------------------------------------------------------------
\* Calls and requests as records.

LEMMA Numbers ==
  /\ MaxAttempts \in Nat /\ MaxAttempts > 0
  /\ Timeout \in Nat /\ CallerTimeout \in Nat /\ CallerTimeout <= Timeout
  /\ MaxPause \in Nat /\ MaxPause > 0
  /\ MaxAge \in Nat /\ MaxAge = Timeout + MaxPause + 1
  BY MaxAttemptsAssumption, TimeoutsAssumption, MaxPauseAssumption DEF MaxAge

LEMMA Deadlines ==
  ASSUME NEW f PROVE DeadlineOf(f) \in Nat /\ DeadlineOf(f) <= Timeout
  BY Numbers DEF DeadlineOf

LEMMA ResultTypes ==
  ASSUME NEW pc \in Settled
  PROVE  Result(pc) \in Request /\ Result(pc).pc = pc
  BY Numbers DEF Result, Request

LEMMA EndedIsSound ==
  ASSUME NEW phase \in {"idle", "exec", "done", "rejected"}
  PROVE  Ended(phase) \in Flight /\ Sound(Ended(phase)) /\ ~Going(Ended(phase))
<1>1. Ended(phase) \in Flight
  BY Numbers, ResultTypes DEF Ended, Flight, Signals, Settled
<1>2. \A k \in Kinds : Ended(phase).request[k] = Result("none")
  BY DEF Ended
<1>3. Ended(phase).fired = "no"
  BY DEF Ended
<1> QED BY <1>1, <1>2, <1>3, ResultTypes DEF Sound, Allowed, Going, Settled

\* What becomes of a call is either what the handler made of it or its end.
LEMMA BecomesSound ==
  ASSUME FlightInv, NEW c \in Calls, NEW f \in Flight, Sound(f), Becomes(c, f)
  PROVE  /\ FlightInv'
         /\ \A d \in Calls \ {c} : flight'[d] = flight[d]
         /\ Going(flight'[c]) => flight'[c] = f
<1>1. CASE f.phase \in {"exec", "marine"} \/ Going(f)
  <2>1. flight' = [flight EXCEPT ![c] = f]
    BY <1>1 DEF Becomes, Going
  <2> QED BY <2>1 DEF FlightInv
<1>2. CASE ~(f.phase \in {"exec", "marine"} \/ Going(f))
  <2>1. flight' = [flight EXCEPT ![c] = Ended(f.phase)]
    BY <1>2 DEF Becomes, Going
  <2>2. f.phase \in {"idle", "done", "rejected"}
    BY <1>2 DEF Flight
  <2> QED BY <2>1, <2>2, EndedIsSound DEF FlightInv
<1> QED BY <1>1, <1>2

\* A request of a sound call may be replaced by one that is allowed.
LEMMA RequestSound ==
  ASSUME NEW f \in Flight, Sound(f), NEW k \in Kinds, NEW r \in Request,
         Allowed(f, r), f.request[k].pc \notin Settled
  PROVE  /\ [f EXCEPT !.request[k] = r] \in Flight
         /\ Sound([f EXCEPT !.request[k] = r])
<1> DEFINE g == [f EXCEPT !.request[k] = r]
<1>1. g \in Flight
  BY DEF Flight
<1>2. /\ g.age = f.age /\ g.fired = f.fired /\ g.signal = f.signal
      /\ g.request = [f.request EXCEPT ![k] = r]
  BY DEF Flight
<1>3. Going(f)
  BY DEF Going
<1>4. \A j \in Kinds : g.request[j] = IF j = k THEN r ELSE f.request[j]
  BY <1>2 DEF Flight
<1>5. DeadlineOf(g) = DeadlineOf(f)
  BY <1>2 DEF DeadlineOf
<1>6. \A j \in Kinds : Allowed(g, g.request[j])
  BY <1>2, <1>4, <1>5 DEF Sound, Allowed
<1>7. g.fired = "no" /\ Going(g) => g.age <= DeadlineOf(g)
  BY <1>2, <1>3, <1>5 DEF Sound
<1> HIDE DEF g
<1> QED BY <1>1, <1>2, <1>6, <1>7 DEF Sound, g

LEMMA RequestStep ==
  ASSUME FlightInv, NEW c \in Calls, NEW k \in Kinds, NEW r \in Request,
         Pc(c, k) \notin Settled, Allowed(flight[c], r), RequestBecomes(c, k, r)
  PROVE  FlightInv' /\ NobodyNew /\ UNCHANGED breaker
<1> DEFINE g == [flight[c] EXCEPT !.request[k] = r]
<1>1. flight[c] \in Flight /\ Sound(flight[c])
  BY DEF FlightInv
<1>2. g \in Flight /\ Sound(g)
  BY <1>1, RequestSound DEF Pc
<1>3. Becomes(c, g) /\ UNCHANGED breaker
  BY DEF RequestBecomes
<1>4. g.age = flight[c].age /\ Going(flight[c])
  BY <1>1 DEF Flight, Pc, Going
<1> HIDE DEF g
<1> QED BY <1>2, <1>3, <1>4, BecomesSound DEF NobodyNew

-----------------------------------------------------------------------------
\* The steps of a call.

\* A pause begins before the deadline and is no longer than MaxPause.
LEMMA RetryStep ==
  ASSUME FlightInv, NEW c \in Calls, NEW k \in Kinds,
         Pc(c, k) \in {"fetch", "errorBody"}, Retry(c, k)
  PROVE  FlightInv' /\ NobodyNew /\ UNCHANGED breaker
<1> DEFINE r == flight[c].request[k]
<1>1. r \in Request /\ flight[c].age \in Nat
  BY Numbers DEF FlightInv, Flight
<1>2. flight[c].age <= DeadlineOf(flight[c])
  BY DEF FlightInv, Sound, Allowed, Pc
<1>3. Pc(c, k) \notin Settled
  BY DEF Settled, Reasons
<1>4. ASSUME NEW p \in 1..MaxPause, ~IsLastAttempt(r.attempt),
             RequestBecomes(c, k, [r EXCEPT !.pc = "pause", !.pause = p])
      PROVE  FlightInv' /\ NobodyNew /\ UNCHANGED breaker
  <2> DEFINE s == [r EXCEPT !.pc = "pause", !.pause = p]
  <2>1. s \in Request /\ s.pc = "pause" /\ s.pause = p /\ s.attempt = r.attempt
    <3>1. p \in 0..MaxPause
      BY Numbers
    <3> HIDE DEF r
    <3> QED BY <1>1, <3>1 DEF Request
  <2>2. s.attempt < MaxAttempts
    BY <2>1, <1>1, <1>4, Numbers DEF IsLastAttempt, Request
  <2>3. Allowed(flight[c], s)
    BY <2>1, <2>2, <1>1, <1>2, Deadlines, Numbers DEF Allowed
  <2> HIDE DEF s
  <2>4. RequestBecomes(c, k, s)
    BY <1>4 DEF s
  <2> QED BY <2>1, <2>3, <2>4, <1>3, RequestStep
<1>5. CASE RequestBecomes(c, k, Result("failed"))
  BY <1>3, <1>5, ResultTypes, RequestStep DEF Settled, Allowed
<1> QED BY <1>4, <1>5 DEF Retry

\* The error of an aborted request names what has fired.
LEMMA RethrowStep ==
  ASSUME FlightInv, NEW c \in Calls, NEW k \in Kinds,
         Pc(c, k) \notin Settled, Fired(c), Rethrow(c, k)
  PROVE  FlightInv' /\ NobodyNew /\ UNCHANGED breaker
<1>1. flight[c].fired \in Reasons /\ Sound(flight[c])
  BY DEF FlightInv, Flight, Fired
<1>2. flight[c].fired \in Settled
  BY <1>1 DEF Settled
<1>3. Allowed(flight[c], Result(flight[c].fired))
  BY <1>1, <1>2, ResultTypes DEF Allowed, Sound, Reasons
<1> QED BY <1>2, <1>3, ResultTypes, RequestStep DEF Rethrow

LEMMA RequestActions ==
  ASSUME FlightInv, NEW c \in Calls, NEW k \in Kinds,
         \/ Answer(c, k) \/ ErrorResponse(c, k) \/ FetchRejects(c, k)
         \/ ErrorRead(c, k) \/ Aborted(c, k) \/ Wake(c, k)
  PROVE  FlightInv' /\ NobodyNew /\ UNCHANGED breaker
<1> DEFINE r == flight[c].request[k]
<1>1. r \in Request /\ flight[c] \in Flight /\ Sound(flight[c]) /\ Allowed(flight[c], r)
  BY DEF FlightInv, Flight, Sound
<1>2. ASSUME NEW pc \in {"ok", "failed"}, Pc(c, k) \in {"fetch", "errorBody"},
             RequestBecomes(c, k, Result(pc))
      PROVE  FlightInv' /\ NobodyNew /\ UNCHANGED breaker
  BY <1>2, ResultTypes, RequestStep DEF Settled, Reasons, Allowed
<1>3. CASE Answer(c, k)
  BY <1>2, <1>3 DEF Answer, Fetching
<1>4. CASE ErrorResponse(c, k)
  <2> DEFINE s == [r EXCEPT !.pc = "errorBody"]
  <2>1. Pc(c, k) = "fetch" /\ RequestBecomes(c, k, s)
    BY <1>4 DEF ErrorResponse, Fetching
  <2>2. s \in Request /\ s.pc = "errorBody"
    BY <1>1 DEF Request
  <2>3. Allowed(flight[c], s)
    BY <1>1, <2>1, <2>2 DEF Allowed, Pc
  <2> HIDE DEF s
  <2> QED BY <2>1, <2>2, <2>3, RequestStep DEF Settled, Reasons
<1>5. CASE FetchRejects(c, k)
  BY <1>2, <1>5, RetryStep DEF FetchRejects, Fetching
<1>6. CASE ErrorRead(c, k)
  BY <1>2, <1>6, RetryStep DEF ErrorRead
<1>7. CASE Aborted(c, k)
  BY <1>7, RethrowStep DEF Aborted, Settled, Reasons
<1>8. CASE Wake(c, k)
  <2>1. Pc(c, k) = "pause" /\ Pc(c, k) \notin Settled
    BY <1>8 DEF Wake, Settled, Reasons
  <2>2. CASE Fired(c) /\ Rethrow(c, k)
    BY <2>1, <2>2, RethrowStep
  <2>3. CASE ~Fired(c) /\ RequestBecomes(c, k, [r EXCEPT !.pc = "fetch", !.attempt = @ + 1])
    <3> DEFINE s == [r EXCEPT !.pc = "fetch", !.attempt = @ + 1]
    <3>1. r.attempt < MaxAttempts
      BY <1>1, <2>1 DEF Allowed, Pc
    <3>2. s \in Request /\ s.pc = "fetch"
      <4>1. r.attempt + 1 \in 0..MaxAttempts
        BY <1>1, <3>1, Numbers DEF Request
      <4> HIDE DEF r
      <4> QED BY <1>1, <4>1 DEF Request
    <3>3. Going(flight[c])
      BY <2>1 DEF Going, Pc
    <3>4. Allowed(flight[c], s)
      BY <1>1, <2>3, <3>2, <3>3 DEF Allowed, Sound, Fired
    <3> HIDE DEF s
    <3>5. RequestBecomes(c, k, s)
      BY <2>3 DEF s
    <3> QED BY <2>1, <3>2, <3>4, <3>5, RequestStep
  <2> QED BY <1>8, <2>2, <2>3 DEF Wake
<1> QED BY <1>3, <1>4, <1>5, <1>6, <1>7, <1>8

\* A call goes on to its next phase, and its requests go on with it.
LEMMA PhaseStep ==
  ASSUME FlightInv, NEW c \in Calls, NEW phase \in {"marine", "done", "rejected"},
         Goes(c, phase)
  PROVE  FlightInv' /\ NobodyNew
<1> DEFINE g == [flight[c] EXCEPT !.phase = phase]
<1>1. flight[c] \in Flight /\ Sound(flight[c])
  BY DEF FlightInv
<1>2. /\ g \in Flight /\ g.request = flight[c].request /\ g.signal = flight[c].signal
      /\ g.fired = flight[c].fired /\ g.age = flight[c].age
  BY <1>1 DEF Flight
<1>3. Sound(g) /\ (Going(g) => Going(flight[c]))
  BY <1>1, <1>2 DEF Sound, Allowed, Going, DeadlineOf
<1>4. Becomes(c, g)
  BY DEF Goes
<1> HIDE DEF g
<1> QED BY <1>2, <1>3, <1>4, BecomesSound DEF NobodyNew

LEMMA FiresStep ==
  ASSUME FlightInv, NEW c \in Calls, SignalFires(c) \/ CallerAborts(c)
  PROVE  FlightInv' /\ NobodyNew /\ UNCHANGED breaker
<1>1. PICK reason \in Reasons :
         /\ Fires(c, reason) /\ Busy(c)
         /\ reason = "AbortError" => flight[c].signal = "manual"
  BY DEF SignalFires, SignalDue, CallerAborts, Reasons
<1> DEFINE g == [flight[c] EXCEPT !.fired = reason]
<1>2. flight[c] \in Flight /\ Sound(flight[c])
  BY DEF FlightInv
<1>3. /\ g \in Flight /\ g.request = flight[c].request /\ g.signal = flight[c].signal
      /\ g.fired = reason /\ g.age = flight[c].age
  BY <1>2 DEF Flight
<1>4. Sound(g) /\ Going(flight[c])
  BY <1>1, <1>2, <1>3 DEF Sound, Allowed, Going, DeadlineOf, Busy, Pc, Reasons
<1>5. Becomes(c, g) /\ UNCHANGED breaker
  BY <1>1 DEF Fires
<1> HIDE DEF g
<1> QED BY <1>3, <1>4, <1>5, BecomesSound DEF NobodyNew

\* A call that begins has all its time before it.
LEMMA StartStep ==
  ASSUME FlightInv, NEW c \in Calls, Start(c)
  PROVE  FlightInv'
<1>1. CASE Refused(c)
  BY <1>1, EndedIsSound, BecomesSound DEF Refused
<1>2. CASE Admitted(c)
  <2>1. PICK s \in SignalsPassed :
           Becomes(c, [Ended("exec") EXCEPT
             !.signal = s,
             !.request = [k \in Kinds |-> IF k \in Sent THEN FirstAttempt ELSE @[k]]])
    BY <1>2 DEF Admitted
  <2> DEFINE g == [Ended("exec") EXCEPT
             !.signal = s,
             !.request = [k \in Kinds |-> IF k \in Sent THEN FirstAttempt ELSE @[k]]]
  <2>2. s \in Signals
    BY DEF SignalsPassed, Signals
  <2>3. FirstAttempt \in Request /\ FirstAttempt.pc = "fetch"
    BY Numbers DEF FirstAttempt, Request
  <2>4. \A k \in Kinds : g.request[k] \in {FirstAttempt, Result("none")}
    BY DEF Ended
  <2>5. g \in Flight /\ g.age = 0 /\ g.fired = "no"
    <3>1. Result("none") \in Request
      BY ResultTypes DEF Settled
    <3> DEFINE q == [k \in Kinds |-> IF k \in Sent THEN FirstAttempt ELSE Result("none")]
    <3>2. q \in [Kinds -> Request]
      BY <2>3, <3>1
    <3>3. g = [phase |-> "exec", request |-> q, signal |-> s, fired |-> "no", age |-> 0]
      <4> DEFINE started(old) == [k \in Kinds |-> IF k \in Sent THEN FirstAttempt ELSE old[k]]
      <4>1. started(Ended("exec").request) = q
        BY DEF Ended
      <4>2. g = [Ended("exec") EXCEPT !.signal = s, !.request = started(Ended("exec").request)]
        BY DEF Ended
      <4> HIDE DEF g, q, started
      <4> QED BY <4>1, <4>2 DEF Ended
    <3> HIDE DEF g, q
    <3> QED BY <2>2, <3>2, <3>3, Numbers DEF Flight
  <2>6. Sound(g)
    <3> HIDE DEF g
    <3> QED BY <2>3, <2>4, <2>5, ResultTypes, Deadlines DEF Sound, Allowed, Settled
  <2> HIDE DEF g
  <2>7. Becomes(c, g)
    BY <2>1 DEF g
  <2> QED BY <2>5, <2>6, <2>7, BecomesSound
<1> QED BY <1>1, <1>2 DEF Start

-----------------------------------------------------------------------------
\* Time, and the breaker.

\* A request that is going on is being fetched, reads a body or pauses.
LEMMA GoingPcs ==
  ASSUME NEW f \in Flight, NEW k \in Kinds, f.request[k].pc \notin Settled
  PROVE  f.request[k].pc \in {"fetch", "errorBody", "pause"}
  BY DEF Flight, Request

\* No pause outlasts the age that is told apart.
LEMMA AgeIsTold ==
  ASSUME NEW f \in Flight, Sound(f), Going(f)
  PROVE  f.age \in Nat /\ f.age < MaxAge
<1>1. PICK k \in Kinds : f.request[k].pc \notin Settled
  BY DEF Going
<1>2. f.request[k].pc \in {"fetch", "errorBody", "pause"} /\ Allowed(f, f.request[k])
  BY <1>1, GoingPcs DEF Sound
<1>3. f.age \in Nat /\ f.request[k].pause \in Nat
  BY Numbers DEF Flight, Request
<1> QED BY <1>2, <1>3, Deadlines, Numbers DEF Allowed

\* A tick that the event loop lets pass leaves every call within its time.
LEMMA OlderIsSound ==
  ASSUME NEW f \in Flight, Sound(f), Going(f),
         f.fired # "no" => \A k \in Kinds : f.request[k].pc \notin {"fetch", "errorBody"},
         f.fired = "no" => f.age # DeadlineOf(f),
         \A k \in Kinds : f.request[k].pc = "pause" => f.request[k].pause # 0
  PROVE  /\ Older(f) \in Flight /\ Sound(Older(f))
         /\ Older(f).age = f.age + 1
<1> DEFINE g == Older(f)
           Younger(p) == IF p > 0 THEN p - 1 ELSE 0
           YoungerRequest(r) == [r EXCEPT !.pause = Younger(@)]
           q == [k \in Kinds |-> YoungerRequest(f.request[k])]
<1>1. f.age \in Nat /\ f.age < MaxAge
  BY AgeIsTold
<1>2. f.request \in [Kinds -> Request]
  BY DEF Flight
<1>3. q \in [Kinds -> Request]
  <2>1. ASSUME NEW r \in Request PROVE YoungerRequest(r) \in Request
    <3>1. Younger(r.pause) \in 0..MaxPause
      BY Numbers DEF Request
    <3> HIDE DEF Younger
    <3> QED BY <3>1 DEF Request
  <2> HIDE DEF YoungerRequest
  <2> QED BY <1>2, <2>1
<1>4. g = [f EXCEPT !.age = f.age + 1, !.request = q]
  BY <1>1 DEF Older, Flight
<1>5. g \in Flight
  <2>1. f.age + 1 \in 0..MaxAge
    BY <1>1, Numbers
  <2> HIDE DEF g, q
  <2> QED BY <2>1, <1>3, <1>4 DEF Flight
<1>6. /\ g.age = f.age + 1 /\ g.fired = f.fired /\ g.signal = f.signal
      /\ g.request = q
  <2> HIDE DEF g, q
  <2> QED BY <1>4 DEF Flight
<1>7. \A k \in Kinds : /\ g.request[k].pc = f.request[k].pc
                       /\ g.request[k].attempt = f.request[k].attempt
                       /\ f.request[k].pause \in Nat
                       /\ g.request[k].pause = Younger(f.request[k].pause)
  BY <1>2, <1>6, Numbers DEF Request
<1>8. DeadlineOf(g) = DeadlineOf(f) /\ DeadlineOf(f) \in Nat
  BY <1>6, Deadlines DEF DeadlineOf
<1>9. f.fired = "no" => f.age + 1 <= DeadlineOf(f)
  BY <1>1, <1>8 DEF Sound
<1> HIDE DEF g
<1>10. ASSUME NEW k \in Kinds PROVE Allowed(g, g.request[k])
  <2>1. Allowed(f, f.request[k])
    BY DEF Sound
  <2> QED BY <2>1, <1>1, <1>6, <1>7, <1>8, <1>9, Numbers DEF Allowed
<1>11. Sound(g)
  BY <1>6, <1>8, <1>9, <1>10 DEF Sound
<1> QED BY <1>5, <1>6, <1>11 DEF g

LEMMA TickStep ==
  ASSUME ClientInv, Quiet, Tick
  PROVE  FlightInv' /\ AdmittedBefore' /\ ProbedInTime'
<1>1. ASSUME NEW c \in Calls
      PROVE  /\ flight'[c] \in Flight /\ Sound(flight'[c])
             /\ Going(flight'[c]) => Going(flight[c]) /\ flight'[c].age = flight[c].age + 1
  <2>1. flight[c] \in Flight /\ Sound(flight[c])
    BY DEF ClientInv, FlightInv
  <2>2. Busy(c) <=> Going(flight[c])
    BY DEF Busy, Going, Pc
  <2>3. CASE ~Busy(c)
    BY <2>1, <2>2, <2>3 DEF Tick
  <2>4. CASE Busy(c)
    <3>1. flight'[c] = Older(flight[c])
      BY <2>4 DEF Tick
    <3>2. flight[c].fired # "no" =>
             \A k \in Kinds : flight[c].request[k].pc \notin {"fetch", "errorBody"}
      BY DEF Quiet, Pending, Fired, Pc
    <3>3. /\ flight[c].fired = "no" => flight[c].age # DeadlineOf(flight[c])
          /\ \A k \in Kinds :
               flight[c].request[k].pc = "pause" => flight[c].request[k].pause # 0
      BY <2>4 DEF Tick, TimerDue, SignalDue, Fired, Deadline, DeadlineOf, Pc
    <3> QED BY <2>1, <2>2, <2>4, <3>1, <3>2, <3>3, OlderIsSound
  <2> QED BY <2>3, <2>4
<1>2. FlightInv'
  BY <1>1 DEF FlightInv, Tick
<1>3. CASE sinceOpened < CoolDown
  <2>1. sinceOpened' = sinceOpened + 1 /\ state' = state
    BY <1>3 DEF Tick, Breaker!Tick
  <2>2. sinceOpened \in Nat /\ \A c \in Calls : flight[c].age \in Nat
    BY Numbers, BreakerAssumption
    DEF ClientInv, Breaker!TypeOK, FlightInv, Flight
  <2>3. AdmittedBefore'
    BY <1>1, <1>3, <2>1, <2>2 DEF ClientInv, AdmittedBefore, Breaker!CoolingDown
  <2>4. ProbedInTime'
    BY <1>3, <2>1, <2>2, BreakerAssumption DEF ClientInv, ProbedInTime
  <2> QED BY <1>2, <2>3, <2>4
<1>4. CASE ~(sinceOpened < CoolDown)
  <2>1. UNCHANGED breaker
    BY <1>4 DEF Tick
  <2> QED BY <1>2, <1>4, <2>1
          DEF breaker, ClientInv, AdmittedBefore, ProbedInTime, Breaker!CoolingDown
<1> QED BY <1>3, <1>4

\* How a call that passes the breaker, or returns through it, changes the cool-down.
CoolDownGoesOn ==
  Breaker!CoolingDown' =>
    \/ sinceOpened' = 0
    \/ Breaker!CoolingDown /\ sinceOpened' = sinceOpened

LEMMA ExecStep ==
  ASSUME Breaker!TypeOK, ProbedInTime, NEW c \in Calls \cup Others, Breaker!Exec(c)
  PROVE  /\ ProbedInTime' /\ CoolDownGoesOn
         /\ Breaker!CoolingDown' => Breaker!Refuse(c)
  BY BreakerAssumption
  DEF Breaker!TypeOK, ProbedInTime, CoolDownGoesOn, Breaker!CoolingDown,
      Breaker!Exec, Breaker!Refuse, Breaker!AdmitClosed, Breaker!AdmitProbe,
      Breaker!MayProbe

LEMMA SettleStep ==
  ASSUME Breaker!TypeOK, ProbedInTime, NEW c \in Calls \cup Others, Breaker!Settle(c)
  PROVE  ProbedInTime' /\ CoolDownGoesOn
  BY BreakerAssumption
  DEF Breaker!TypeOK, ProbedInTime, CoolDownGoesOn, Breaker!CoolingDown,
      Breaker!Settle, Breaker!Succeed, Breaker!Abort, Breaker!Fail, Breaker!Trips

LEMMA StillAdmittedBefore ==
  ASSUME AdmittedBefore, FlightInv', NobodyNew, CoolDownGoesOn
  PROVE  AdmittedBefore'
<1>1. \A c \in Calls : flight'[c].age \in Nat
  BY Numbers DEF FlightInv, Flight
<1> QED BY <1>1 DEF AdmittedBefore, NobodyNew, CoolDownGoesOn

LEMMA BreakerUntouched ==
  ASSUME ProbedInTime, UNCHANGED breaker
  PROVE  ProbedInTime' /\ CoolDownGoesOn
  BY DEF breaker, ProbedInTime, CoolDownGoesOn, Breaker!CoolingDown

-----------------------------------------------------------------------------
\* The client and its breaker.

\* Every step of the client is one of its breaker or leaves it alone.
LEMMA ClientStepsAreBreakers == [Next]_vars => [Breaker!Next]_(Breaker!vars)
<1> SUFFICES ASSUME [Next]_vars PROVE [Breaker!Next]_(Breaker!vars)
  OBVIOUS
<1> USE DEF breaker, Breaker!vars, Breaker!Next
<1>1. ASSUME NEW c \in Calls, Continues(c) PROVE [Breaker!Next]_(Breaker!vars)
  <2>1. CASE Settle(c)
    BY <2>1 DEF Settle, Breaker!Settle
  <2>2. CASE Return(c)
    BY <2>2 DEF Return
  <2>3. ASSUME NEW k \in Kinds, Aborted(c, k) \/ ErrorRead(c, k) PROVE UNCHANGED breaker
    BY <2>3 DEF Aborted, Rethrow, ErrorRead, Retry, RequestBecomes
  <2> QED BY <1>1, <2>1, <2>2, <2>3 DEF Continues
<1>2. CASE Tick
  BY <1>2 DEF Tick
<1>3. ASSUME NEW c \in Calls, Event(c) PROVE [Breaker!Next]_(Breaker!vars)
  <2>1. CASE Start(c)
    BY <2>1 DEF Start, Refused, Admitted, Breaker!Exec
  <2>2. CASE SignalFires(c) \/ CallerAborts(c)
    BY <2>2 DEF SignalFires, CallerAborts, Fires
  <2>3. ASSUME NEW k \in Kinds,
               \/ Answer(c, k) \/ ErrorResponse(c, k) \/ FetchRejects(c, k)
               \/ ErrorRead(c, k) \/ Wake(c, k)
        PROVE UNCHANGED breaker
    BY <2>3 DEF Answer, ErrorResponse, FetchRejects, ErrorRead, Wake, Retry, Rethrow,
                RequestBecomes
  <2> QED BY <1>3, <2>1, <2>2, <2>3 DEF Event
<1>4. ASSUME NEW c \in Others, Other(c) PROVE [Breaker!Next]_(Breaker!vars)
  BY <1>4 DEF Other
<1>5. CASE UNCHANGED vars
  BY <1>5 DEF vars, changing
<1> QED BY <1>1, <1>2, <1>3, <1>4, <1>5 DEF Next

\* Whatever is true of the breaker by itself is true of it in the client: the calls
\* use it as its specification says, each admitted before it settles.
THEOREM UsesBreaker == Spec => Breaker!Spec
<1>1. Init => Breaker!Init
  BY DEF Init
<1> QED BY <1>1, ClientStepsAreBreakers, PTL DEF Spec, Breaker!Spec

LEMMA ClientInit == Init => ClientInv
<1> SUFFICES ASSUME Init PROVE ClientInv
  OBVIOUS
<1>1. Breaker!TypeOK
  BY BreakerInit DEF Init
<1>2. operation \in {"fetchForecast", "geocode"}
  BY DEF Init
<1>3. \A c \in Calls : flight[c] = Ended("idle")
  BY DEF Init
<1>4. FlightInv /\ \A c \in Calls : ~Going(flight[c])
  BY <1>3, EndedIsSound DEF Init, FlightInv
<1>5. state = "closed"
  BY DEF Init, Breaker!Init
<1> QED BY <1>1, <1>2, <1>4, <1>5
        DEF ClientInv, ProbedInTime, AdmittedBefore, Breaker!CoolingDown

\* What the event loop finishes.
LEMMA ContinuesPreserves ==
  ASSUME ClientInv, NEW c \in Calls, Continues(c)
  PROVE  FlightInv' /\ NobodyNew /\ ProbedInTime' /\ CoolDownGoesOn
<1> USE DEF ClientInv
<1>1. CASE Settle(c)
  <2>1. PICK phase \in {"marine", "done", "rejected"} : Goes(c, phase)
    BY <1>1 DEF Settle
  <2>2. Breaker!Settle(c)
    BY <1>1 DEF Settle, Breaker!Settle
  <2> QED BY <2>1, <2>2, PhaseStep, SettleStep
<1>2. CASE Return(c)
  <2>1. (Goes(c, "done") \/ Goes(c, "rejected")) /\ UNCHANGED breaker
    BY <1>2 DEF Return
  <2> QED BY <2>1, PhaseStep, BreakerUntouched
<1>3. ASSUME NEW k \in Kinds, Aborted(c, k) \/ ErrorRead(c, k)
      PROVE  FlightInv' /\ NobodyNew /\ ProbedInTime' /\ CoolDownGoesOn
  BY <1>3, RequestActions, BreakerUntouched
<1> QED BY <1>1, <1>2, <1>3 DEF Continues

\* A call that begins finds the circuit closed or makes it half-open.
LEMMA StartPreserves ==
  ASSUME ClientInv, NEW c \in Calls, Start(c)
  PROVE  FlightInv' /\ AdmittedBefore' /\ ProbedInTime'
<1> USE DEF ClientInv
<1>1. Breaker!Exec(c)
  BY DEF Start, Refused, Admitted, Breaker!Exec
<1>2. FlightInv' /\ ProbedInTime' /\ CoolDownGoesOn
  BY <1>1, StartStep, ExecStep
<1>3. ASSUME Breaker!CoolingDown' PROVE NobodyNew
  <2>1. Breaker!Refuse(c)
    BY <1>1, <1>3, ExecStep
  <2>2. ~Admitted(c)
    BY <2>1 DEF Admitted, Breaker!Refuse, Breaker!AdmitClosed, Breaker!AdmitProbe
  <2>3. Becomes(c, Ended("rejected"))
    BY <2>2 DEF Start, Refused
  <2> QED BY <2>3, EndedIsSound, BecomesSound DEF NobodyNew
<1>4. AdmittedBefore'
  <2>1. CASE Breaker!CoolingDown'
    BY <1>2, <1>3, <2>1, StillAdmittedBefore
  <2>2. CASE ~Breaker!CoolingDown'
    BY <2>2 DEF AdmittedBefore
  <2> QED BY <2>1, <2>2
<1> QED BY <1>2, <1>4

LEMMA EventPreserves ==
  ASSUME ClientInv, NEW c \in Calls, Event(c)
  PROVE  FlightInv' /\ AdmittedBefore' /\ ProbedInTime'
<1> USE DEF ClientInv
<1>1. CASE Start(c)
  BY <1>1, StartPreserves
<1>2. CASE ~Start(c)
  <2>1. FlightInv' /\ NobodyNew /\ UNCHANGED breaker
    BY <1>2, FiresStep, RequestActions DEF Event
  <2> QED BY <2>1, BreakerUntouched, StillAdmittedBefore
<1> QED BY <1>1, <1>2

LEMMA OtherPreserves ==
  ASSUME ClientInv, NEW c \in Others, Other(c)
  PROVE  FlightInv' /\ AdmittedBefore' /\ ProbedInTime'
<1> USE DEF ClientInv
<1>1. ProbedInTime' /\ CoolDownGoesOn
  BY ExecStep, SettleStep DEF Other
<1>2. FlightInv' /\ NobodyNew
  BY DEF Other, FlightInv, NobodyNew
<1> QED BY <1>1, <1>2, StillAdmittedBefore

\* The invariant holds with one step for each kind of step of the client.
LEMMA ClientStep == ClientInv /\ [Next]_vars => ClientInv'
<1> SUFFICES ASSUME ClientInv, [Next]_vars PROVE ClientInv'
  OBVIOUS
<1>1. Breaker!TypeOK'
  BY ClientStepsAreBreakers, BreakerStep DEF ClientInv
<1>2. operation' \in {"fetchForecast", "geocode"}
  BY DEF ClientInv, Next, vars
<1>3. FlightInv' /\ AdmittedBefore' /\ ProbedInTime'
  <2>1. ASSUME NEW c \in Calls, Continues(c)
        PROVE  FlightInv' /\ AdmittedBefore' /\ ProbedInTime'
    BY <2>1, ContinuesPreserves, StillAdmittedBefore DEF ClientInv
  <2>2. CASE UNCHANGED vars
    BY <2>2 DEF vars, changing, breaker, ClientInv, FlightInv, AdmittedBefore, ProbedInTime,
                Breaker!CoolingDown
  <2> QED BY <2>1, <2>2, TickStep, EventPreserves, OtherPreserves DEF Next
<1> QED BY <1>1, <1>2, <1>3 DEF ClientInv

\* The inductive invariant of the client.
THEOREM ClientInvariant == Spec => []ClientInv
  BY ClientInit, ClientStep, PTL DEF Spec

\* The types of the calls, their requests and the breaker.
THEOREM ClientTypeCorrect == Spec => []TypeOK
<1>1. ClientInv => TypeOK
  BY DEF ClientInv, FlightInv, TypeOK
<1> QED BY <1>1, ClientInvariant, PTL

\* However slow the provider and whatever it asks for, a call past its deadline only
\* sits out a pause that it had begun in time.
THEOREM OverrunsAreOnePause == Spec => []OverrunIsOnePause
<1>1. ClientInv => OverrunIsOnePause
  <2> SUFFICES ASSUME ClientInv, NEW c \in Calls, NEW k \in Kinds,
                      flight[c].age > Deadline(c), Pc(c, k) \notin Settled
               PROVE  /\ Pc(c, k) = "pause"
                      /\ flight[c].age + flight[c].request[k].pause <= Deadline(c) + MaxPause
    BY DEF OverrunIsOnePause
  <2>1. /\ flight[c] \in Flight /\ Allowed(flight[c], flight[c].request[k])
        /\ flight[c].age \in Nat
    BY Numbers DEF ClientInv, FlightInv, Sound, Flight
  <2>2. Deadline(c) = DeadlineOf(flight[c]) /\ Deadline(c) \in Nat
    BY Deadlines DEF Deadline, DeadlineOf
  <2>3. Pc(c, k) \in {"fetch", "errorBody", "pause"}
    BY <2>1, GoingPcs DEF Pc
  <2> QED BY <2>1, <2>2, <2>3 DEF Allowed, Pc
<1> QED BY <1>1, ClientInvariant, PTL

\* The marine request that nobody awaits any more never rejects.
THEOREM NoRejectionUnhandled == Spec => []NoUnhandledRejection
<1>1. ClientInv => NoUnhandledRejection
  BY
  DEF ClientInv, FlightInv, Sound, Allowed, NoUnhandledRejection, MarineRejects, Pc,
      Kinds
<1> QED BY <1>1, ClientInvariant, PTL

\* Calls that were admitted before the circuit opened are older than the opening, and
\* nobody else is: past the time-out they no longer fetch.
THEOREM OpenCircuitsAreQuiet == Spec => []OpenCircuitIsQuiet
<1>1. ClientInv => OpenCircuitIsQuiet
  <2> SUFFICES ASSUME ClientInv, Breaker!CoolingDown, sinceOpened > Timeout,
                      NEW c \in Calls, NEW k \in Kinds, Pc(c, k) = "fetch"
               PROVE  FALSE
    BY DEF OpenCircuitIsQuiet
  <2>1. Going(flight[c])
    BY DEF Going, Pc, Settled, Reasons
  <2>2. flight[c].age >= sinceOpened
    BY <2>1 DEF ClientInv, AdmittedBefore
  <2>3. flight[c].age <= DeadlineOf(flight[c])
    BY DEF ClientInv, FlightInv, Sound, Allowed, Pc
  <2>4. flight[c].age \in Nat /\ sinceOpened \in Nat
    BY Numbers, BreakerAssumption
    DEF ClientInv, Breaker!TypeOK, FlightInv, Flight
  <2> QED BY <2>2, <2>3, <2>4, Deadlines, Numbers
<1> QED BY <1>1, ClientInvariant, PTL

LEMMA PhaseAfter ==
  ASSUME flight \in [Calls -> Flight], NEW c \in Calls, NEW f, Becomes(c, f)
  PROVE  /\ flight'[c].phase = f.phase
         /\ \A d \in Calls \ {c} : flight'[d] = flight[d]
<1>1. Ended(f.phase).phase = f.phase
  BY DEF Ended
<1> QED BY <1>1 DEF Becomes

\* Once the forecast has arrived, only the caller's own abort makes the call fail.
THEOREM ForecastsAreReturned == Spec => ForecastIsReturned
<1> DEFINE Arrived(c) == InProgress(c) /\ Pc(c, "main") = "ok" /\ flight[c].signal # "manual"
           Kept(c) == Arrived(c) => flight'[c].phase # "rejected"
<1>1. ASSUME ClientInv, Next, NEW c \in Calls, Arrived(c) PROVE flight'[c].phase # "rejected"
  <2> USE <1>1
  <2>1. /\ flight \in [Calls -> Flight] /\ flight[c] \in Flight /\ Sound(flight[c])
        /\ flight[c].phase # "rejected"
    BY DEF ClientInv, FlightInv, InProgress
  <2>2. ASSUME NEW d \in Calls, NEW k \in Kinds, NEW r, RequestBecomes(d, k, r)
        PROVE  flight'[c].phase # "rejected"
    <3>1. [flight[c] EXCEPT !.request[k] = r].phase = flight[c].phase
      BY <2>1 DEF Flight
    <3> QED BY <2>1, <2>2, <3>1, PhaseAfter DEF RequestBecomes
  <2>3. ASSUME NEW d \in Calls, NEW k \in Kinds,
               \/ Answer(d, k) \/ ErrorResponse(d, k) \/ FetchRejects(d, k)
               \/ ErrorRead(d, k) \/ Aborted(d, k) \/ Wake(d, k)
        PROVE  flight'[c].phase # "rejected"
    BY <2>2, <2>3 DEF Answer, ErrorResponse, FetchRejects, ErrorRead, Aborted, Wake,
                      Retry, Rethrow
  <2>4. ASSUME NEW d \in Calls, NEW phase, Goes(d, phase), d = c => phase # "rejected"
        PROVE  flight'[c].phase # "rejected"
    <3>1. [flight[d] EXCEPT !.phase = phase].phase = phase
      BY <2>1 DEF Flight
    <3> QED BY <2>1, <2>4, <3>1, PhaseAfter DEF Goes
  <2>5. ASSUME NEW d \in Calls, Settle(d) PROVE flight'[c].phase # "rejected"
    <3>1. PICK phase : Goes(d, phase) /\ (Pc(d, "main") = "ok" => phase # "rejected")
      BY <2>5 DEF Settle
    <3> QED BY <2>4, <3>1
  <2>6. ASSUME NEW d \in Calls, Return(d) PROVE flight'[c].phase # "rejected"
    <3>1. ~MarineRejects(c)
      BY <2>1 DEF MarineRejects, Sound, Allowed, Pc, Kinds
    <3> QED BY <2>4, <2>6, <3>1 DEF Return
  <2>7. ASSUME NEW d \in Calls, Start(d) PROVE flight'[c].phase # "rejected"
    <3>1. d # c
      BY <2>7 DEF Start
    <3>2. \E f : Becomes(d, f)
      BY <2>7, Zenon DEF Start, Refused, Admitted
    <3> QED BY <2>1, <3>1, <3>2, PhaseAfter
  <2>8. ASSUME NEW d \in Calls, SignalFires(d) \/ CallerAborts(d)
        PROVE  flight'[c].phase # "rejected"
    <3>1. PICK reason : Becomes(d, [flight[d] EXCEPT !.fired = reason])
      BY <2>8 DEF SignalFires, CallerAborts, Fires
    <3>2. [flight[c] EXCEPT !.fired = reason].phase = flight[c].phase
      BY <2>1 DEF Flight
    <3> QED BY <2>1, <3>1, <3>2, PhaseAfter
  <2>9. CASE Tick
    <3>1. Older(flight[c]).phase = flight[c].phase
      BY <2>1 DEF Older, Flight
    <3> QED BY <2>1, <2>9, <3>1 DEF Tick
  <2>10. ASSUME NEW d \in Others, Other(d) PROVE flight'[c].phase # "rejected"
    BY <2>1, <2>10 DEF Other
  <2> QED BY <2>3, <2>5, <2>6, <2>7, <2>8, <2>9, <2>10 DEF Next, Continues, Event
<1>2. ASSUME ClientInv, [Next]_vars PROVE [\A c \in Calls : Kept(c)]_vars
  BY <1>1, <1>2
<1> QED BY <1>2, ClientInvariant, PTL DEF Spec, ForecastIsReturned
=============================================================================
