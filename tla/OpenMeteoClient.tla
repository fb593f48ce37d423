--------------------------- MODULE OpenMeteoClient ---------------------------
(***************************************************************************)
(* The Open-Meteo client (src/src/open-meteo/client.ts).  fetchForecast()  *)
(* has, behind a circuit breaker, a main request for the forecast and,     *)
(* started with it, a marine request that only adds wave heights;          *)
(* geocode() has, behind a breaker of its own, only a main request.  Each  *)
(* request is a loop of attempts with pauses between them; those of a call *)
(* share one AbortSignal, which fires at the client's time-out or earlier  *)
(* at the caller's.                                                        *)
(*                                                                         *)
(* Callers of the two share nothing, so that a behaviour shows one of them *)
(* with its breaker.                                                       *)
(*                                                                         *)
(* Time is counted in ticks.  The event loop finishes what an event has    *)
(* set off (aborted fetches, promises that have settled) before it takes   *)
(* the next event, and lets no time pass while a timer is due.             *)
(***************************************************************************)
EXTENDS Naturals

CONSTANTS
    Calls,           \* callers
    Others,          \* more of them, of which only their use of the breaker is shown
    Threshold,       \* failureThreshold of the breaker
    CoolDown,        \* coolDownMs, in ticks
    MaxAttempts,     \* maxAttempts
    Timeout,         \* OPEN_METEO_TIMEOUT_MS, in ticks
    CallerTimeout,   \* COLD_START_TIMEOUT_MS, in ticks
    MaxPause         \* bound: the longest pause a Retry-After or backoff asks for

ASSUME BreakerAssumption == Threshold \in Nat \ {0} /\ CoolDown \in Nat \ {0}
ASSUME OthersAssumption == Calls \cap Others = {}
ASSUME MaxAttemptsAssumption == MaxAttempts \in Nat \ {0}
ASSUME TimeoutsAssumption ==
    Timeout \in Nat \ {0} /\ CallerTimeout \in 1..Timeout
ASSUME MaxPauseAssumption == MaxPause \in Nat \ {0}

VARIABLES
    state, consecutiveFailures, sinceOpened, halfOpenProbeInFlight, call,
              \* the breaker: see CircuitBreaker
    operation,\* what they call
    flight    \* the calls

breaker == <<state, consecutiveFailures, sinceOpened, halfOpenProbeInFlight, call>>
changing == <<breaker, flight>>
vars == <<changing, operation>>

Breaker == INSTANCE CircuitBreaker WITH Calls <- Calls \cup Others

Kinds == {"main", "marine"}
Reasons == {"TimeoutError", "AbortError"}
Settled == {"none", "ok", "failed"} \cup Reasons
\* A request is being fetched, reads the body of an error response, pauses, or has
\* settled.
Request ==
    [pc : {"fetch", "errorBody", "pause"} \cup Settled,
     attempt : 0..MaxAttempts, pause : 0..MaxPause]
Result(pc) == [pc |-> pc, attempt |-> 0, pause |-> 0]
FirstAttempt == [pc |-> "fetch", attempt |-> 1, pause |-> 0]

\* Whose signal a call has: the client's own time-out, a caller's earlier one, or
\* one that the caller aborts by hand, as only the tests do.
Signals == {"client", "caller", "manual"}

\* A call: where it is, its requests, its signal with the reason once it has fired,
\* and its age, which beyond the time-out and a pause is not told apart.
MaxAge == Timeout + MaxPause + 1
Flight ==
    [phase : {"idle", "exec", "marine", "done", "rejected"},
     request : [Kinds -> Request], signal : Signals,
     fired : {"no"} \cup Reasons, age : 0..MaxAge]

\* The requests of a call, and the signals: nobody passes geocode() one.
Sent == IF operation = "geocode" THEN {"main"} ELSE Kinds
SignalsPassed == IF operation = "geocode" THEN {"client"} ELSE Signals

\* A call that has ended this way and has left no request behind.
Ended(phase) ==
    [phase |-> phase, request |-> [k \in Kinds |-> Result("none")],
     signal |-> "client", fired |-> "no", age |-> 0]

TypeOK ==
    /\ Breaker!TypeOK
    /\ operation \in {"fetchForecast", "geocode"}
    /\ flight \in [Calls -> Flight]

Init ==
    /\ Breaker!Init
    /\ operation \in {"fetchForecast", "geocode"}
    /\ flight = [c \in Calls |-> Ended("idle")]

Deadline(c) == IF flight[c].signal = "caller" THEN CallerTimeout ELSE Timeout
InProgress(c) == flight[c].phase \in {"exec", "marine"}
Pc(c, k) == flight[c].request[k].pc
Fired(c) == flight[c].fired # "no"
\* Some request of the call is still going on, awaited or not.
Busy(c) == \E k \in Kinds : Pc(c, k) \notin Settled

\* The call goes on as f; when that is the end of it and of its requests, nothing
\* of it remains.
Becomes(c, f) ==
    flight' = [flight EXCEPT ![c] =
        IF f.phase \in {"exec", "marine"} \/ \E k \in Kinds : f.request[k].pc \notin Settled
        THEN f ELSE Ended(f.phase)]

-----------------------------------------------------------------------------
\* Up to the breaker: the signal is made (combineSignals); when the breaker admits
\* the call, its requests are sent, the marine one first.
Refused(c) ==
    /\ Breaker!Refuse(c)
    /\ Becomes(c, Ended("rejected"))

Admitted(c) ==
    /\ Breaker!AdmitClosed(c) \/ Breaker!AdmitProbe(c)
    /\ \E s \in SignalsPassed :
         Becomes(c, [Ended("exec") EXCEPT
             !.signal = s,
             !.request = [k \in Kinds |-> IF k \in Sent THEN FirstAttempt ELSE @[k]]])

Start(c) == ~InProgress(c) /\ ~Busy(c) /\ (Refused(c) \/ Admitted(c))

-----------------------------------------------------------------------------
\* fetchJsonWithRetry()

RequestBecomes(c, k, r) ==
    /\ Becomes(c, [flight[c] EXCEPT !.request[k] = r])
    /\ UNCHANGED breaker

\* Fault: the attempts are counted from one less.
IsLastAttemptOneLate(attempt) == attempt > MaxAttempts
IsLastAttempt(attempt) == attempt = MaxAttempts

\* The catch block for an error that is worth another attempt: a pause of the
\* length Retry-After or the backoff gives, unless this was the last attempt.
Retry(c, k) ==
    LET r == flight[c].request[k]
    IN  \/ /\ ~IsLastAttempt(r.attempt)
           /\ \E p \in 1..MaxPause :
                RequestBecomes(c, k, [r EXCEPT !.pc = "pause", !.pause = p])
        \/ /\ IsLastAttempt(r.attempt)
           /\ RequestBecomes(c, k, Result("failed"))

Fetching(c, k) == Pc(c, k) = "fetch" /\ ~Fired(c)

Answer(c, k) == Fetching(c, k) /\ RequestBecomes(c, k, Result("ok"))

\* A response that is not ok: before the error is thrown, its body is read.
ErrorResponse(c, k) ==
    /\ Fetching(c, k)
    /\ RequestBecomes(c, k, [flight[c].request[k] EXCEPT !.pc = "errorBody"])

\* fetch() rejects with a TypeError, or the body of the answer is not JSON.
FetchRejects(c, k) ==
    /\ Fetching(c, k)
    /\ Retry(c, k) \/ RequestBecomes(c, k, Result("failed"))

\* The body has been read, or the signal has aborted that, which is swallowed
\* (httpErrorFromResponse); 5xx and 429 are worth another attempt.
ErrorRead(c, k) ==
    /\ Pc(c, k) = "errorBody"
    /\ Retry(c, k) \/ RequestBecomes(c, k, Result("failed"))

\* Fault: an aborted fetch is worth another attempt.
RethrowRetrying(c, k) == Retry(c, k)

\* The error of an aborted fetch is not transient (isTransientError).
Rethrow(c, k) == RequestBecomes(c, k, Result(flight[c].fired))

Aborted(c, k) == Pc(c, k) = "fetch" /\ Fired(c) /\ Rethrow(c, k)

\* The pause is over; it has not looked at the signal.  If that has fired, fetch()
\* rejects without sending anything.
Wake(c, k) ==
    /\ Pc(c, k) = "pause"
    /\ flight[c].request[k].pause = 0
    /\ \/ Fired(c) /\ Rethrow(c, k)
       \/ /\ ~Fired(c)
          /\ RequestBecomes(c, k, [flight[c].request[k] EXCEPT !.pc = "fetch",
                                                              !.attempt = @ + 1])

-----------------------------------------------------------------------------
\* After the breaker.

Goes(c, phase) == Becomes(c, [flight[c] EXCEPT !.phase = phase])

\* exec() settles with the main request.  When it rejects, so does the call, and
\* nobody awaits the marine request any more; geocode() has nothing more to await.
Settle(c) ==
    /\ flight[c].phase = "exec"
    /\ \/ /\ Pc(c, "main") = "ok"
          /\ Breaker!Succeed(c)
          /\ Goes(c, IF operation = "geocode" THEN "done" ELSE "marine")
       \/ /\ Pc(c, "main") = "AbortError"
          /\ Breaker!Abort(c)
          /\ Goes(c, "rejected")
       \/ /\ Pc(c, "main") \in {"failed", "TimeoutError"}
          /\ Breaker!Fail(c)
          /\ Goes(c, "rejected")

\* Fault: a time-out of the marine request is passed on as well.
MarineRejectsOnTimeout(c) == Pc(c, "marine") \in Reasons

\* The promise of the marine request rejects; any other error of it is reported
\* and becomes null.
MarineRejects(c) == Pc(c, "marine") = "AbortError"

\* await marineP; the days are returned, with wave heights or without.
Return(c) ==
    /\ flight[c].phase = "marine"
    /\ Pc(c, "marine") \in Settled
    /\ Goes(c, IF MarineRejects(c) THEN "rejected" ELSE "done")
    /\ UNCHANGED breaker

-----------------------------------------------------------------------------
\* Signals and time.

\* Fault: the client's own time-out is not part of the signal.
SignalDueForCallerOnly(c) ==
    flight[c].signal = "caller" /\ Busy(c) /\ ~Fired(c) /\ flight[c].age = Deadline(c)

\* AbortSignal.timeout, the client's and perhaps the caller's (combineSignals).
SignalDue(c) == Busy(c) /\ ~Fired(c) /\ flight[c].age = Deadline(c)

Fires(c, reason) ==
    /\ Becomes(c, [flight[c] EXCEPT !.fired = reason])
    /\ UNCHANGED breaker

SignalFires(c) == SignalDue(c) /\ Fires(c, "TimeoutError")

CallerAborts(c) ==
    flight[c].signal = "manual" /\ Busy(c) /\ ~Fired(c) /\ Fires(c, "AbortError")

\* What the event loop finishes before the next event, and the timers due.
Continues(c) ==
    \/ Settle(c) \/ Return(c)
    \/ \E k \in Kinds : Aborted(c, k) \/ (Fired(c) /\ ErrorRead(c, k))
Pending(c) ==
    \/ flight[c].phase = "exec" /\ Pc(c, "main") \in Settled
    \/ flight[c].phase = "marine" /\ Pc(c, "marine") \in Settled
    \/ Fired(c) /\ \E k \in Kinds : Pc(c, k) \in {"fetch", "errorBody"}
TimerDue(c) ==
    \/ SignalDue(c)
    \/ \E k \in Kinds : Pc(c, k) = "pause" /\ flight[c].request[k].pause = 0

Older(f) ==
    [f EXCEPT !.age = IF @ < MaxAge THEN @ + 1 ELSE @,
              !.request = [k \in Kinds |->
                  [f.request[k] EXCEPT !.pause = IF @ > 0 THEN @ - 1 ELSE 0]]]

Tick ==
    /\ \A c \in Calls : ~TimerDue(c)
    /\ Breaker!CoolingDown \/ \E c \in Calls : Busy(c)
    /\ flight' = [c \in Calls |-> IF Busy(c) THEN Older(flight[c]) ELSE flight[c]]
    /\ IF sinceOpened < CoolDown THEN Breaker!Tick ELSE UNCHANGED breaker

Event(c) ==
    \/ Start(c) \/ SignalFires(c) \/ CallerAborts(c)
    \/ \E k \in Kinds :
         Answer(c, k) \/ ErrorResponse(c, k) \/ FetchRejects(c, k)
         \/ (~Fired(c) /\ ErrorRead(c, k)) \/ Wake(c, k)

\* Another call passes the breaker, or its main request settles.
Other(c) == (Breaker!Exec(c) \/ Breaker!Settle(c)) /\ UNCHANGED flight

Quiet == \A c \in Calls : ~Pending(c)
Next ==
    /\ UNCHANGED operation
    /\ \/ \E c \in Calls : Continues(c)
       \/ Quiet /\ Tick
       \/ Quiet /\ \E c \in Calls : Event(c)
       \/ Quiet /\ \E c \in Others : Other(c)

Spec == Init /\ [][Next]_vars

(***************************************************************************)
(* The clock advances, however busy the event loop is (no infinity of      *)
(* calls fits in a tick), timers that are due run, and the event loop      *)
(* finishes what it has begun.  The provider need not answer, and callers  *)
(* need not come.                                                          *)
(***************************************************************************)
TimerRuns(c) == SignalFires(c) \/ \E k \in Kinds : Wake(c, k)
Fairness ==
    /\ SF_changing(Quiet /\ Tick)
    /\ \A c \in Calls : WF_changing(Continues(c)) /\ SF_changing(Quiet /\ TimerRuns(c))
FairSpec == Spec /\ Fairness

-----------------------------------------------------------------------------
\* Safety

\* A call that is past its deadline only sits out the pauses it had begun before:
\* neither request starts another attempt, nor another pause, however often it
\* is told to retry and whoever still awaits it.
OverrunIsOnePause ==
    \A c \in Calls, k \in Kinds :
        flight[c].age > Deadline(c) /\ Pc(c, k) \notin Settled =>
            /\ Pc(c, k) = "pause"
            /\ flight[c].age + flight[c].request[k].pause <= Deadline(c) + MaxPause

\* The marine request never rejects while nobody awaits it, which would end the
\* process with an unhandled rejection: not when the main request has failed
\* first, and not when the shared signal times both out.
NoUnhandledRejection ==
    \A c \in Calls :
        MarineRejects(c) => Pc(c, "main") = "ok" \/ flight[c].signal = "manual"

\* The marine request is best-effort: once the forecast has arrived, no failure
\* and no time-out of the other request turns it into an error.
ForecastIsReturned ==
    [][\A c \in Calls :
         InProgress(c) /\ Pc(c, "main") = "ok" /\ flight[c].signal # "manual"
         => flight'[c].phase # "rejected"]_vars

\* An open circuit becomes quiet: calls admitted before it opened, and the marine
\* requests they leave behind, may still retry, but once it has been open for the
\* client's time-out nothing is sent to the provider until its cool-down ends.
OpenCircuitIsQuiet ==
    Breaker!CoolingDown /\ sinceOpened > Timeout =>
        \A c \in Calls, k \in Kinds : Pc(c, k) # "fetch"

-----------------------------------------------------------------------------
\* What the repository says and the code does not do.

\* "Caller cancellation must not count as a provider failure"
\* (circuit-breaker.ts:65): the caller's own time-out leaves the count alone.
CallerTimeoutSparesBreaker ==
    [][\A c \in Calls :
         /\ flight[c].phase = "exec" /\ flight'[c].phase = "rejected"
         /\ flight[c].signal = "caller"
         /\ Pc(c, "main") = "TimeoutError"
         => consecutiveFailures' = consecutiveFailures]_vars

-----------------------------------------------------------------------------
\* Liveness

\* Every call ends and leaves nothing running, even if the provider never answers:
\* the signal covers both requests and all their attempts.
CallsEnd ==
    \A c \in Calls :
        (InProgress(c) \/ Busy(c)) ~> ~(InProgress(c) \/ Busy(c))
=============================================================================
