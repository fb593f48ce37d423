-------------------------- MODULE ActivityRanking ---------------------------
(***************************************************************************)
(* A request of the API: rank() and the cold start it falls back to        *)
(* (src/src/activity-ranking/activity-ranking.service.ts), in one API      *)
(* process with many requests in flight.                                   *)
(*                                                                         *)
(* A cold start ("flight") is named after the request that launched it; it *)
(* is a promise that other requests for the location await too.  A step is *)
(* what runs between two awaits, or what a query does in the database.     *)
(*                                                                         *)
(* The store is reduced to what getForecastDays can tell: stored[l] says   *)
(* whether the table has no row of l, only rows of past days, or rows of   *)
(* today or later.  ForecastStore models the rest and justifies this view: *)
(* rows never vanish altogether (StaleOverEmpty), empty results are never  *)
(* cached, and days always come with a lastUpdated (WarmMeansForecast).    *)
(***************************************************************************)
EXTENDS Naturals, FiniteSets

CONSTANTS
    Requests,        \* concurrent calls of rank()
    Locations,
    MaxConcurrent,   \* COLD_START_MAX_CONCURRENT
    NoFlight         \* no cold start

ASSUME RequestsAssumption == IsFiniteSet(Requests) /\ NoFlight \notin Requests
ASSUME LocationsAssumption == Locations # {}
ASSUME MaxConcurrentAssumption == MaxConcurrent \in Nat

VARIABLES
    request,    \* the rank() calls
    flight,     \* the runColdStart() calls, by the request that launched them
    inflight,   \* coldStartInflight
    count,      \* coldStartInFlightCount
    stored      \* what the table holds

vars == <<request, flight, inflight, count, stored>>

\* The codes of the GraphQL answer: none, PROVIDER_UNAVAILABLE, BAD_USER_INPUT and, of
\* every other error, INTERNAL_SERVER_ERROR.
Answers == {"ok", "unavailable", "badInput", "error"}
RequestRecord ==
    [pc : {"idle", "reading", "cold", "warm", "waiting", "answered"},
     loc : Locations, waits : Requests \cup {NoFlight}, answer : Answers]

\* A flight holds a slot of the concurrency limit while it is "fetching",
\* "upserting" or "committed"; then it re-reads the store and carries its result.
Slotted == {"fetching", "upserting", "committed"}
Results == {"days", "empty", "failed"}
FlightStates == {"none", "rereading"} \cup Slotted \cup Results

TypeOK ==
    /\ request \in [Requests -> RequestRecord]
    /\ flight \in [Requests -> FlightStates]
    /\ inflight \in [Locations -> Requests \cup {NoFlight}]
    /\ count \in Nat
    /\ stored \in [Locations -> {"nothing", "past", "current"}]

AnyLocation == CHOOSE l \in Locations : TRUE
IdleRequest ==
    [pc |-> "idle", loc |-> AnyLocation, waits |-> NoFlight, answer |-> "ok"]

Init ==
    /\ request = [r \in Requests |-> IdleRequest]
    /\ flight = [r \in Requests |-> "none"]
    /\ inflight = [l \in Locations |-> NoFlight]
    /\ count = 0
    /\ stored = [l \in Locations |-> "nothing"]

Loc(r) == request[r].loc
Answered(a) == [IdleRequest EXCEPT !.pc = "answered", !.answer = a]

\* What getForecastDays may find: past rows are filtered out by the query, but a
\* cached entry, or a query sent before midnight, still returns them.
MayFindDays(l) == stored[l] # "nothing"
MayFindNoDays(l) == stored[l] # "current"

-----------------------------------------------------------------------------
\* rank()

\* What geocoding.resolve may reject with: errors of its own, of the client (a
\* status, an open circuit, an aborted signal, one that timed out, the network) and
\* of the database.  isProviderFailure() knows three of them.
ResolveErrors ==
    {"badInput", "http", "circuitOpen", "AbortError", "TimeoutError", "network", "database"}
IsProviderFailure(e) == e \in {"http", "circuitOpen", "AbortError"}
AnswerTo(e) ==
    IF e = "badInput" THEN "badInput"
    ELSE IF IsProviderFailure(e) THEN "unavailable" ELSE "error"

\* The input resolves to a location, or the request ends.
Resolve(r) ==
    /\ request[r].pc = "idle"
    /\ \/ \E l \in Locations :
            request' = [request EXCEPT ![r].pc = "reading", ![r].loc = l]
       \/ \E e \in ResolveErrors :
            request' = [request EXCEPT ![r] = Answered(AnswerTo(e))]
    /\ UNCHANGED <<flight, inflight, count, stored>>

\* The first getForecastDays.
Read(r) ==
    /\ request[r].pc = "reading"
    /\ \/ MayFindDays(Loc(r)) /\ request' = [request EXCEPT ![r].pc = "warm"]
       \/ MayFindNoDays(Loc(r)) /\ request' = [request EXCEPT ![r].pc = "cold"]
       \/ request' = [request EXCEPT ![r] = Answered("error")]
    /\ UNCHANGED <<flight, inflight, count, stored>>

\* Fault: the flight in progress is not looked up.
IsInFlightNever(l) == FALSE
IsInFlight(l) == inflight[l] # NoFlight

\* coldStart(): somebody's cold start of the location is in flight: await it.
Join(r) ==
    /\ request[r].pc = "cold"
    /\ IsInFlight(Loc(r))
    /\ request' = [request EXCEPT ![r].pc = "waiting", ![r].waits = inflight[Loc(r)]]
    /\ UNCHANGED <<flight, inflight, count, stored>>

\* runColdStart(), up to its first await, behind an entry of coldStartInflight.
Begin(r, state) ==
    /\ request[r].pc = "cold"
    /\ ~IsInFlight(Loc(r))
    /\ inflight' = [inflight EXCEPT ![Loc(r)] = r]
    /\ flight' = [flight EXCEPT ![r] = state]
    /\ request' = [request EXCEPT ![r].pc = "waiting", ![r].waits = r]
    /\ UNCHANGED stored

\* Fault: a cold start over the limit is counted, but its early return is outside
\* the try that counts it down.
RejectCounting(r) ==
    /\ count >= MaxConcurrent
    /\ Begin(r, "rereading")
    /\ count' = count + 1

\* At the limit: no fetch, the store is read again.
Reject(r) ==
    /\ count >= MaxConcurrent
    /\ Begin(r, "rereading")
    /\ UNCHANGED count

Launch(r) ==
    /\ count < MaxConcurrent
    /\ Begin(r, "fetching")
    /\ count' = count + 1

-----------------------------------------------------------------------------
\* runColdStart(), by the request that launched it.

Moves(r, from, to) ==
    /\ flight[r] \in from
    /\ flight' = [flight EXCEPT ![r] = to]

FreeSlot == count' = count - 1

\* The provider answers with days.
FetchDays(r) ==
    /\ Moves(r, {"fetching"}, "upserting")
    /\ UNCHANGED <<request, inflight, count, stored>>

\* The provider answers with no day, or the fetch fails or times out: what is
\* stored is returned instead.  The slot is freed when the read has been started,
\* not when it has been answered (return without await).
FetchNothing(r) ==
    /\ Moves(r, {"fetching"}, "rereading")
    /\ FreeSlot
    /\ UNCHANGED <<request, inflight, stored>>

\* upsertForecastDays: the transaction commits; later its promise resolves.
UpsertCommits(r) ==
    /\ Moves(r, {"upserting"}, "committed")
    /\ stored' = [stored EXCEPT ![Loc(r)] = "current"]
    /\ UNCHANGED <<request, inflight, count>>

UpsertResolves(r) ==
    /\ Moves(r, {"committed"}, "rereading")
    /\ FreeSlot
    /\ UNCHANGED <<request, inflight, stored>>

\* upsertForecastDays rejects; the transaction may nevertheless have committed.
UpsertRejects(r) ==
    /\ Moves(r, {"upserting", "committed"}, "failed")
    /\ FreeSlot
    /\ UNCHANGED <<request, inflight, stored>>

\* The last getForecastDays of runColdStart.
Reread(r) ==
    /\ \/ MayFindDays(Loc(r)) /\ Moves(r, {"rereading"}, "days")
       \/ MayFindNoDays(Loc(r)) /\ Moves(r, {"rereading"}, "empty")
       \/ Moves(r, {"rereading"}, "failed")
    /\ UNCHANGED <<request, inflight, count, stored>>

\* Fault: a request that finds the store still empty cold-starts again.
AfterRetrying(r, result) ==
    CASE result = "days"   -> [request[r] EXCEPT !.pc = "warm", !.waits = NoFlight]
      [] result = "empty"  -> [request[r] EXCEPT !.pc = "cold", !.waits = NoFlight]
      [] result = "failed" -> Answered("error")

\* What a request makes of the flight it awaits.
After(r, result) ==
    CASE result = "days"   -> [request[r] EXCEPT !.pc = "warm", !.waits = NoFlight]
      [] result = "empty"  -> Answered("unavailable")
      [] result = "failed" -> Answered("error")

\* coldStartInflight.delete in the finally block
InflightAfter(r) == [inflight EXCEPT ![Loc(r)] = NoFlight]

\* The promise settles: its entry is deleted and everybody who awaits it goes on.
Settle(r) ==
    /\ flight[r] \in Results
    /\ inflight' = InflightAfter(r)
    /\ flight' = [flight EXCEPT ![r] = "none"]
    /\ request' = [s \in Requests |->
           IF request[s].waits = r THEN After(s, flight[r]) ELSE request[s]]
    /\ UNCHANGED <<count, stored>>

\* getForecastMeta, and the answer.
Finish(r) ==
    /\ request[r].pc = "warm"
    /\ \/ request' = [request EXCEPT ![r] =
              Answered(IF stored[Loc(r)] = "nothing" THEN "unavailable" ELSE "ok")]
       \/ request' = [request EXCEPT ![r] = Answered("error")]
    /\ UNCHANGED <<flight, inflight, count, stored>>

\* The client has its answer; another request takes the place of this one.
Again(r) ==
    /\ request[r].pc = "answered"
    /\ request' = [request EXCEPT ![r] = IdleRequest]
    /\ UNCHANGED <<flight, inflight, count, stored>>

-----------------------------------------------------------------------------
\* The rest of the system.

\* The refresh worker, or another API process, commits a forecast.
OtherUpsert(l) ==
    /\ stored' = [stored EXCEPT ![l] = "current"]
    /\ UNCHANGED <<request, flight, inflight, count>>

\* The last stored day of a location that is not refreshed passes.
Lapse(l) ==
    /\ stored[l] = "current"
    /\ stored' = [stored EXCEPT ![l] = "past"]
    /\ UNCHANGED <<request, flight, inflight, count>>

RankStep(r) ==
    Resolve(r) \/ Read(r) \/ Join(r) \/ Reject(r) \/ Launch(r) \/ Finish(r)
FlightStep(r) ==
    \/ FetchDays(r) \/ FetchNothing(r) \/ UpsertCommits(r) \/ UpsertResolves(r)
    \/ UpsertRejects(r) \/ Reread(r) \/ Settle(r)

Next ==
    \/ \E r \in Requests : RankStep(r) \/ FlightStep(r) \/ Again(r)
    \/ \E l \in Locations : OtherUpsert(l) \/ Lapse(l)

Spec == Init /\ [][Next]_vars

(***************************************************************************)
(* The event loop runs every continuation, Postgres answers or fails every *)
(* query, and a fetch settles: its attempts are bounded and each is under  *)
(* a timeout.  Nothing forces a new request, an upsert elsewhere or the    *)
(* passing of a day.                                                       *)
(***************************************************************************)
Fairness == \A r \in Requests : WF_vars(RankStep(r)) /\ WF_vars(FlightStep(r))
FairSpec == Spec /\ Fairness

-----------------------------------------------------------------------------
\* Safety

\* The counter is the number of cold starts between their check and their finally
\* block, on every path out of runColdStart, and never passes the limit: slots do
\* not leak, and the early return at the limit gives back none it did not take.
SlotsAreFlights ==
    /\ count = Cardinality({r \in Requests : flight[r] \in Slotted})
    /\ count <= MaxConcurrent

\* The map is exact.  Every cold start in progress is the one of its location in the
\* map, so that the requests of a location never cost the provider two fetches at
\* once; whoever awaits one awaits that; and the map holds no settled promise:
\* nobody is left waiting for a result that was already delivered, or served an old
\* one.
WaitersHaveFlight ==
    /\ \A r \in Requests : flight[r] # "none" => inflight[Loc(r)] = r
    /\ \A r \in Requests : request[r].pc = "waiting" =>
         /\ inflight[Loc(r)] = request[r].waits
         /\ request[r].waits # NoFlight
    /\ \A l \in Locations : inflight[l] # NoFlight =>
         flight[inflight[l]] # "none" /\ Loc(inflight[l]) = l

-----------------------------------------------------------------------------
\* Liveness

\* Every request is answered, whatever becomes of the cold start it awaits.
EveryRequestAnswered ==
    \A r \in Requests : (request[r].pc = "reading") ~> (request[r].pc = "answered")
=============================================================================
