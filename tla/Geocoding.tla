------------------------------ MODULE Geocoding ------------------------------
(***************************************************************************)
(* From a request's place name to a location (src/src/geocoding/resolve.ts)*)
(* with the two tables this goes through: the geocode cache                *)
(* (src/src/store/geocode-cache.repository.ts) and the locations, the      *)
(* first of which becomes tracked as long as there is room                 *)
(* (src/src/store/locations.repository.ts).                                *)
(*                                                                         *)
(* Requests run in several API processes.  A step is what happens between  *)
(* two awaits, or one statement in the database; the promotion is a        *)
(* transaction under an advisory lock.  A location is its coordinates, as  *)
(* rounded by the repository; a query is the normalized name.              *)
(***************************************************************************)
EXTENDS Naturals, FiniteSets, Sequences

CONSTANTS
    Requests,     \* concurrent calls of resolve()
    Procs,        \* API processes
    Host,         \* the process of each request
    Queries,
    Places,
    Answers,      \* what the provider may answer: sequences of places
    MaxTracked,   \* MAX_TRACKED_LOCATIONS
    Ttl,          \* GEOCODE_CACHE_TTL_SECONDS, in ticks; 0 disables expiry
    Nobody

ASSUME HostAssumption == Host \in [Requests -> Procs]
ASSUME AnswersAssumption == Answers \subseteq Seq(Places)
ASSUME LimitsAssumption == MaxTracked \in Nat /\ Ttl \in Nat
ASSUME NobodyAssumption == Nobody \notin Requests

VARIABLES
    created,    \* the rows of locations
    tracked,    \* those that are tracked
    lock,       \* who holds the advisory lock of the promotion
    row,        \* the geocode cache: the row of each query
    inflight,   \* inflightByQuery of each process: who resolves the query
    request     \* the calls of resolve()

vars == <<created, tracked, lock, row, inflight, request>>

\* Ages beyond the time to live are not told apart.
MaxAge == Ttl + 1
NoRow == [there |-> FALSE, answer |-> <<>>, age |-> 0, by |-> Nobody]
Row == [there : BOOLEAN, answer : Answers \cup {<<>>}, age : 0..MaxAge,
        by : Procs \cup {Nobody}]

\* A call waits for the first read of the cache ("lookup") or has found nothing
\* there ("missed"), waits for another call's resolve ("waiting"), for the second
\* read ("again"), for the provider ("geocode"), for the upserts of the candidates
\* ("create"), in the transaction of the promotion ("lock", "count", "commit"), for
\* the upsert of the cache row ("save"), or has been answered ("ok").  A call that
\* rejects leaves the request as it was before its first call.
Steps == {"lookup", "missed", "waiting", "again", "geocode", "create", "lock",
          "count", "commit", "save"}
\* Its candidates come from the cache at once, from the cache on the second read
\* (as is assumed until then) or from the provider.
Request ==
    [pc : Steps \cup {"idle", "ok"}, query : Queries,
     from : {"cache", "reread", "provider"}, waits : Requests \cup {Nobody},
     answer : Answers \cup {<<>>}, promote : BOOLEAN]
Ended(pc, q, answer) ==
    [pc |-> pc, query |-> q, from |-> "cache", waits |-> Nobody,
     answer |-> answer, promote |-> FALSE]

TypeOK ==
    /\ created \subseteq Places
    /\ tracked \subseteq created
    /\ lock \in Requests \cup {Nobody}
    /\ row \in [Queries -> Row]
    /\ inflight \in [Procs -> [Queries -> Requests \cup {Nobody}]]
    /\ request \in [Requests -> Request]

Init ==
    /\ created = {}
    /\ tracked = {}
    /\ lock = Nobody
    /\ row = [q \in Queries |-> NoRow]
    /\ inflight = [p \in Procs |-> [q \in Queries |-> Nobody]]
    /\ request \in [Requests -> {Ended("idle", q, <<>>) : q \in Queries}]

At(r, pc) == request[r].pc = pc
Query(r) == request[r].query
Goes(r, pc) == request' = [request EXCEPT ![r].pc = pc]
DatabaseUnchanged == UNCHANGED <<created, tracked, lock, row>>

\* isCacheFresh
Fresh(q) == row[q].there /\ (Ttl = 0 \/ row[q].age <= Ttl)

-----------------------------------------------------------------------------
\* How a call ends: alone, or with everybody who awaits it.

\* Fault: a resolve that rejects stays in the map (then instead of finally).
InflightAfterKeepingFailed(r, pc) ==
    IF pc = "ok" THEN [inflight EXCEPT ![Host[r]][Query(r)] = Nobody] ELSE inflight

\* inflightByQuery.delete in the finally block
InflightAfter(r, pc) == [inflight EXCEPT ![Host[r]][Query(r)] = Nobody]

End(r, pc) ==
    /\ inflight' = IF request[r].from = "cache" THEN inflight ELSE InflightAfter(r, pc)
    /\ request' = [s \in Requests |->
           IF s = r \/ request[s].waits = r
           THEN Ended(pc, Query(r), IF pc = "ok" THEN request[r].answer ELSE <<>>)
           ELSE request[s]]

\* Fault: the lock is the session's (pg_advisory_lock) and outlives the transaction.
ReleasedNever(r) == lock

\* The transaction ends, by a commit or not, and its lock with it.
Released(r) == IF lock = r THEN Nobody ELSE lock

\* Any step may reject; the transaction is rolled back, or has committed without
\* the answer arriving, and upserts sent along with the one that failed may still
\* be executed.
Rejects(r) ==
    /\ request[r].pc \in Steps \ {"missed", "waiting"}
    /\ lock' = Released(r)
    /\ IF At(r, "create")
       THEN \E some \in SUBSET {request[r].answer[i] : i \in DOMAIN request[r].answer} :
              created' = created \cup some
       ELSE UNCHANGED created
    /\ End(r, "idle")
    /\ UNCHANGED <<tracked, row>>

-----------------------------------------------------------------------------
\* resolveLocationInput()

\* A request with a name; one with invalid input is rejected at once.
Start(r, q) ==
    /\ request[r].pc \in {"idle", "ok"}
    /\ request' = [request EXCEPT ![r] = Ended("lookup", q, <<>>)]
    /\ UNCHANGED inflight
    /\ DatabaseUnchanged

\* A request with coordinates creates its location, untracked.
Coordinates(place) ==
    /\ created' = created \cup {place}
    /\ UNCHANGED <<tracked, lock, row, inflight, request>>

\* mapCandidatesToLocations: no candidate is an error.
Map(r, answer, from) ==
    \/ answer = <<>> /\ End(r, "idle")
    \/ /\ answer # <<>>
       /\ request' = [request EXCEPT ![r].pc = "create", ![r].answer = answer,
                                     ![r].from = from]
       /\ UNCHANGED inflight

LookupHit(r) ==
    /\ At(r, "lookup")
    /\ Fresh(Query(r))
    /\ Map(r, row[Query(r)].answer, "cache")
    /\ DatabaseUnchanged

LookupMiss(r) ==
    /\ At(r, "lookup")
    /\ ~Fresh(Query(r))
    /\ Goes(r, "missed")
    /\ UNCHANGED inflight
    /\ DatabaseUnchanged

\* resolveCacheMiss, when the answer of the read arrives: join the resolve in flight
\* in this process, or start one.
Join(r) ==
    LET other == inflight[Host[r]][Query(r)]
    IN  /\ At(r, "missed")
        /\ \/ /\ other # Nobody
              /\ request' = [request EXCEPT ![r].pc = "waiting", ![r].waits = other]
              /\ UNCHANGED inflight
           \/ /\ other = Nobody
              /\ request' = [request EXCEPT ![r].pc = "again", ![r].from = "reread"]
              /\ inflight' = [inflight EXCEPT ![Host[r]][Query(r)] = r]
        /\ DatabaseUnchanged

\* Fault: the cache is not read again.
AgainIgnoringCache(r) ==
    /\ At(r, "again")
    /\ Goes(r, "geocode")
    /\ UNCHANGED inflight
    /\ DatabaseUnchanged

Again(r) ==
    /\ At(r, "again")
    /\ \/ Fresh(Query(r)) /\ Map(r, row[Query(r)].answer, "reread")
       \/ ~Fresh(Query(r)) /\ Goes(r, "geocode") /\ UNCHANGED inflight
    /\ DatabaseUnchanged

Geocode(r) ==
    /\ At(r, "geocode")
    /\ \E answer \in Answers : Map(r, answer, "provider")
    /\ DatabaseUnchanged

\* findOrCreateLocation of every candidate
Create(r) ==
    /\ At(r, "create")
    /\ created' = created \cup {request[r].answer[i] : i \in DOMAIN request[r].answer}
    /\ Goes(r, "lock")
    /\ UNCHANGED <<tracked, lock, row, inflight>>

Primary(r) == Head(request[r].answer)

\* Fault: the advisory lock is not taken.
TakeNoLock(r) ==
    /\ At(r, "lock")
    /\ Goes(r, "count")
    /\ UNCHANGED <<created, tracked, lock, row, inflight>>

\* tryPromoteTracked
TakeLock(r) ==
    /\ At(r, "lock")
    /\ lock = Nobody
    /\ lock' = r
    /\ Goes(r, "count")
    /\ UNCHANGED <<created, tracked, row, inflight>>

\* Fault: the last place is never given away.
RoomButOne == Cardinality(tracked) + 1 < MaxTracked
Room == Cardinality(tracked) < MaxTracked

Count(r) ==
    /\ At(r, "count")
    /\ request' = [request EXCEPT ![r].pc = "commit",
                                  ![r].promote = Primary(r) \notin tracked /\ Room]
    /\ UNCHANGED inflight
    /\ DatabaseUnchanged

\* The transaction commits.  An answer of the provider goes to the cache, another
\* one to the request; the commit's own answer may be lost.
Commit(r) ==
    /\ At(r, "commit")
    /\ tracked' = IF request[r].promote THEN tracked \cup {Primary(r)} ELSE tracked
    /\ lock' = Released(r)
    /\ \/ request[r].from = "provider" /\ Goes(r, "save") /\ UNCHANGED inflight
       \/ request[r].from # "provider" /\ End(r, "ok")
       \/ End(r, "idle")
    /\ UNCHANGED <<created, row>>

\* upsertGeocodeCache, whose answer may be lost too.  Not modelled: an upsert that
\* Postgres executes some time after its call was rejected or its process died.
Save(r) ==
    /\ At(r, "save")
    /\ row' = [row EXCEPT ![Query(r)] =
           [there |-> TRUE, answer |-> request[r].answer, age |-> 0, by |-> Host[r]]]
    /\ End(r, "ok") \/ End(r, "idle")
    /\ UNCHANGED <<created, tracked, lock>>

-----------------------------------------------------------------------------
\* The rest of the system.

\* Fault: a row exactly as old as the time to live is deleted.
ExpiredEarly(q) == Ttl > 0 /\ row[q].there /\ row[q].age >= Ttl

Expired(q) == Ttl > 0 /\ row[q].there /\ row[q].age > Ttl

\* deleteExpired() computes its cutoff some time before the statement executes: a
\* row that expires in between stays.
Sweep ==
    /\ \E gone \in (SUBSET {q \in Queries : Expired(q)}) \ {{}} :
         row' = [q \in Queries |-> IF q \in gone THEN NoRow ELSE row[q]]
    /\ UNCHANGED <<created, tracked, lock, inflight, request>>

Tick ==
    /\ \E q \in Queries : row[q].there /\ row[q].age < MaxAge
    /\ row' = [q \in Queries |->
           IF row[q].there /\ row[q].age < MaxAge
           THEN [row[q] EXCEPT !.age = @ + 1] ELSE row[q]]
    /\ UNCHANGED <<created, tracked, lock, inflight, request>>

\* A process dies and starts again; the database aborts its transaction.
Crash(p) ==
    /\ request' = [r \in Requests |->
           IF Host[r] = p THEN Ended("idle", Query(r), <<>>) ELSE request[r]]
    /\ inflight' = [inflight EXCEPT ![p] = [q \in Queries |-> Nobody]]
    /\ lock' = IF lock # Nobody /\ Host[lock] = p THEN Nobody ELSE lock
    /\ UNCHANGED <<created, tracked, row>>

Continue(r) ==
    \/ LookupHit(r) \/ LookupMiss(r) \/ Join(r) \/ Again(r) \/ Geocode(r)
    \/ Create(r) \/ Count(r) \/ Commit(r) \/ Save(r)

Next ==
    \/ \E r \in Requests :
         \/ Continue(r) \/ TakeLock(r) \/ Rejects(r)
         \/ \E q \in Queries : Start(r, q)
    \/ \E place \in Places : Coordinates(place)
    \/ Sweep \/ Tick
    \/ \E p \in Procs : Crash(p)

Spec == Init /\ [][Next]_vars

(***************************************************************************)
(* The event loop runs every continuation, the provider's client settles   *)
(* (OpenMeteoClient) and Postgres answers, giving the lock to each who     *)
(* waits for it.  Nothing forces anything to fail, or time to pass.        *)
(***************************************************************************)
Fairness == \A r \in Requests : WF_vars(Continue(r)) /\ SF_vars(TakeLock(r))
FairSpec == Spec /\ Fairness

-----------------------------------------------------------------------------
\* Safety

\* "concurrent promotes cannot exceed the cap" (locations.repository.ts:81),
\* across processes, crashes and transactions that fail.
WithinCap == Cardinality(tracked) <= MaxTracked

\* The cap is the only reason not to track: the location that a named request is
\* answered with is tracked, unless no place is left, then or ever after.
AnsweredIsTracked ==
    \A r \in Requests : At(r, "ok") =>
        Primary(r) \in tracked \/ Cardinality(tracked) = MaxTracked

\* Whoever waits for another request's resolve waits for the one that resolves its
\* query in its process, and the map names no resolve that has ended: nobody is
\* left waiting, or given the outcome of something else.
FlightsShared ==
    /\ \A r \in Requests : At(r, "waiting") =>
         /\ request[r].waits # Nobody
         /\ inflight[Host[r]][Query(r)] = request[r].waits
    /\ \A p \in Procs, q \in Queries : inflight[p][q] # Nobody =>
         LET r == inflight[p][q]
         IN  /\ Host[r] = p /\ Query(r) = q
             /\ request[r].pc \in Steps \ {"lookup", "missed", "waiting"}

\* A process does not ask the provider for what it has just learnt: while it waits
\* for the provider, the cache has no fresh row that the process itself has saved,
\* however many requests missed that row before it was there.  (By an upsert that was
\* executed while its call lasted: one that is executed later is not learnt.)
NoRepeatedLookup ==
    \A r \in Requests : At(r, "geocode") =>
        ~(Fresh(Query(r)) /\ row[Query(r)].by = Host[r])

\* The worker's sweep and the requests agree on the time to live to the tick: the
\* sweep never deletes a row that a request would still use.
FreshRowsSurvive ==
    [][\A q \in Queries : Fresh(q) => row'[q].there]_vars

-----------------------------------------------------------------------------
\* Liveness

\* Every request is answered, with its location or an error, however many share a
\* resolve and whatever fails in it.
RequestsAnswered ==
    \A r \in Requests : []<>(request[r].pc \notin Steps)
=============================================================================
