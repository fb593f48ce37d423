--------------------------- MODULE ForecastStore ----------------------------
(***************************************************************************)
(* The persisted forecasts (src/src/store/forecasts.repository.ts): the    *)
(* forecast_days table in Postgres, written by the refresh worker and by   *)
(* cold starts in the API processes, and read through the forecast cache   *)
(* of each process.                                                        *)
(*                                                                         *)
(* A step is what happens between two awaits, or what one SQL statement    *)
(* does in the database; between them any other call may run, a process    *)
(* may crash, a transaction may fail.  Postgres is external: a transaction *)
(* becomes visible at once when it commits, each statement reads what is   *)
(* committed then (READ COMMITTED), and pg_advisory_xact_lock is held      *)
(* until the end of the transaction.                                       *)
(*                                                                         *)
(* Of a stored day only fetchedAt is kept: rows[l][d] is the fetchedAt of  *)
(* the row of location l and date d, 0 when there is no such row.  Each    *)
(* upsert has a fetchedAt of its own, so it also tells whose data it is.   *)
(***************************************************************************)
EXTENDS Integers, CacheMap

CONSTANTS
    Dates,        \* forecast dates, as day numbers
    Writers,      \* concurrent calls of upsertForecastDays
    Readers,      \* concurrent requests that read a forecast
    Procs,        \* processes, each with its own cache
    Host,         \* the process a writer or reader runs in
    Payloads,     \* the sets of dates an upsert may be given
    NoWriter,     \* nobody holds the advisory lock
    FirstDay,     \* the UTC day on which the behaviour starts
    LastDay,      \* bound: no midnight after this day
    MaxUpserts    \* bound: upserts started in a behaviour

ASSUME LocationsAssumption == Locations # {}
ASSUME DatesAssumption == Dates \subseteq Int /\ FirstDay \in Int /\ LastDay \in Int
ASSUME HostAssumption == Host \in [Writers \cup Readers -> Procs]
ASSUME PayloadsAssumption == Payloads \subseteq SUBSET Dates
ASSUME NoWriterAssumption == NoWriter \notin Writers

VARIABLES
    rows,     \* the table
    lock,     \* who holds pg_advisory_xact_lock(hashtext(l))
    writer,   \* the upsertForecastDays calls in progress
    reader,   \* the reads in progress
    cache,    \* the forecast cache of each process
    today,    \* the current UTC day
    clock     \* the last fetchedAt taken from new Date()

vars == <<rows, lock, writer, reader, cache, today, clock>>

Forecast == [Dates -> Nat]
NoForecast == [d \in Dates |-> 0]

\* Where a call is: see the actions.
WriterRecord ==
    [pc : {"idle", "waiting", "locked", "deleted", "committed"},
     loc : Locations, dates : SUBSET Dates, fetchedAt : Nat, today : Int,
     doomed : SUBSET Dates]
ReaderRecord ==
    [pc : {"idle", "days", "cacheMeta", "fill", "gotDays", "meta", "done", "empty"},
     loc : Locations, today : Int, days : Forecast, meta : Nat]
Entry == [days : Forecast, meta : Nat, left : 0..Ttl]

AnyLocation == CHOOSE l \in Locations : TRUE
IdleWriter ==
    [pc |-> "idle", loc |-> AnyLocation, dates |-> {}, fetchedAt |-> 0,
     today |-> 0, doomed |-> {}]
IdleReader ==
    [pc |-> "idle", loc |-> AnyLocation, today |-> 0, days |-> NoForecast, meta |-> 0]

TypeOK ==
    /\ rows \in [Locations -> Forecast]
    /\ lock \in [Locations -> Writers \cup {NoWriter}]
    /\ writer \in [Writers -> WriterRecord]
    /\ reader \in [Readers -> ReaderRecord]
    /\ cache \in [Procs -> [Locations -> Entry \cup {NoEntry}]]
    /\ today \in Int
    /\ clock \in Nat

Init ==
    /\ rows = [l \in Locations |-> NoForecast]
    /\ lock = [l \in Locations |-> NoWriter]
    /\ writer = [w \in Writers |-> IdleWriter]
    /\ reader = [r \in Readers |-> IdleReader]
    /\ cache = [p \in Procs |-> EmptyCache]
    /\ today = FirstDay
    /\ clock = 0

-----------------------------------------------------------------------------
\* upsertForecastDays

\* The span of a payload: windowStart..windowEnd.
InWindow(d, dates) == (\E e \in dates : e <= d) /\ (\E e \in dates : d <= e)

\* Fault: startOfUtcDay is computed once, when the process starts.
StartOfUtcDayOnce == FirstDay
StartOfUtcDay == today

\* Fault: an empty payload is written like any other.
IsWrittenAlways(dates) == TRUE
IsWritten(dates) == dates # {}

\* fetchedAt and today are taken before the transaction opens.  An empty payload
\* returns at once, and a malformed date throws at once (parseForecastDate): in
\* both cases nothing has happened, so Payloads has well-formed dates only.
StartUpsert(w, l, dates) ==
    /\ writer[w].pc = "idle"
    /\ IsWritten(dates)
    /\ clock < MaxUpserts
    /\ clock' = clock + 1
    /\ writer' = [writer EXCEPT ![w] =
           [pc |-> "waiting", loc |-> l, dates |-> dates, fetchedAt |-> clock + 1,
            today |-> StartOfUtcDay, doomed |-> {}]]
    /\ UNCHANGED <<rows, lock, reader, cache, today>>

\* Fault: the transaction starts without the advisory lock.
TakeNoLock(w) ==
    /\ writer[w].pc = "waiting"
    /\ writer' = [writer EXCEPT ![w].pc = "locked"]
    /\ UNCHANGED <<rows, lock, reader, cache, today, clock>>

\* SELECT pg_advisory_xact_lock(hashtext(locationId))
TakeLock(w) ==
    /\ writer[w].pc = "waiting"
    /\ lock[writer[w].loc] = NoWriter
    /\ lock' = [lock EXCEPT ![writer[w].loc] = w]
    /\ writer' = [writer EXCEPT ![w].pc = "locked"]
    /\ UNCHANGED <<rows, reader, cache, today, clock>>

\* The committed rows that the deleteMany statement selects: past days, and days
\* within the payload's span that the payload does not have.
Obsolete(w) ==
    {d \in Dates :
        /\ rows[writer[w].loc][d] # 0
        /\ \/ d < writer[w].today
           \/ InWindow(d, writer[w].dates) /\ d \notin writer[w].dates}

DeleteObsolete(w) ==
    /\ writer[w].pc = "locked"
    /\ writer' = [writer EXCEPT ![w].pc = "deleted", ![w].doomed = Obsolete(w)]
    /\ UNCHANGED <<rows, lock, reader, cache, today, clock>>

Released(w) == [l \in Locations |-> IF lock[l] = w THEN NoWriter ELSE lock[l]]

\* The upserts of the payload's days and the commit, which makes the deletions
\* visible too and releases the lock.
Commit(w) ==
    /\ writer[w].pc = "deleted"
    /\ rows' = [rows EXCEPT ![writer[w].loc] = [d \in Dates |->
           IF d \in writer[w].dates THEN writer[w].fetchedAt
           ELSE IF d \in writer[w].doomed THEN 0 ELSE @[d]]]
    /\ lock' = Released(w)
    /\ writer' = [writer EXCEPT ![w].pc = "committed"]
    /\ UNCHANGED <<reader, cache, today, clock>>

\* Fault: a failed transaction leaves its lock behind (a session lock that
\* nobody releases).
RollbackKeepingLock(w) ==
    /\ writer[w].pc \in {"waiting", "locked", "deleted"}
    /\ writer' = [writer EXCEPT ![w] = IdleWriter]
    /\ UNCHANGED <<rows, lock, reader, cache, today, clock>>

\* A statement, or the interactive transaction, fails or times out: the database
\* rolls back, the call rejects.
Rollback(w) ==
    /\ writer[w].pc \in {"waiting", "locked", "deleted"}
    /\ lock' = Released(w)
    /\ writer' = [writer EXCEPT ![w] = IdleWriter]
    /\ UNCHANGED <<rows, reader, cache, today, clock>>

\* The transaction has resolved: forget the cached forecast, in this process.
InvalidateCache(w) ==
    /\ writer[w].pc = "committed"
    /\ cache' = [cache EXCEPT ![Host[w]] = AfterInvalidate(@, writer[w].loc)]
    /\ writer' = [writer EXCEPT ![w] = IdleWriter]
    /\ UNCHANGED <<rows, lock, reader, today, clock>>

\* The transaction has committed but its answer is lost: the call rejects and
\* invalidates nothing.
LoseCommitAnswer(w) ==
    /\ writer[w].pc = "committed"
    /\ writer' = [writer EXCEPT ![w] = IdleWriter]
    /\ UNCHANGED <<rows, lock, reader, cache, today, clock>>

Write(w) ==
    \/ TakeLock(w) \/ DeleteObsolete(w) \/ Commit(w) \/ Rollback(w)
    \/ InvalidateCache(w) \/ LoseCommitAnswer(w)

-----------------------------------------------------------------------------
\* getForecastDays, then getForecastMeta: what a request does with a warm
\* location (activity-ranking.service.ts:66-77).

\* The rows that findMany returns, in the order of their dates.
Visible(l, day) == [d \in Dates |-> IF d >= day THEN rows[l][d] ELSE 0]

Cached(r, l) == Hit(cache[Host[r]], l)
CacheAfterGet(r, l) == [cache EXCEPT ![Host[r]] = AfterGet(@, l)]

StartGetDays(r, l) ==
    /\ reader[r].pc = "idle"
    /\ cache' = CacheAfterGet(r, l)
    /\ reader' = [reader EXCEPT ![r] =
           IF Cached(r, l)
           THEN [IdleReader EXCEPT !.pc = "gotDays", !.loc = l,
                                   !.days = cache[Host[r]][l].days]
           ELSE [IdleReader EXCEPT !.pc = "days", !.loc = l,
                                   !.today = StartOfUtcDay]]
    /\ UNCHANGED <<rows, lock, writer, today, clock>>

\* Fault: an empty result is cached like any other.
IsCachedAlways(days) == TRUE
IsCached(days) == days # NoForecast

\* findMany executes; no rows is the answer, and is not cached.
QueryDays(r) ==
    /\ reader[r].pc = "days"
    /\ LET days == Visible(reader[r].loc, reader[r].today)
       IN  reader' = [reader EXCEPT
               ![r].days = days,
               ![r].pc = IF IsCached(days) THEN "cacheMeta" ELSE "empty"]
    /\ UNCHANGED <<rows, lock, writer, cache, today, clock>>

\* getForecastMetaUncached: the row findFirst returns, ordered by fetchedAt
\* descending over all the rows of the location; fetchedAt is null (0) when
\* there is none.
Newest(l, d) == \A e \in Dates : rows[l][e] <= rows[l][d]

QueryCacheMeta(r) ==
    /\ reader[r].pc = "cacheMeta"
    /\ \E d \in Dates :
         /\ Newest(reader[r].loc, d)
         /\ reader' = [reader EXCEPT ![r].pc = "fill",
                                     ![r].meta = rows[reader[r].loc][d]]
    /\ UNCHANGED <<rows, lock, writer, cache, today, clock>>

NewEntry(r) == [days |-> reader[r].days, meta |-> reader[r].meta, left |-> Ttl]

\* forecastCache.set, when the answer of the metadata query arrives.
\* getForecastDays returns the days only.
Fill(r) ==
    /\ reader[r].pc = "fill"
    /\ \E c \in AfterSet(cache[Host[r]], reader[r].loc, NewEntry(r)) :
         cache' = [cache EXCEPT ![Host[r]] = c]
    /\ reader' = [reader EXCEPT ![r].pc = "gotDays", ![r].meta = 0]
    /\ UNCHANGED <<rows, lock, writer, today, clock>>

StartGetMeta(r) ==
    /\ reader[r].pc = "gotDays"
    /\ cache' = CacheAfterGet(r, reader[r].loc)
    /\ reader' = [reader EXCEPT
           ![r].pc = IF Cached(r, reader[r].loc) THEN "done" ELSE "meta",
           ![r].meta = IF Cached(r, reader[r].loc)
                       THEN cache[Host[r]][reader[r].loc].meta ELSE 0]
    /\ UNCHANGED <<rows, lock, writer, today, clock>>

QueryMeta(r) ==
    /\ reader[r].pc = "meta"
    /\ \E d \in Dates :
         /\ Newest(reader[r].loc, d)
         /\ reader' = [reader EXCEPT ![r].pc = "done",
                                     ![r].meta = rows[reader[r].loc][d]]
    /\ UNCHANGED <<rows, lock, writer, cache, today, clock>>

\* The request answers, or a query of it fails: either way the read is over.
EndRead(r) ==
    /\ reader[r].pc # "idle"
    /\ reader' = [reader EXCEPT ![r] = IdleReader]
    /\ UNCHANGED <<rows, lock, writer, cache, today, clock>>

Read(r) ==
    \/ QueryDays(r) \/ QueryCacheMeta(r) \/ Fill(r) \/ StartGetMeta(r)
    \/ QueryMeta(r) \/ EndRead(r)

-----------------------------------------------------------------------------
\* The environment.

\* A process dies and starts again: its calls are gone, the database aborts its
\* open transactions, its cache is empty.
Crash(p) ==
    /\ writer' = [w \in Writers |-> IF Host[w] = p THEN IdleWriter ELSE writer[w]]
    /\ reader' = [r \in Readers |-> IF Host[r] = p THEN IdleReader ELSE reader[r]]
    /\ lock' = [l \in Locations |->
           IF lock[l] # NoWriter /\ Host[lock[l]] = p THEN NoWriter ELSE lock[l]]
    /\ cache' = [cache EXCEPT ![p] = EmptyCache]
    /\ UNCHANGED <<rows, today, clock>>

Midnight ==
    /\ today < LastDay
    /\ today' = today + 1
    /\ UNCHANGED <<rows, lock, writer, reader, cache, clock>>

\* Time passes for the caches.
Tick ==
    /\ \E p \in Procs, l \in Locations : Hit(cache[p], l)
    /\ cache' = [p \in Procs |-> Aged(cache[p])]
    /\ UNCHANGED <<rows, lock, writer, reader, today, clock>>

Next ==
    \/ \E w \in Writers, l \in Locations, dates \in Payloads : StartUpsert(w, l, dates)
    \/ \E w \in Writers : Write(w)
    \/ \E r \in Readers, l \in Locations : StartGetDays(r, l)
    \/ \E r \in Readers : Read(r)
    \/ \E p \in Procs : Crash(p)
    \/ Midnight
    \/ Tick

Spec == Init /\ [][Next]_vars

(***************************************************************************)
(* Time passes; a statement sent to Postgres is answered or fails, and the *)
(* event loop runs the continuation; Postgres queues the waiters of an     *)
(* advisory lock, so that a lock that is released again and again is       *)
(* eventually given to each of them.  Nothing forces a call to be made, a  *)
(* process to crash or a transaction to fail.                              *)
(***************************************************************************)
FairWriter(w) ==
    /\ SF_vars(TakeLock(w))
    /\ WF_vars(DeleteObsolete(w))
    /\ WF_vars(Commit(w))
    /\ WF_vars(InvalidateCache(w))
FairReader(r) ==
    WF_vars(QueryDays(r) \/ QueryCacheMeta(r) \/ Fill(r) \/ StartGetMeta(r)
            \/ QueryMeta(r) \/ (reader[r].pc \in {"done", "empty"} /\ EndRead(r)))
Fairness ==
    /\ WF_vars(Tick)
    /\ \A w \in Writers : FairWriter(w)
    /\ \A r \in Readers : FairReader(r)
FairSpec == Spec /\ Fairness

-----------------------------------------------------------------------------
\* Safety

\* Stale over empty: a location that has a forecast never loses it, whatever
\* payloads, failures, crashes and overlapping upserts come ("cannot wipe
\* last-known-good forecasts", lines 49-51).
StaleOverEmpty ==
    [][\A l \in Locations : rows[l] # NoForecast => rows'[l] # NoForecast]_vars

\* A truncated payload cannot erase days outside its span (lines 72-73): a row
\* that disappears was past for the upsert that removes it or lies within its
\* span, and that upsert commits in the same step.
OutsideSpanSurvives ==
    [][\A l \in Locations, d \in Dates :
         rows[l][d] # 0 /\ rows'[l][d] = 0 =>
           \E w \in Writers :
             /\ writer[w].pc = "deleted" /\ writer'[w].pc = "committed"
             /\ writer[w].loc = l
             /\ d < writer[w].today \/ InWindow(d, writer[w].dates)]_vars

\* Overlapping upserts of a location do not mix: a commit leaves, from the
\* beginning of its span or its today to the end of its span, its own days and
\* no other, although it chose the rows to delete in an earlier statement.
UpsertReplacesSpan ==
    [][\A w \in Writers :
         writer[w].pc = "deleted" /\ writer'[w].pc = "committed" =>
           \A d \in Dates :
             rows'[writer[w].loc][d] =
               IF d \in writer[w].dates THEN writer[w].fetchedAt
               ELSE IF d < writer[w].today \/ InWindow(d, writer[w].dates) THEN 0
               ELSE rows[writer[w].loc][d]]_vars

\* An entry without days, or without its metadata, is never cached: a location
\* that has been filled since would look cold until the entry expires.  And a
\* request that got days also gets a lastUpdated, although the two are read
\* separately, from a cache that may expire between them or from two states of
\* the table: the check !meta.fetchedAt of rank() never fires on a warm location.
WarmMeansForecast ==
    /\ \A p \in Procs, l \in Locations :
         cache[p][l] # NoEntry =>
           cache[p][l].days # NoForecast /\ cache[p][l].meta # 0
    /\ \A r \in Readers :
         reader[r].pc = "done" => reader[r].days # NoForecast /\ reader[r].meta # 0

-----------------------------------------------------------------------------
\* What the repository says and the code does not do.

\* "degraded mode = stale-but-flagged" (01-requirements-and-estimation.md:78):
\* an answer never gives its days a lastUpdated newer than all of them, which
\* would hide that they are stale.
DaysNotOlderThanLastUpdated ==
    \A r \in Readers : reader[r].pc = "done" =>
        \E d \in Dates : reader[r].days[d] >= reader[r].meta

-----------------------------------------------------------------------------
\* Liveness

\* Every upsert returns: the advisory lock of a location is always released, by
\* commit, rollback or crash.
UpsertReturns == \A w \in Writers : (writer[w].pc # "idle") ~> (writer[w].pc = "idle")

\* When upserts stop, every process comes to serve what is in the table: an entry
\* left behind by a lost or raced invalidation, by another process's upsert or by
\* midnight is served until its time is up at most, and not filled again.
CachesConverge ==
    <>[](\A p \in Procs, l \in Locations :
           Hit(cache[p], l) => cache[p][l].days = Visible(l, today))
=============================================================================
