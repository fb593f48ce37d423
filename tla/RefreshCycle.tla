---------------------------- MODULE RefreshCycle ----------------------------
(***************************************************************************)
(* The scheduled refresh: the timer of each worker process                 *)
(* (src/src/refresh/refresh.scheduler.ts), the cycle it starts             *)
(* (src/src/refresh/refresh.service.ts), the leadership lock that keeps    *)
(* the workers from running cycles at the same time                        *)
(* (src/src/store/prisma.service.ts) and the record of the last cycle      *)
(* (src/src/store/refresh-meta.repository.ts).                             *)
(*                                                                         *)
(* The lock is a session lock of Postgres: it belongs to the connection of *)
(* the leadership pool it was taken on, can be taken again on that         *)
(* connection, and is gone when the connection is.  Everything else a      *)
(* cycle sends to the database goes through other connections, so losing   *)
(* the lock neither stops the cycle nor what it has sent.                  *)
(***************************************************************************)
EXTENDS Naturals, FiniteSets

CONSTANTS
    Procs,         \* worker processes
    Runs,          \* calls of safeRun() that get past its check
    Host,          \* the process a run belongs to
    Locations,
    Concurrency,   \* REFRESH_CONCURRENCY
    Faults,        \* what may go wrong besides queries and fetches: see below
    MaxRecords,    \* bound: records written in a behaviour
    MaxHolds       \* bound: locks left behind on one connection

ASSUME HostAssumption == Host \in [Runs -> Procs]
ASSUME LocationsAssumption == IsFiniteSet(Locations)
ASSUME ConcurrencyAssumption == Concurrency \in Nat \ {0}
ASSUME FaultsAssumption == Faults \subseteq {"crash", "session", "lock", "unlock", "record"}

VARIABLES
    run,       \* the runs
    running,   \* RefreshScheduler.running of each process
    held,      \* how often the process's leadership connection holds the lock
    tracked,   \* the tracked locations
    meta,      \* the refresh_meta row; 0 is null
    writes,    \* the upserts of that row that Postgres has yet to execute
    clock      \* the last time taken from new Date()

vars == <<run, running, held, tracked, meta, writes, clock>>

(***************************************************************************)
(* The pool of a cycle.  The rows listed are distinct, so a location is    *)
(* its index in the list.  The counter of successes and the list of        *)
(* failures are the sets of the indices in them; the index of a worker is  *)
(* 0 while it is between two locations.                                    *)
(***************************************************************************)
Worker == [pc : {"fetching", "upserting", "resuming", "done"}, index : Nat]
PoolRecord ==
    [items : Nat, next : Nat, workers : UNION {[1..n -> Worker] : n \in 0..Concurrency},
     ok : SUBSET Nat, failed : SUBSET Nat]
RunRecord ==
    [pc : {"idle", "connecting", "expiring", "listing", "pool", "recording",
           "unlocking"},
     pool : PoolRecord, at : Nat]
Write == [at : Nat, success : BOOLEAN, error : {"none", "partial", "failed"}]

\* mapPool returns at once when there are no items; REFRESH_CONCURRENCY is positive.
Limit(items) == IF Concurrency < items THEN Concurrency ELSE items

\* Every worker takes its first item in the step that starts it.
NewPool(items) ==
    [items |-> items, next |-> Limit(items),
     workers |-> [w \in 1..Limit(items) |-> [pc |-> "fetching", index |-> w - 1]],
     ok |-> {}, failed |-> {}]

IdleRun == [pc |-> "idle", pool |-> NewPool(0), at |-> 0]

\* From pg_try_advisory_lock to pg_advisory_unlock.
InCycle(r) == run[r].pc \notin {"idle", "connecting"}

TypeOK ==
    /\ run \in [Runs -> RunRecord]
    /\ running \in [Procs -> BOOLEAN]
    /\ held \in [Procs -> Nat]
    /\ tracked \subseteq Locations
    /\ meta \in [attempt : Nat, success : Nat, error : {"none", "partial", "failed"}]
    /\ writes \subseteq Write
    /\ clock \in Nat

Init ==
    /\ run = [r \in Runs |-> IdleRun]
    /\ running = [p \in Procs |-> FALSE]
    /\ held = [p \in Procs |-> 0]
    /\ tracked \in SUBSET Locations
    /\ meta = [attempt |-> 0, success |-> 0, error |-> "none"]
    /\ writes = {}
    /\ clock = 0

-----------------------------------------------------------------------------
\* safeRun() and withAdvisoryLock()

\* The bound on records is kept here: every run in progress may still record.
RoomToRecord ==
    clock + Cardinality({r \in Runs : run[r].pc # "idle"}) < MaxRecords

MayRun(p) == ~running[p]

\* The timer fires, or the process has just started, and no run is in progress.
Start(r) ==
    /\ run[r].pc = "idle"
    /\ RoomToRecord
    /\ MayRun(Host[r])
    /\ running' = [running EXCEPT ![Host[r]] = TRUE]
    /\ run' = [run EXCEPT ![r].pc = "connecting"]
    /\ UNCHANGED <<held, tracked, meta, writes, clock>>

\* The connection is released and the flag reset, whatever happened.
EndRun(r) ==
    /\ run' = [run EXCEPT ![r] = IdleRun]
    /\ running' = [running EXCEPT ![Host[r]] = FALSE]

\* Fault: the key of the lock differs between processes.
MayLeadAlways(p) == p \in Procs

\* pg_try_advisory_lock: nobody else holds the lock.
MayLead(p) == \A q \in Procs \ {p} : held[q] = 0

Lead(r) ==
    /\ run[r].pc = "connecting"
    /\ MayLead(Host[r])
    /\ held' = [held EXCEPT ![Host[r]] = @ + 1]
    /\ run' = [run EXCEPT ![r].pc = "expiring"]
    /\ UNCHANGED <<running, tracked, meta, writes, clock>>

\* Somebody else leads, or the connection or the query fails.
Skip(r) ==
    /\ run[r].pc = "connecting"
    /\ EndRun(r)
    /\ UNCHANGED <<held, tracked, meta, writes, clock>>

\* pg_try_advisory_lock takes the lock, but its answer is lost: nobody will unlock.
LeadUnanswered(r) ==
    /\ "lock" \in Faults
    /\ run[r].pc = "connecting"
    /\ MayLead(Host[r])
    /\ held[Host[r]] < MaxHolds
    /\ held' = [held EXCEPT ![Host[r]] = @ + 1]
    /\ EndRun(r)
    /\ UNCHANGED <<tracked, meta, writes, clock>>

\* pg_advisory_unlock.  On a connection that is gone it fails, which changes
\* nothing any more.
Unlock(r) ==
    /\ run[r].pc = "unlocking"
    /\ held' = [held EXCEPT ![Host[r]] = IF @ > 0 THEN @ - 1 ELSE 0]
    /\ EndRun(r)
    /\ UNCHANGED <<tracked, meta, writes, clock>>

\* pg_advisory_unlock fails on a connection that lives: the connection goes back
\* to the pool with the lock.
UnlockFails(r) ==
    /\ "unlock" \in Faults
    /\ run[r].pc = "unlocking"
    /\ held[Host[r]] \in 1..MaxHolds
    /\ EndRun(r)
    /\ UNCHANGED <<held, tracked, meta, writes, clock>>

-----------------------------------------------------------------------------
\* runCycleLocked()

Goes(r, from, to) ==
    /\ run[r].pc = from
    /\ run' = [run EXCEPT ![r].pc = to]

\* geocodeCache.deleteExpired
Expire(r) ==
    /\ Goes(r, "expiring", "listing")
    /\ UNCHANGED <<running, held, tracked, meta, writes, clock>>

\* The rows are listed, and mapPool starts its workers.
List(r) ==
    /\ run[r].pc = "listing"
    /\ run' = [run EXCEPT ![r].pc = "pool", ![r].pool = NewPool(Cardinality(tracked))]
    /\ UNCHANGED <<running, held, tracked, meta, writes, clock>>

\* Either query fails: the cycle is over.
CycleFails(r) ==
    /\ Goes(r, "expiring", "unlocking") \/ Goes(r, "listing", "unlocking")
    /\ UNCHANGED <<running, held, tracked, meta, writes, clock>>

WorkersAt(pool, pcs) == {w \in DOMAIN pool.workers : pool.workers[w].pc \in pcs}
InFlight(pool) == WorkersAt(pool, {"fetching", "upserting"})

PoolStep(r, pool) ==
    /\ run[r].pc = "pool"
    /\ run' = [run EXCEPT ![r].pool = pool]
    /\ UNCHANGED <<running, held, tracked, meta, writes, clock>>

Resting == [pc |-> "resuming", index |-> 0]

\* Fault: next is advanced after the await.
TakeThenAdvance(r, w) ==
    LET pool == run[r].pool IN
    /\ w \in WorkersAt(pool, {"resuming"})
    /\ pool.next < pool.items
    /\ PoolStep(r, [pool EXCEPT !.workers[w] = [pc |-> "fetching", index |-> pool.next]])

\* The loop of a worker, from the end of one item to the call for the next one or
\* to the end of the worker.
Take(r, w) ==
    LET pool == run[r].pool IN
    /\ w \in WorkersAt(pool, {"resuming"})
    /\ pool.next < pool.items
    /\ PoolStep(r, [pool EXCEPT !.workers[w] = [pc |-> "fetching", index |-> pool.next],
                                !.next = @ + 1])

Leave(r, w) ==
    LET pool == run[r].pool IN
    /\ w \in WorkersAt(pool, {"resuming"})
    /\ pool.next >= pool.items
    /\ PoolStep(r, [pool EXCEPT !.workers[w].pc = "done"])

\* refreshLocation: days arrive and are upserted, or either step fails (no days
\* at all is a failure).  Whatever happens is caught, and the worker goes on.
Fetch(r, w) ==
    LET pool == run[r].pool IN
    /\ w \in WorkersAt(pool, {"fetching"})
    /\ PoolStep(r, [pool EXCEPT !.workers[w].pc = "upserting"])

Upsert(r, w) ==
    LET pool == run[r].pool IN
    /\ w \in WorkersAt(pool, {"upserting"})
    /\ PoolStep(r, [pool EXCEPT !.workers[w] = Resting,
                                !.ok = @ \cup {pool.workers[w].index}])

\* Fault: a location that failed is tried again at once.
FailAndRetry(r, w) ==
    LET pool == run[r].pool IN
    /\ w \in InFlight(pool)
    /\ PoolStep(r, [pool EXCEPT !.workers[w].pc = "fetching"])

Fail(r, w) ==
    LET pool == run[r].pool IN
    /\ w \in InFlight(pool)
    /\ PoolStep(r, [pool EXCEPT !.workers[w] = Resting,
                                !.failed = @ \cup {pool.workers[w].index}])

\* Promise.all: every worker has returned.
PoolDone(pool) == \A w \in DOMAIN pool.workers : pool.workers[w].pc = "done"

\* Fault: a cycle that is over is a success.
OutcomeAlwaysSuccess(pool) == [at |-> clock + 1, success |-> TRUE, error |-> "none"]

\* What the cycle records: a success unless every location failed, and the error
\* of those that did.
Outcome(pool) ==
    [at |-> clock + 1,
     success |-> pool.failed = {} \/ pool.ok # {},
     error |-> IF pool.failed = {} THEN "none"
               ELSE IF pool.ok # {} THEN "partial" ELSE "failed"]

\* recordRefreshSuccess, recordRefreshFailure: the time is taken, the upsert sent.
StartRecord(r) ==
    /\ run[r].pc = "pool"
    /\ PoolDone(run[r].pool)
    /\ clock' = clock + 1
    /\ writes' = writes \cup {Outcome(run[r].pool)}
    /\ run' = [run EXCEPT ![r].pc = "recording", ![r].at = clock + 1]
    /\ UNCHANGED <<running, held, tracked, meta>>

\* Postgres executes the upsert.  A failure leaves lastSuccessAt alone.
Record(w) ==
    /\ w \in writes
    /\ writes' = writes \ {w}
    /\ meta' = [attempt |-> w.at,
                success |-> IF w.success THEN w.at ELSE meta.success,
                error   |-> w.error]
    /\ UNCHANGED <<run, running, held, tracked, clock>>

Pending(r) == \E w \in writes : w.at = run[r].at

Recorded(r) ==
    /\ ~Pending(r)
    /\ Goes(r, "recording", "unlocking")
    /\ UNCHANGED <<running, held, tracked, meta, writes, clock>>

\* The upsert fails: it is never executed, or (a fault of the connection) it may
\* still be.
RecordFails(r) ==
    /\ Goes(r, "recording", "unlocking")
    /\ \/ writes' = {w \in writes : w.at # run[r].at}
       \/ "record" \in Faults /\ writes' = writes
    /\ UNCHANGED <<running, held, tracked, meta, clock>>

-----------------------------------------------------------------------------
\* The environment.

\* The pool closes a connection that has been idle for ten seconds.
IdleTimeout(p) ==
    /\ held[p] > 0
    /\ \A r \in Runs : Host[r] = p => ~InCycle(r)
    /\ held' = [held EXCEPT ![p] = 0]
    /\ UNCHANGED <<run, running, tracked, meta, writes, clock>>

\* Postgres ends the session; the process may notice when it unlocks.
LoseSession(p) ==
    /\ "session" \in Faults
    /\ held[p] > 0
    /\ held' = [held EXCEPT ![p] = 0]
    /\ UNCHANGED <<run, running, tracked, meta, writes, clock>>

\* The process dies and starts again.  What it has sent may still be executed.
Crash(p) ==
    /\ "crash" \in Faults
    /\ run' = [r \in Runs |-> IF Host[r] = p THEN IdleRun ELSE run[r]]
    /\ running' = [running EXCEPT ![p] = FALSE]
    /\ held' = [held EXCEPT ![p] = 0]
    /\ UNCHANGED <<tracked, meta, writes, clock>>

\* A request promotes a location (tryPromoteTracked); none is ever demoted.
Promote(l) ==
    /\ tracked' = tracked \cup {l}
    /\ UNCHANGED <<run, running, held, meta, writes, clock>>

WorkerStep(r, w) ==
    Take(r, w) \/ Leave(r, w) \/ Fetch(r, w) \/ Upsert(r, w) \/ Fail(r, w)
RunStep(r) ==
    \/ Lead(r) \/ LeadUnanswered(r) \/ Skip(r) \/ Expire(r) \/ List(r) \/ CycleFails(r)
    \/ \E w \in DOMAIN run[r].pool.workers : WorkerStep(r, w)
    \/ StartRecord(r) \/ Recorded(r) \/ RecordFails(r)
    \/ Unlock(r) \/ UnlockFails(r)

Next ==
    \/ \E r \in Runs : Start(r) \/ RunStep(r)
    \/ \E w \in writes : Record(w)
    \/ \E p \in Procs : IdleTimeout(p) \/ LoseSession(p) \/ Crash(p)
    \/ \E l \in Locations : Promote(l)

Spec == Init /\ [][Next]_vars

(***************************************************************************)
(* The event loop runs every continuation; queries are answered or fail; a *)
(* fetch is a bounded number of attempts, each under a timeout.  A pooled  *)
(* connection that is idle again and again is one day idle for the ten     *)
(* seconds after which the pool closes it: REFRESH_INTERVAL_MS is hours.   *)
(***************************************************************************)
Fairness ==
    /\ \A r \in Runs : WF_vars(RunStep(r))
    /\ \A p \in Procs : SF_vars(IdleTimeout(p))
FairSpec == Spec /\ Fairness

-----------------------------------------------------------------------------
\* Safety

\* A process has at most one run in progress, and its flag says whether it has:
\* neither an error nor a skipped cycle leaves it set.
FlagIsRun ==
    \A p \in Procs :
        /\ \A r, s \in Runs :
             (/\ Host[r] = p /\ Host[s] = p
              /\ run[r].pc # "idle" /\ run[s].pc # "idle") => r = s
        /\ running[p] <=> \E r \in Runs : Host[r] = p /\ run[r].pc # "idle"

\* Two cycles are in progress at once only if one of them has lost its session:
\* locks left behind by a failed unlock, taken again on the same connection or
\* dropped by a crash never let a second leader in.
OneLeader ==
    \A r, s \in Runs :
        InCycle(r) /\ InCycle(s) /\ r # s => held[Host[r]] = 0 \/ held[Host[s]] = 0

\* The workers of a pool share one index.  The provider sees at most
\* REFRESH_CONCURRENCY locations of a cycle at once; no two workers are on the same
\* location, and none is on one that was tried before; and a cycle that records its
\* outcome has tried every location it listed, each with one result.
PoolIsSound ==
    \A r \in Runs :
        LET pool == run[r].pool IN
        /\ Cardinality(InFlight(pool)) <= Concurrency
        /\ \A v, w \in InFlight(pool) :
             v # w => pool.workers[v].index # pool.workers[w].index
        /\ \A w \in InFlight(pool) : pool.workers[w].index \notin pool.ok \cup pool.failed
        /\ run[r].pc \in {"recording", "unlocking"} =>
             /\ pool.ok \cup pool.failed = 0..(pool.items - 1)
             /\ pool.ok \cap pool.failed = {}

-----------------------------------------------------------------------------
\* Liveness

\* The leadership is never taken for good, not even by an unlock that failed.
LeadershipComesFree == \A p \in Procs : (held[p] > 0) ~> (held[p] = 0)
=============================================================================
