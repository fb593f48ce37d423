---------------------------- MODULE HealthProofs ----------------------------
(***************************************************************************)
(* Proofs about RefreshCycle, and about Health, which extends it.          *)
(*                                                                         *)
(* A second leader is impossible, sessions permitting, for two reasons     *)
(* that must be kept apart: inside a process the scheduler's flag allows   *)
(* one run, and between processes the lock is held by one connection,      *)
(* however often.  The strengthening HeldByOne is the second reason; it    *)
(* says nothing of runs, so it survives unlocks that fail, sessions that   *)
(* are lost and crashes.                                                   *)
(*                                                                         *)
(* The pool of a cycle is sound because of the index its workers share:    *)
(* PoolRight says that it cuts the list in two, what is tried or in one    *)
(* worker's hands and what nobody has had, and that no worker returns      *)
(* before it is at the end.                                                *)
(*                                                                         *)
(* The proofs about Health rest on that invariant of the workers, and on   *)
(* three facts that a probe, a record and a tick leave alone:              *)
(*   Ordered   while nothing has gone astray, a record in flight is newer  *)
(*             than the row.  Two records cannot be in flight: both would  *)
(*             belong to leaders, and there is one;                        *)
(*   Earned    whatever says success, the row, a record in flight or what  *)
(*             a probe has read, is no younger than the last refresh;      *)
(*   TrueOnce  what a probe has read was enough for an ok when it was read *)
(*             if it still is, because ages only grow.                     *)
(***************************************************************************)
EXTENDS Health, FiniteSetTheorems, TLAPS

-----------------------------------------------------------------------------
(***************************************************************************)
(* The workers                                                             *)
(***************************************************************************)

\* The index that the workers share cuts the list in two: everything before it is
\* tried or in the hands of exactly one worker, and no worker has returned before it
\* came to the end.
PoolRight(pool) ==
  /\ pool.items \in Nat /\ pool.next \in Nat /\ pool.next <= pool.items
  /\ DOMAIN pool.workers = 1..Limit(pool.items)
  /\ \A w \in DOMAIN pool.workers : pool.workers[w] \in Worker
  /\ pool.ok \cup pool.failed \subseteq 0..(pool.next - 1)
  /\ pool.ok \cap pool.failed = {}
  /\ \A w \in InFlight(pool) :
       /\ pool.workers[w].index < pool.next
       /\ pool.workers[w].index \notin pool.ok \cup pool.failed
  /\ \A v, w \in InFlight(pool) :
       v # w => pool.workers[v].index # pool.workers[w].index
  /\ \A i \in 0..(pool.next - 1) :
       \/ i \in pool.ok \cup pool.failed
       \/ \E w \in InFlight(pool) : pool.workers[w].index = i
  /\ \A w \in WorkersAt(pool, {"done"}) : pool.next = pool.items

\* Outside the pool no worker of a run is left.
RunIsRight(r) ==
  /\ PoolRight(run[r].pool)
  /\ run[r].pc # "pool" => PoolDone(run[r].pool)

PoolsAreRight == \A r \in Runs : RunIsRight(r)

\* The leadership lock is exclusive between connections.
HeldByOne == \A p, q \in Procs : p # q => held[p] = 0 \/ held[q] = 0

IInv == TypeOK /\ FlagIsRun /\ HeldByOne /\ PoolsAreRight

-----------------------------------------------------------------------------
\* Types.

LEMMA LimitTypes ==
  ASSUME NEW items \in Nat
  PROVE  /\ Limit(items) \in 0..Concurrency /\ Limit(items) <= items
         /\ items > 0 => Limit(items) > 0
  BY ConcurrencyAssumption DEF Limit

\* A pool begins with every worker on an item of its own.
LEMMA NewPoolIsRight ==
  ASSUME NEW items \in Nat
  PROVE  /\ NewPool(items) \in PoolRecord /\ PoolRight(NewPool(items))
         /\ items = 0 => PoolDone(NewPool(items))
<1> DEFINE pool == NewPool(items)
           workers == [w \in 1..Limit(items) |-> [pc |-> "fetching", index |-> w - 1]]
<1>1. Limit(items) \in 0..Concurrency /\ Limit(items) <= items /\ Limit(items) \in Nat
  BY LimitTypes, ConcurrencyAssumption
<1>2. /\ pool.items = items /\ pool.next = Limit(items)
      /\ pool.ok = {} /\ pool.failed = {} /\ pool.workers = workers
      /\ pool = [items |-> items, next |-> Limit(items), workers |-> workers,
                 ok |-> {}, failed |-> {}]
  BY DEF NewPool
<1>3. \A w \in 1..Limit(items) :
        /\ workers[w] = [pc |-> "fetching", index |-> w - 1]
        /\ workers[w] \in Worker /\ workers[w].pc = "fetching"
        /\ workers[w].index = w - 1
  BY <1>1 DEF Worker
<1>4. workers \in [1..Limit(items) -> Worker] /\ DOMAIN workers = 1..Limit(items)
  BY <1>3
<1> HIDE DEF workers
<1>5. pool \in PoolRecord
  <2>1. workers \in UNION {[1..n -> Worker] : n \in 0..Concurrency}
    BY <1>1, <1>4
  <2> QED BY <1>1, <1>2, <2>1 DEF PoolRecord
<1> HIDE DEF pool
<1>6. InFlight(pool) = 1..Limit(items) /\ WorkersAt(pool, {"done"}) = {}
  BY <1>2, <1>3, <1>4 DEF InFlight, WorkersAt
<1>7. \A i \in 0..(pool.next - 1) : \E w \in InFlight(pool) : pool.workers[w].index = i
  <2> SUFFICES ASSUME NEW i \in 0..(Limit(items) - 1)
               PROVE  \E w \in 1..Limit(items) : workers[w].index = i
    BY <1>2, <1>6
  <2>1. i + 1 \in 1..Limit(items) /\ (i + 1) - 1 = i
    BY <1>1
  <2> QED BY <1>3, <2>1
<1>8. \A v, w \in InFlight(pool) :
        /\ pool.workers[w].index < pool.next
        /\ v # w => pool.workers[v].index # pool.workers[w].index
  <2> SUFFICES ASSUME NEW v \in 1..Limit(items), NEW w \in 1..Limit(items)
               PROVE  /\ workers[w].index < Limit(items)
                      /\ v # w => workers[v].index # workers[w].index
    BY <1>2, <1>6
  <2>1. v \in Nat /\ w \in Nat /\ w - 1 < Limit(items)
    BY <1>1
  <2>2. v # w => v - 1 # w - 1
    BY <2>1
  <2> QED BY <1>3, <2>1, <2>2
<1>9. PoolRight(pool)
  BY <1>1, <1>2, <1>4, <1>6, <1>7, <1>8 DEF PoolRight
<1>10. items = 0 => PoolDone(pool)
  BY <1>1, <1>2, <1>4 DEF PoolDone
<1> QED BY <1>5, <1>9, <1>10 DEF pool

\* The record of a run that is not in progress.
LEMMA IdleTypes ==
  /\ IdleRun \in RunRecord
  /\ IdleRun.pc = "idle"
  /\ PoolRight(IdleRun.pool) /\ PoolDone(IdleRun.pool)
<1>1. /\ NewPool(0) \in PoolRecord
      /\ PoolRight(NewPool(0)) /\ PoolDone(NewPool(0))
  BY NewPoolIsRight
<1> QED BY <1>1 DEF IdleRun, RunRecord

\* The initial state.
LEMMA InitInvariant == Init => IInv
<1> SUFFICES ASSUME Init PROVE IInv
  OBVIOUS
<1>1. TypeOK
  <2>1. running \in [Procs -> BOOLEAN]
    BY DEF Init
  <2>2. meta \in [attempt : Nat, success : Nat, error : {"none", "partial", "failed"}]
    BY DEF Init
  <2> QED BY <2>1, <2>2, IdleTypes DEF Init, TypeOK
<1>2. FlagIsRun
  BY IdleTypes DEF Init, FlagIsRun
<1>3. HeldByOne /\ PoolsAreRight
  BY IdleTypes DEF Init, HeldByOne, PoolsAreRight, RunIsRight
<1> QED BY <1>1, <1>2, <1>3 DEF IInv

-----------------------------------------------------------------------------
\* The parts of the invariant, by what a step leaves alone.

\* The flag is right as long as no run starts or ends.
LEMMA FlagKept ==
  ASSUME IInv, running' = running,
         \A r \in Runs : run'[r].pc = "idle" <=> run[r].pc = "idle"
  PROVE  FlagIsRun'
  BY DEF IInv, FlagIsRun

\* The flag is right after a run has ended.
LEMMA FlagAfterEnd ==
  ASSUME IInv, NEW r \in Runs, run[r].pc # "idle", EndRun(r)
  PROVE  FlagIsRun'
<1>1. Host[r] \in Procs
  BY HostAssumption
<1>2. /\ run'[r].pc = "idle"
      /\ \A s \in Runs : s # r => run'[s] = run[s]
  BY IdleTypes DEF EndRun, IInv, TypeOK
<1>3. /\ running'[Host[r]] = FALSE
      /\ \A p \in Procs : p # Host[r] => running'[p] = running[p]
  BY <1>1 DEF EndRun, IInv, TypeOK
<1> QED BY <1>1, <1>2, <1>3 DEF FlagIsRun, IInv

\* The pools are right when each one is.
LEMMA RunsAreRight ==
  ASSUME \A r \in Runs : RunIsRight(r)'
  PROVE  PoolsAreRight'
  BY DEF PoolsAreRight

\* A run that has not moved is as right as before.
LEMMA SameRun ==
  ASSUME IInv, NEW r \in Runs, run'[r] = run[r]
  PROVE  RunIsRight(r)'
<1>1. RunIsRight(r)
  BY DEF IInv, PoolsAreRight
<1>2. PoolRight(run'[r].pool) /\ (run'[r].pc # "pool" => PoolDone(run'[r].pool))
  BY <1>1 DEF RunIsRight
<1> QED BY <1>2 DEF RunIsRight, PoolRight, PoolDone, InFlight, WorkersAt

\* A run that is over is right.
LEMMA EndedRun ==
  ASSUME NEW r \in Runs, run'[r] = IdleRun
  PROVE  RunIsRight(r)'
  BY IdleTypes DEF RunIsRight

\* One run changes; its pool is right, and done unless the run is in it.
LEMMA PoolMoves ==
  ASSUME IInv, NEW r \in Runs, NEW new \in RunRecord,
         run' = [run EXCEPT ![r] = new], PoolRight(new.pool),
         new.pc # "pool" => PoolDone(new.pool)
  PROVE  /\ run' \in [Runs -> RunRecord]
         /\ PoolsAreRight'
<1>1. run' \in [Runs -> RunRecord] /\ run'[r] = new
  BY DEF IInv, TypeOK
<1>2. RunIsRight(r)'
  BY <1>1 DEF RunIsRight
<1>3. \A s \in Runs : s # r => run'[s] = run[s]
  BY DEF IInv, TypeOK
<1> QED BY <1>1, <1>2, <1>3, SameRun, RunsAreRight

\* One run changes phase but keeps its pool.
LEMMA PhaseMoves ==
  ASSUME IInv, NEW r \in Runs, NEW new \in RunRecord,
         run' = [run EXCEPT ![r] = new], new.pool = run[r].pool,
         new.pc # "pool" => run[r].pc # "pool" \/ PoolDone(run[r].pool)
  PROVE  /\ run' \in [Runs -> RunRecord]
         /\ PoolsAreRight'
<1>1. RunIsRight(r)
  BY DEF IInv, PoolsAreRight
<1> QED BY <1>1, PoolMoves DEF RunIsRight

-----------------------------------------------------------------------------
\* The actions.

\* Starting: the flag was down, so no other run of the process is in progress.
LEMMA StartPreserves ==
  ASSUME IInv, NEW r \in Runs, Start(r)
  PROVE  IInv'
<1> DEFINE new == [run[r] EXCEPT !.pc = "connecting"]
<1>1. run[r] \in RunRecord /\ Host[r] \in Procs
  BY HostAssumption DEF IInv, TypeOK
<1>2. /\ new \in RunRecord /\ new.pc = "connecting"
      /\ new.pool = run[r].pool
  BY <1>1 DEF RunRecord
<1>3. run' = [run EXCEPT ![r] = new]
  BY DEF Start, MayRun
<1> HIDE DEF new
<1>4. /\ run' \in [Runs -> RunRecord]
      /\ PoolsAreRight'
  <2>1. run[r].pc # "pool"
    BY DEF Start, MayRun
  <2> QED BY <1>2, <1>3, <2>1, PhaseMoves
<1>5. TypeOK'
  <2>1. running' \in [Procs -> BOOLEAN]
    BY <1>1 DEF Start, MayRun, IInv, TypeOK
  <2> QED BY <1>4, <2>1 DEF Start, MayRun, IInv, TypeOK
<1>6. FlagIsRun'
  <2>1. /\ run'[r].pc # "idle"
        /\ \A s \in Runs : s # r => run'[s] = run[s]
    BY <1>2, <1>3 DEF IInv, TypeOK
  <2>2. /\ running'[Host[r]] = TRUE
        /\ \A p \in Procs : p # Host[r] => running'[p] = running[p]
    BY <1>1 DEF Start, MayRun, IInv, TypeOK
  <2>3. \A s \in Runs : Host[s] = Host[r] => run[s].pc = "idle"
    BY <1>1 DEF Start, MayRun, IInv, FlagIsRun
  <2> QED BY <1>1, <2>1, <2>2, <2>3 DEF IInv, FlagIsRun
<1>7. HeldByOne'
  BY DEF Start, MayRun, IInv, HeldByOne
<1> QED BY <1>4, <1>5, <1>6, <1>7 DEF IInv

\* The lock is taken when nobody else's connection holds it.
LEMMA HeldGrows ==
  ASSUME IInv, NEW p \in Procs, MayLead(p), held' = [held EXCEPT ![p] = @ + 1]
  PROVE  held' \in [Procs -> Nat] /\ HeldByOne'
<1>1. held \in [Procs -> Nat]
  BY DEF IInv, TypeOK
<1>2. \A q \in Procs : q # p => held'[q] = 0
  BY <1>1 DEF MayLead
<1> QED BY <1>1, <1>2 DEF HeldByOne

\* Leading: nobody else's connection holds the lock.
LEMMA LeadPreserves ==
  ASSUME IInv, NEW r \in Runs, Lead(r)
  PROVE  IInv'
<1> DEFINE new == [run[r] EXCEPT !.pc = "expiring"]
<1>1. run[r] \in RunRecord /\ Host[r] \in Procs /\ held \in [Procs -> Nat]
  BY HostAssumption DEF IInv, TypeOK
<1>2. /\ new \in RunRecord /\ new.pc = "expiring"
      /\ new.pool = run[r].pool
  BY <1>1 DEF RunRecord
<1>3. run' = [run EXCEPT ![r] = new]
  BY DEF Lead
<1> HIDE DEF new
<1>4. /\ run' \in [Runs -> RunRecord]
      /\ PoolsAreRight'
  <2>1. run[r].pc # "pool"
    BY DEF Lead
  <2> QED BY <1>2, <1>3, <2>1, PhaseMoves
<1>5. held' \in [Procs -> Nat] /\ HeldByOne'
  BY <1>1, HeldGrows DEF Lead
<1>6. TypeOK'
  BY <1>4, <1>5 DEF Lead, IInv, TypeOK
<1>7. FlagIsRun'
  <2>1. \A s \in Runs : run'[s].pc = "idle" <=> run[s].pc = "idle"
    BY <1>2, <1>3 DEF Lead, IInv, TypeOK
  <2> QED BY <2>1, FlagKept DEF Lead
<1> QED BY <1>4, <1>5, <1>6, <1>7 DEF IInv

\* Locks are only given up: still at most one connection holds the lock.
LEMMA HeldShrinks ==
  ASSUME IInv, NEW p \in Procs, NEW n \in Nat, n <= held[p],
         held' = [held EXCEPT ![p] = n]
  PROVE  held' \in [Procs -> Nat] /\ HeldByOne'
<1>1. held \in [Procs -> Nat]
  BY DEF IInv, TypeOK
<1>2. \A q \in Procs : held[q] = 0 => held'[q] = 0
  BY <1>1
<1> QED BY <1>1, <1>2 DEF IInv, HeldByOne

\* A run ends: skipped, unlocked or with its lock left behind.
LEMMA EndPreserves ==
  ASSUME IInv, NEW r \in Runs,
         Skip(r) \/ LeadUnanswered(r) \/ Unlock(r) \/ UnlockFails(r)
  PROVE  IInv'
<1>1. run[r].pc # "idle" /\ EndRun(r) /\ Host[r] \in Procs /\ held \in [Procs -> Nat]
  BY HostAssumption DEF Skip, LeadUnanswered, Unlock, UnlockFails, IInv, TypeOK
<1>2. FlagIsRun'
  BY <1>1, FlagAfterEnd
<1>3. held' \in [Procs -> Nat] /\ HeldByOne'
  <2>1. CASE held' = held
    BY <2>1 DEF IInv, TypeOK, HeldByOne
  <2>2. CASE Unlock(r)
    <3> DEFINE n == IF held[Host[r]] > 0 THEN held[Host[r]] - 1 ELSE 0
    <3>1. n \in Nat /\ n <= held[Host[r]]
      BY <1>1
    <3>2. held' = [held EXCEPT ![Host[r]] = n]
      BY <2>2 DEF Unlock
    <3> HIDE DEF n
    <3> QED BY <1>1, <3>1, <3>2, HeldShrinks
  <2>3. CASE LeadUnanswered(r)
    <3>1. held' = [held EXCEPT ![Host[r]] = @ + 1] /\ MayLead(Host[r])
      BY <2>3 DEF LeadUnanswered
    <3> QED BY <1>1, <3>1, HeldGrows
  <2> QED BY <2>1, <2>2, <2>3 DEF Skip, UnlockFails
<1>4. TypeOK'
  <2>1. running' \in [Procs -> BOOLEAN]
    BY <1>1 DEF EndRun, IInv, TypeOK
  <2>2. run' \in [Runs -> RunRecord]
    BY <1>1, IdleTypes DEF EndRun, IInv, TypeOK
  <2>3. UNCHANGED <<tracked, meta, writes, clock>>
    BY DEF Skip, LeadUnanswered, Unlock, UnlockFails
  <2> QED BY <1>3, <2>1, <2>2, <2>3 DEF IInv, TypeOK
<1>5. PoolsAreRight'
  <2>1. run'[r] = IdleRun /\ \A s \in Runs : s # r => run'[s] = run[s]
    BY <1>1 DEF EndRun, IInv, TypeOK
  <2> QED BY <2>1, EndedRun, SameRun, RunsAreRight
<1> QED BY <1>2, <1>3, <1>4, <1>5 DEF IInv

\* A run in a cycle changes phase: neither the flag nor the lock is concerned.
LEMMA CycleMoves ==
  ASSUME IInv, NEW r \in Runs, NEW new \in RunRecord,
         run[r].pc # "idle", new.pc # "idle",
         run' = [run EXCEPT ![r] = new], UNCHANGED <<running, held, tracked>>,
         meta' = meta, writes' \subseteq Write, clock' \in Nat,
         PoolsAreRight'
  PROVE  IInv'
<1>1. run' \in [Runs -> RunRecord] /\ run'[r] = new
  BY DEF IInv, TypeOK
<1>2. TypeOK'
  BY <1>1 DEF IInv, TypeOK
<1>3. \A s \in Runs : run'[s].pc = "idle" <=> run[s].pc = "idle"
  BY <1>1 DEF IInv, TypeOK
<1>4. FlagIsRun'
  BY <1>3, FlagKept
<1>5. HeldByOne'
  BY DEF IInv, HeldByOne
<1> QED BY <1>2, <1>4, <1>5 DEF IInv

\* Goes is such a change.
LEMMA GoesPreserves ==
  ASSUME IInv, NEW r \in Runs, NEW from, NEW to, Goes(r, from, to),
         from \notin {"idle", "pool"}, to \in {"listing", "unlocking"},
         UNCHANGED <<running, held, tracked, meta, clock>>, writes' \subseteq writes
  PROVE  IInv'
<1> DEFINE new == [run[r] EXCEPT !.pc = to]
<1>1. run[r] \in RunRecord
  BY DEF IInv, TypeOK
<1>2. new \in RunRecord /\ new.pc = to /\ new.pool = run[r].pool
  BY <1>1 DEF RunRecord
<1>3. run' = [run EXCEPT ![r] = new] /\ run[r].pc # "idle"
  BY DEF Goes
<1>4. writes' \subseteq Write /\ clock' \in Nat
  BY DEF IInv, TypeOK
<1> HIDE DEF new
<1>5. run[r].pc \notin {"idle", "pool"}
  BY DEF Goes
<1>6. PoolsAreRight'
  BY <1>2, <1>3, <1>5, PhaseMoves
<1> QED BY <1>2, <1>3, <1>4, <1>6, CycleMoves

\* deleteExpired, the failures of the first two queries and the end of recording.
LEMMA PhasesPreserve ==
  ASSUME IInv, NEW r \in Runs, Expire(r) \/ CycleFails(r) \/ Recorded(r) \/ RecordFails(r)
  PROVE  IInv'
<1>1. CASE Expire(r)
  BY <1>1, GoesPreserves DEF Expire
<1>2. CASE CycleFails(r)
  BY <1>2, GoesPreserves DEF CycleFails
<1>3. CASE Recorded(r)
  BY <1>3, GoesPreserves DEF Recorded
<1>4. CASE RecordFails(r)
  BY <1>4, GoesPreserves DEF RecordFails
<1> QED BY <1>1, <1>2, <1>3, <1>4

\* Listing: a new pool begins.
LEMMA ListPreserves ==
  ASSUME IInv, NEW r \in Runs, List(r)
  PROVE  IInv'
<1> DEFINE pool == NewPool(Cardinality(tracked))
           new == [run[r] EXCEPT !.pc = "pool", !.pool = pool]
<1>1. run[r] \in RunRecord
  BY DEF IInv, TypeOK
<1>2. pool \in PoolRecord /\ PoolRight(pool)
  <2>1. IsFiniteSet(tracked)
    BY LocationsAssumption, FS_Subset DEF IInv, TypeOK
  <2> QED BY <2>1, FS_CardinalityType, NewPoolIsRight
<1>3. run' = [run EXCEPT ![r] = new] /\ run[r].pc = "listing"
  BY <1>1 DEF List, RunRecord
<1> HIDE DEF pool
<1>4. new \in RunRecord /\ new.pc = "pool" /\ new.pool = pool
  BY <1>1, <1>2 DEF RunRecord
<1> HIDE DEF new
<1>5. PoolsAreRight'
  BY <1>2, <1>3, <1>4, PoolMoves
<1>6. writes' \subseteq Write /\ clock' \in Nat
  BY DEF List, IInv, TypeOK
<1> QED BY <1>3, <1>4, <1>5, <1>6, CycleMoves DEF List

\* Recording begins when nothing is left to try.
LEMMA StartRecordPreserves ==
  ASSUME IInv, NEW r \in Runs, StartRecord(r)
  PROVE  IInv'
<1> DEFINE time == clock + 1
           new == [run[r] EXCEPT !.pc = "recording", !.at = time]
<1>1. run[r] \in RunRecord /\ time \in Nat
  BY DEF IInv, TypeOK
<1>2. run' = [run EXCEPT ![r] = new] /\ run[r].pc = "pool"
  BY <1>1 DEF StartRecord, RunRecord
<1>3. writes' \subseteq Write /\ clock' \in Nat
  <2> DEFINE pool == run[r].pool
  <2>1. Outcome(pool) \in Write
    <3> DEFINE success == pool.failed = {} \/ pool.ok # {}
    <3>1. success \in BOOLEAN
      BY Zenon
    <3>2. Outcome(pool) = [at |-> time, success |-> success, error |-> Outcome(pool).error]
      BY DEF Outcome
    <3>3. Outcome(pool).error \in {"none", "partial", "failed"}
      BY DEF Outcome
    <3> HIDE DEF time, success
    <3> QED BY <1>1, <3>1, <3>2, <3>3 DEF Write
  <2> QED BY <1>1, <2>1 DEF StartRecord, IInv, TypeOK
<1> HIDE DEF time
<1>4. /\ new \in RunRecord /\ new.pc = "recording"
      /\ new.pool = run[r].pool
  BY <1>1 DEF RunRecord
<1> HIDE DEF new
<1>5. PoolsAreRight'
  BY <1>2, <1>4, PhaseMoves DEF StartRecord
<1> QED BY <1>2, <1>3, <1>4, <1>5, CycleMoves DEF StartRecord

\* What the invariant says of the pool's parts.
LEMMA PoolTypes ==
  ASSUME NEW pool, PoolRight(pool)
  PROVE  /\ pool.items \in Nat /\ pool.next \in Nat /\ pool.next <= pool.items
         /\ pool.ok \in SUBSET Nat /\ pool.failed \in SUBSET Nat
         /\ \A w \in DOMAIN pool.workers :
              /\ pool.workers[w] \in Worker
              /\ pool.workers[w].index \in Nat
         /\ InFlight(pool) \subseteq DOMAIN pool.workers
  BY DEF PoolRight, InFlight, WorkersAt, Worker

\* A worker takes the next item: nobody else has it, nobody has had it.
LEMMA TakeIsRight ==
  ASSUME NEW pool, PoolRight(pool), NEW w \in WorkersAt(pool, {"resuming"}),
         pool.next < pool.items,
         NEW moved, moved.items = pool.items, DOMAIN moved.workers = DOMAIN pool.workers,
         \A v \in DOMAIN pool.workers : v # w => moved.workers[v] = pool.workers[v],
         moved.workers[w] \in Worker,
         moved.workers[w].pc = "fetching", moved.workers[w].index = pool.next,
         moved.next = pool.next + 1, moved.ok = pool.ok, moved.failed = pool.failed
  PROVE  PoolRight(moved)
<1>1. /\ w \in DOMAIN pool.workers /\ pool.workers[w].pc = "resuming"
      /\ pool.items \in Nat /\ pool.next \in Nat
      /\ \A v \in DOMAIN pool.workers : pool.workers[v] \in Worker
  BY PoolTypes DEF WorkersAt
<1>2. /\ InFlight(moved) = InFlight(pool) \cup {w} /\ w \notin InFlight(pool)
      /\ WorkersAt(moved, {"done"}) = WorkersAt(pool, {"done"})
  BY <1>1 DEF InFlight, WorkersAt
<1>3. \A v \in InFlight(pool) :
        /\ moved.workers[v] = pool.workers[v] /\ v # w
        /\ pool.workers[v].index \in Nat
        /\ pool.workers[v].index < pool.next
        /\ pool.workers[v].index \notin pool.ok \cup pool.failed
  BY <1>1, <1>2, PoolTypes DEF PoolRight, Worker
<1>4. pool.next \notin pool.ok \cup pool.failed
  BY <1>1 DEF PoolRight
<1>5. \A v \in InFlight(moved) :
        /\ moved.workers[v].index < moved.next
        /\ moved.workers[v].index \notin moved.ok \cup moved.failed
  BY <1>1, <1>2, <1>3, <1>4
<1>6. \A u, v \in InFlight(moved) :
        u # v => moved.workers[u].index # moved.workers[v].index
  <2>1. \A v \in InFlight(pool) : pool.workers[v].index # pool.next
    BY <1>1, <1>3
  <2>2. \A u, v \in InFlight(pool) : u # v => pool.workers[u].index # pool.workers[v].index
    BY DEF PoolRight
  <2> SUFFICES ASSUME NEW u \in InFlight(pool) \cup {w}, NEW v \in InFlight(pool) \cup {w},
                      u # v
               PROVE  moved.workers[u].index # moved.workers[v].index
    BY <1>2
  <2>3. moved.workers[w].index = pool.next
    OBVIOUS
  <2>4. CASE u = w
    BY <1>3, <2>1, <2>3, <2>4
  <2>5. CASE v = w
    BY <1>3, <2>1, <2>3, <2>5
  <2>6. CASE u # w /\ v # w
    BY <1>3, <2>2, <2>6
  <2> QED BY <2>4, <2>5, <2>6
<1>7. ASSUME NEW i \in 0..(moved.next - 1)
       PROVE  \/ i \in moved.ok \cup moved.failed
              \/ \E v \in InFlight(moved) : moved.workers[v].index = i
  <2>1. i = pool.next \/ i \in 0..(pool.next - 1)
    BY <1>1
  <2>2. CASE i = pool.next
    <3>1. w \in InFlight(moved) /\ moved.workers[w].index = i
      BY <1>2, <2>2
    <3> QED BY <3>1
  <2>3. CASE i \in 0..(pool.next - 1)
    BY <1>2, <1>3, <2>3, Zenon DEF PoolRight
  <2> QED BY <2>1, <2>2, <2>3
<1>8. moved.ok \cup moved.failed \subseteq 0..(moved.next - 1)
  BY <1>1 DEF PoolRight
<1>9. WorkersAt(moved, {"done"}) = {}
  BY <1>1, <1>2 DEF PoolRight
<1>10. /\ DOMAIN moved.workers = 1..Limit(moved.items)
       /\ \A v \in DOMAIN moved.workers : moved.workers[v] \in Worker
       /\ moved.items \in Nat /\ moved.next \in Nat /\ moved.next <= moved.items
       /\ moved.ok \cap moved.failed = {}
  BY <1>1 DEF PoolRight
<1> QED BY <1>5, <1>6, <1>7, <1>8, <1>9, <1>10 DEF PoolRight

\* A worker goes on with its item, or finds none left and returns.
LEMMA WorkerGoesOn ==
  ASSUME NEW pool, PoolRight(pool), NEW w \in DOMAIN pool.workers,
         NEW pc \in {"upserting", "done"},
         pc = "upserting" => pool.workers[w].pc = "fetching",
         pc = "done" => pool.workers[w].pc = "resuming" /\ pool.next >= pool.items,
         NEW moved, moved.items = pool.items, DOMAIN moved.workers = DOMAIN pool.workers,
         \A v \in DOMAIN pool.workers : v # w => moved.workers[v] = pool.workers[v],
         moved.workers[w] \in Worker,
         moved.workers[w].pc = pc, moved.workers[w].index = pool.workers[w].index,
         moved.next = pool.next, moved.ok = pool.ok, moved.failed = pool.failed
  PROVE  PoolRight(moved)
<1>1. /\ pool.items \in Nat /\ pool.next \in Nat /\ pool.next <= pool.items
      /\ \A v \in DOMAIN pool.workers : pool.workers[v] \in Worker
  BY PoolTypes
<1>2. \A v \in DOMAIN pool.workers : moved.workers[v].index = pool.workers[v].index
  OBVIOUS
<1>3. InFlight(moved) = InFlight(pool)
  BY DEF InFlight, WorkersAt
<1>4. \A v \in InFlight(moved) : moved.workers[v].index = pool.workers[v].index
  BY <1>2 DEF InFlight, WorkersAt
<1>5. \A v \in WorkersAt(moved, {"done"}) : moved.next = moved.items
  <2>1. CASE pc = "done"
    <3>1. pool.next = pool.items
      BY <1>1, <2>1
    <3> QED BY <3>1
  <2>2. CASE pc = "upserting"
    <3>1. WorkersAt(moved, {"done"}) \subseteq WorkersAt(pool, {"done"})
      BY <2>2 DEF WorkersAt
    <3> QED BY <3>1 DEF PoolRight
  <2> QED BY <2>1, <2>2
<1>6. /\ DOMAIN moved.workers = 1..Limit(moved.items)
      /\ \A v \in DOMAIN moved.workers : moved.workers[v] \in Worker
      /\ moved.items \in Nat /\ moved.next \in Nat /\ moved.next <= moved.items
      /\ moved.ok \cup moved.failed \subseteq 0..(moved.next - 1)
      /\ moved.ok \cap moved.failed = {}
  BY DEF PoolRight
<1>7. \A v \in InFlight(moved) :
         /\ moved.workers[v].index < moved.next
         /\ moved.workers[v].index \notin moved.ok \cup moved.failed
  BY <1>3, <1>4, Zenon DEF PoolRight
<1>8. \A u, v \in InFlight(moved) :
         u # v => moved.workers[u].index # moved.workers[v].index
  <2>1. \A u, v \in InFlight(pool) : u # v => pool.workers[u].index # pool.workers[v].index
    BY DEF PoolRight
  <2> QED BY <1>3, <1>4, <2>1
<1>9. ASSUME NEW i \in 0..(moved.next - 1)
       PROVE  \/ i \in moved.ok \cup moved.failed
              \/ \E v \in InFlight(moved) : moved.workers[v].index = i
  <2>1. \/ i \in pool.ok \cup pool.failed
        \/ \E v \in InFlight(pool) : pool.workers[v].index = i
    BY <1>9 DEF PoolRight
  <2> QED BY <1>3, <1>4, <2>1
<1> QED BY <1>5, <1>6, <1>7, <1>8, <1>9 DEF PoolRight

\* A worker is done with its item, which then has its result, the only one.
LEMMA FinishIsRight ==
  ASSUME NEW pool, PoolRight(pool), NEW w \in InFlight(pool), NEW ok, NEW failed,
         \/ ok = pool.ok \cup {pool.workers[w].index} /\ failed = pool.failed
         \/ ok = pool.ok /\ failed = pool.failed \cup {pool.workers[w].index},
         NEW moved, moved.items = pool.items, DOMAIN moved.workers = DOMAIN pool.workers,
         \A v \in DOMAIN pool.workers : v # w => moved.workers[v] = pool.workers[v],
         moved.workers[w] \in Worker,
         moved.workers[w].pc = "resuming",
         moved.next = pool.next, moved.ok = ok, moved.failed = failed
  PROVE  PoolRight(moved)
<1> DEFINE index == pool.workers[w].index
<1>1. /\ w \in DOMAIN pool.workers /\ index \in Nat
      /\ pool.items \in Nat /\ pool.next \in Nat
      /\ \A v \in DOMAIN pool.workers : pool.workers[v] \in Worker
  BY PoolTypes
<1>2. ok \cup failed = pool.ok \cup pool.failed \cup {index}
  OBVIOUS
<1>3. /\ index < pool.next /\ index \notin pool.ok \cup pool.failed
      /\ \A v \in InFlight(pool) : v # w => pool.workers[v].index # index
  BY DEF PoolRight
<1>4. ok \cap failed = {}
  BY <1>3 DEF PoolRight
<1> HIDE DEF index
<1>5. /\ InFlight(moved) = InFlight(pool) \ {w}
      /\ WorkersAt(moved, {"done"}) \subseteq WorkersAt(pool, {"done"})
      /\ \A v \in InFlight(moved) : moved.workers[v] = pool.workers[v]
  BY DEF InFlight, WorkersAt
<1>6. \A v \in InFlight(moved) :
        /\ moved.workers[v].index < moved.next
        /\ moved.workers[v].index \notin moved.ok \cup moved.failed
  BY <1>2, <1>3, <1>5 DEF PoolRight
<1>7. \A u, v \in InFlight(moved) :
         u # v => moved.workers[u].index # moved.workers[v].index
  <2>1. \A u, v \in InFlight(pool) : u # v => pool.workers[u].index # pool.workers[v].index
    BY DEF PoolRight
  <2> QED BY <1>5, <2>1
<1>8. ASSUME NEW i \in 0..(moved.next - 1)
       PROVE  \/ i \in moved.ok \cup moved.failed
              \/ \E v \in InFlight(moved) : moved.workers[v].index = i
  <2>1. CASE i = index
    BY <1>2, <2>1
  <2>2. CASE i # index
    <3>1. \/ i \in pool.ok \cup pool.failed
          \/ \E v \in InFlight(pool) : pool.workers[v].index = i
      BY <1>8 DEF PoolRight
    <3>2. \A v \in InFlight(pool) : pool.workers[v].index = i => v # w
      BY <2>2 DEF index
    <3> QED BY <1>2, <1>5, <3>1, <3>2
  <2> QED BY <2>1, <2>2
<1>9. moved.ok \cup moved.failed \subseteq 0..(moved.next - 1)
  <2>1. index \in 0..(pool.next - 1)
    BY <1>1, <1>3
  <2> QED BY <1>2, <2>1 DEF PoolRight
<1>10. /\ DOMAIN moved.workers = 1..Limit(moved.items)
       /\ \A v \in DOMAIN moved.workers : moved.workers[v] \in Worker
       /\ moved.items \in Nat /\ moved.next \in Nat /\ moved.next <= moved.items
       /\ moved.ok \cap moved.failed = {}
       /\ \A v \in WorkersAt(moved, {"done"}) : moved.next = moved.items
  BY <1>4, <1>5 DEF PoolRight
<1> QED BY <1>6, <1>7, <1>8, <1>9, <1>10 DEF PoolRight

\* There are no more workers than Concurrency.
LEMMA FewInFlight ==
  ASSUME NEW pool, PoolRight(pool)
  PROVE  Cardinality(InFlight(pool)) <= Concurrency
<1>1. pool.items \in Nat /\ InFlight(pool) \subseteq 1..Limit(pool.items)
  BY PoolTypes DEF PoolRight
<1>2. Limit(pool.items) \in Nat /\ Limit(pool.items) <= Concurrency
  BY <1>1, LimitTypes, ConcurrencyAssumption
<1>3. /\ IsFiniteSet(1..Limit(pool.items))
      /\ Cardinality(1..Limit(pool.items)) = Limit(pool.items)
  BY <1>2, FS_Interval
<1>4. /\ IsFiniteSet(InFlight(pool))
      /\ Cardinality(InFlight(pool)) <= Limit(pool.items)
  BY <1>1, <1>3, FS_Subset
<1>5. Cardinality(InFlight(pool)) \in Nat
  BY <1>4, FS_CardinalityType
<1> QED BY <1>2, <1>4, <1>5, ConcurrencyAssumption

\* When all workers have returned, everything has been tried.
LEMMA DoneIsTried ==
  ASSUME NEW pool, PoolRight(pool), PoolDone(pool)
  PROVE  pool.ok \cup pool.failed = 0..(pool.items - 1)
<1>1. InFlight(pool) = {}
  BY DEF InFlight, WorkersAt, PoolDone
<1>2. pool.ok \cup pool.failed = 0..(pool.next - 1)
  BY <1>1 DEF PoolRight
<1>3. pool.next = pool.items
  <2>1. pool.items \in Nat /\ pool.next \in Nat /\ pool.next <= pool.items
    BY PoolTypes
  <2>2. CASE pool.items = 0
    BY <2>1, <2>2
  <2>3. CASE pool.items > 0
    <3>1. Limit(pool.items) > 0 /\ Limit(pool.items) \in Nat
      BY <2>1, <2>3, LimitTypes, ConcurrencyAssumption
    <3>2. 1 \in DOMAIN pool.workers
      BY <3>1 DEF PoolRight
    <3>3. 1 \in WorkersAt(pool, {"done"})
      BY <3>2 DEF PoolDone, WorkersAt
    <3> QED BY <3>3 DEF PoolRight
  <2> QED BY <2>1, <2>2, <2>3
<1> QED BY <1>2, <1>3

\* A pool of which one worker has moved, and with it the index and the results:
\* as the actions write it, and field by field.
Moved(pool, w, new, next, ok, failed) ==
  [pool EXCEPT !.workers = [pool.workers EXCEPT ![w] = new],
               !.next = next, !.ok = ok, !.failed = failed]

IsMoved(moved, pool, w, new, next, ok, failed) ==
  /\ moved \in PoolRecord
  /\ moved.items = pool.items /\ DOMAIN moved.workers = DOMAIN pool.workers
  /\ \A v \in DOMAIN pool.workers : v # w => moved.workers[v] = pool.workers[v]
  /\ moved.workers[w] = new
  /\ moved.next = next /\ moved.ok = ok /\ moved.failed = failed

\* The two agree.
LEMMA MovedPool ==
  ASSUME NEW pool \in PoolRecord, NEW w \in DOMAIN pool.workers, NEW new \in Worker,
         NEW next \in Nat, NEW ok \in SUBSET Nat, NEW failed \in SUBSET Nat
  PROVE  IsMoved(Moved(pool, w, new, next, ok, failed), pool, w, new, next, ok, failed)
<1> DEFINE workers == [pool.workers EXCEPT ![w] = new]
           moved == Moved(pool, w, new, next, ok, failed)
<1>1. PICK n \in 0..Concurrency : pool.workers \in [1..n -> Worker]
  BY DEF PoolRecord
<1>2. /\ workers \in [1..n -> Worker] /\ DOMAIN workers = DOMAIN pool.workers
      /\ workers[w] = new
      /\ \A v \in DOMAIN pool.workers : v # w => workers[v] = pool.workers[v]
  BY <1>1
<1>3. workers \in UNION {[1..m -> Worker] : m \in 0..Concurrency}
  BY <1>2
<1>4. moved = [pool EXCEPT !.workers = workers, !.next = next, !.ok = ok, !.failed = failed]
  BY DEF Moved
<1> HIDE DEF workers, moved
<1>5. /\ moved \in PoolRecord /\ moved.items = pool.items /\ moved.workers = workers
      /\ moved.next = next /\ moved.ok = ok /\ moved.failed = failed
  BY <1>3, <1>4 DEF PoolRecord
<1> QED BY <1>2, <1>5 DEF moved, IsMoved

\* The workers keep their pool right.
LEMMA WorkerPreserves ==
  ASSUME IInv, NEW r \in Runs, NEW w \in DOMAIN run[r].pool.workers, WorkerStep(r, w)
  PROVE  IInv'
<1> DEFINE pool == run[r].pool
<1>1. run[r] \in RunRecord /\ PoolRight(pool)
  BY DEF IInv, TypeOK, PoolsAreRight, RunIsRight
<1>2. /\ pool \in PoolRecord /\ pool.next \in Nat
      /\ pool.ok \in SUBSET Nat /\ pool.failed \in SUBSET Nat
      /\ w \in DOMAIN pool.workers /\ pool.workers[w] \in Worker
      /\ pool.workers[w].index \in Nat
  BY <1>1, PoolTypes DEF RunRecord
<1>3. PICK moved : PoolStep(r, moved) /\ moved \in PoolRecord /\ PoolRight(moved)
  <2>1. CASE Take(r, w)
    <3> DEFINE new == [pc |-> "fetching", index |-> pool.next]
               moved == [pool EXCEPT !.workers[w] = new, !.next = @ + 1]
    <3>1. PoolStep(r, moved) /\ pool.next < pool.items
          /\ w \in WorkersAt(pool, {"resuming"})
      BY <2>1 DEF Take, WorkersAt, InFlight
    <3>2. new \in Worker /\ new.pc = "fetching" /\ new.index = pool.next
      BY <1>2 DEF Worker, Resting
    <3>3. moved = Moved(pool, w, new, pool.next + 1, pool.ok, pool.failed)
      BY <1>2 DEF PoolRecord, Moved
    <3> HIDE DEF new, moved, pool
    <3>4. pool.next + 1 \in Nat /\ pool.ok \in SUBSET Nat /\ pool.failed \in SUBSET Nat
      BY <1>2
    <3>5. IsMoved(moved, pool, w, new, pool.next + 1, pool.ok, pool.failed)
      BY <1>2, <3>2, <3>3, <3>4, MovedPool, Zenon
    <3>6. PoolRight(moved)
      BY <1>1, <1>2, <3>1, <3>2, <3>5, TakeIsRight DEF IsMoved, WorkersAt, InFlight
    <3> QED BY <3>1, <3>5, <3>6 DEF IsMoved
  <2>2. CASE Leave(r, w)
    <3> DEFINE new == [pool.workers[w] EXCEPT !.pc = "done"]
               moved == [pool EXCEPT !.workers[w].pc = "done"]
    <3>1. PoolStep(r, moved) /\ pool.next >= pool.items
          /\ pool.workers[w].pc = "resuming"
      BY <2>2 DEF Leave, WorkersAt, InFlight
    <3>2. new \in Worker /\ new.pc = "done" /\ new.index = pool.workers[w].index
      BY <1>2 DEF Worker, Resting
    <3>3. moved = Moved(pool, w, new, pool.next, pool.ok, pool.failed)
      BY <1>2 DEF PoolRecord, Moved
    <3> HIDE DEF new, moved, pool
    <3>4. pool.next \in Nat /\ pool.ok \in SUBSET Nat /\ pool.failed \in SUBSET Nat
      BY <1>2
    <3>5. IsMoved(moved, pool, w, new, pool.next, pool.ok, pool.failed)
      BY <1>2, <3>2, <3>3, <3>4, MovedPool, Zenon
    <3>6. PoolRight(moved)
      BY <1>1, <1>2, <3>1, <3>2, <3>5, WorkerGoesOn DEF IsMoved, WorkersAt, InFlight
    <3> QED BY <3>1, <3>5, <3>6 DEF IsMoved
  <2>3. CASE Fetch(r, w)
    <3> DEFINE new == [pool.workers[w] EXCEPT !.pc = "upserting"]
               moved == [pool EXCEPT !.workers[w].pc = "upserting"]
    <3>1. PoolStep(r, moved) /\ pool.workers[w].pc = "fetching"
      BY <2>3 DEF Fetch, WorkersAt, InFlight
    <3>2. new \in Worker /\ new.pc = "upserting" /\ new.index = pool.workers[w].index
      BY <1>2 DEF Worker, Resting
    <3>3. moved = Moved(pool, w, new, pool.next, pool.ok, pool.failed)
      BY <1>2 DEF PoolRecord, Moved
    <3> HIDE DEF new, moved, pool
    <3>4. pool.next \in Nat /\ pool.ok \in SUBSET Nat /\ pool.failed \in SUBSET Nat
      BY <1>2
    <3>5. IsMoved(moved, pool, w, new, pool.next, pool.ok, pool.failed)
      BY <1>2, <3>2, <3>3, <3>4, MovedPool, Zenon
    <3>6. PoolRight(moved)
      BY <1>1, <1>2, <3>1, <3>2, <3>5, WorkerGoesOn DEF IsMoved, WorkersAt, InFlight
    <3> QED BY <3>1, <3>5, <3>6 DEF IsMoved
  <2>4. CASE Upsert(r, w)
    <3> DEFINE new == Resting
               moved == [pool EXCEPT !.workers[w] = Resting,
                                     !.ok = @ \cup {pool.workers[w].index}]
    <3>1. PoolStep(r, moved) /\ w \in InFlight(pool)
      BY <2>4 DEF Upsert, WorkersAt, InFlight
    <3>2. new \in Worker /\ new.pc = "resuming"
      BY <1>2 DEF Worker, Resting
    <3>3. moved = Moved(pool, w, new, pool.next, pool.ok \cup {pool.workers[w].index}, pool.failed)
      BY <1>2 DEF PoolRecord, Moved
    <3> HIDE DEF new, moved, pool
    <3>4. /\ pool.next \in Nat /\ pool.ok \cup {pool.workers[w].index} \in SUBSET Nat
          /\ pool.failed \in SUBSET Nat
      BY <1>2
    <3>5. IsMoved(moved, pool, w, new, pool.next, pool.ok \cup {pool.workers[w].index}, pool.failed)
      BY <1>2, <3>2, <3>3, <3>4, MovedPool, Zenon
    <3>6. PoolRight(moved)
      BY <1>1, <1>2, <3>1, <3>2, <3>5, FinishIsRight DEF IsMoved, WorkersAt, InFlight
    <3> QED BY <3>1, <3>5, <3>6 DEF IsMoved
  <2>5. CASE Fail(r, w)
    <3> DEFINE new == Resting
               moved == [pool EXCEPT !.workers[w] = Resting,
                                     !.failed = @ \cup {pool.workers[w].index}]
    <3>1. PoolStep(r, moved) /\ w \in InFlight(pool)
      BY <2>5 DEF Fail, WorkersAt, InFlight
    <3>2. new \in Worker /\ new.pc = "resuming"
      BY <1>2 DEF Worker, Resting
    <3>3. moved = Moved(pool, w, new, pool.next, pool.ok, pool.failed \cup {pool.workers[w].index})
      BY <1>2 DEF PoolRecord, Moved
    <3> HIDE DEF new, moved, pool
    <3>4. /\ pool.next \in Nat /\ pool.ok \in SUBSET Nat
          /\ pool.failed \cup {pool.workers[w].index} \in SUBSET Nat
      BY <1>2
    <3>5. IsMoved(moved, pool, w, new, pool.next, pool.ok, pool.failed \cup {pool.workers[w].index})
      BY <1>2, <3>2, <3>3, <3>4, MovedPool, Zenon
    <3>6. PoolRight(moved)
      BY <1>1, <1>2, <3>1, <3>2, <3>5, FinishIsRight DEF IsMoved, WorkersAt, InFlight
    <3> QED BY <3>1, <3>5, <3>6 DEF IsMoved
  <2> QED BY <2>1, <2>2, <2>3, <2>4, <2>5 DEF WorkerStep
<1> DEFINE new == [run[r] EXCEPT !.pool = moved]
<1>4. run' = [run EXCEPT ![r] = new] /\ run[r].pc = "pool"
  BY <1>3 DEF PoolStep
<1>5. new \in RunRecord /\ new.pc = "pool" /\ new.pool = moved
  BY <1>1, <1>3, <1>4 DEF RunRecord
<1> HIDE DEF new
<1>6. PoolsAreRight'
  BY <1>3, <1>4, <1>5, PoolMoves
<1>7. writes' \subseteq Write /\ clock' \in Nat
  BY <1>3 DEF PoolStep, IInv, TypeOK
<1> QED BY <1>3, <1>4, <1>5, <1>6, <1>7, CycleMoves DEF PoolStep

\* Every step of a run preserves the invariant.
LEMMA RunStepPreserves ==
  ASSUME IInv, NEW r \in Runs, RunStep(r)
  PROVE  IInv'
  BY LeadPreserves, EndPreserves, PhasesPreserve, ListPreserves, WorkerPreserves,
     StartRecordPreserves DEF RunStep

\* A step that moves no run and raises no lock.
LEMMA RunsKept ==
  ASSUME IInv, UNCHANGED <<run, running>>, TypeOK', HeldByOne'
  PROVE  IInv'
<1>1. FlagIsRun'
  BY FlagKept
<1>2. PoolsAreRight'
  BY SameRun, RunsAreRight
<1> QED BY <1>1, <1>2 DEF IInv

\* An idle connection is closed, or a session lost.
LEMMA ReleasePreserves ==
  ASSUME IInv, NEW p \in Procs, IdleTimeout(p) \/ LoseSession(p)
  PROVE  IInv'
<1>1. held' = [held EXCEPT ![p] = 0] /\ UNCHANGED <<run, running, tracked, meta, writes, clock>>
  BY DEF IdleTimeout, LoseSession
<1>2. held' \in [Procs -> Nat] /\ HeldByOne'
  <2>1. 0 \in Nat /\ 0 <= held[p]
    BY DEF IInv, TypeOK
  <2> QED BY <1>1, <2>1, HeldShrinks
<1>3. TypeOK'
  BY <1>1, <1>2 DEF IInv, TypeOK
<1> QED BY <1>1, <1>2, <1>3, RunsKept

\* A crash ends every run of the process and drops its lock.
LEMMA CrashPreserves ==
  ASSUME IInv, NEW p \in Procs, Crash(p)
  PROVE  IInv'
<1>1. held' \in [Procs -> Nat] /\ HeldByOne'
  <2>1. 0 \in Nat /\ 0 <= held[p]
    BY DEF IInv, TypeOK
  <2> QED BY <2>1, HeldShrinks DEF Crash
<1>2. /\ run' \in [Runs -> RunRecord]
      /\ \A r \in Runs : run'[r] = IF Host[r] = p THEN IdleRun ELSE run[r]
  BY IdleTypes DEF Crash, IInv, TypeOK
<1>3. running' \in [Procs -> BOOLEAN]
  BY DEF Crash, IInv, TypeOK
<1>4. TypeOK'
  BY <1>1, <1>2, <1>3 DEF Crash, IInv, TypeOK
<1>5. FlagIsRun'
  <2>1. /\ running'[p] = FALSE
        /\ \A q \in Procs : q # p => running'[q] = running[q]
    BY DEF Crash, IInv, TypeOK
  <2> QED BY <1>2, <2>1, IdleTypes DEF IInv, FlagIsRun
<1>6. PoolsAreRight'
  BY <1>2, EndedRun, SameRun, RunsAreRight
<1> QED BY <1>1, <1>4, <1>5, <1>6 DEF IInv

\* Postgres executes a record; a location is promoted; nothing happens.
LEMMA TablesPreserve ==
  ASSUME IInv, \/ \E w \in writes : Record(w)
               \/ \E l \in Locations : Promote(l)
               \/ UNCHANGED vars
  PROVE  IInv'
<1>1. UNCHANGED <<run, running, held, clock>>
  BY DEF Record, Promote, vars
<1>2. HeldByOne'
  BY <1>1 DEF IInv, HeldByOne
<1>3. tracked' \subseteq Locations /\ writes' \subseteq Write
  BY DEF Record, Promote, vars, IInv, TypeOK
<1>4. meta' \in [attempt : Nat, success : Nat, error : {"none", "partial", "failed"}]
  <2>1. CASE meta' = meta
    BY <2>1 DEF IInv, TypeOK
  <2>2. ASSUME NEW w \in writes, Record(w)
        PROVE  meta' \in [attempt : Nat, success : Nat, error : {"none", "partial", "failed"}]
    <3>1. w \in Write /\ meta.success \in Nat
      BY DEF IInv, TypeOK
    <3>2. w.at \in Nat /\ w.error \in {"none", "partial", "failed"}
      BY <3>1 DEF Write
    <3>3. (IF w.success THEN w.at ELSE meta.success) \in Nat
      BY <3>1, <3>2
    <3> QED BY <2>2, <3>2, <3>3 DEF Record
  <2> QED BY <2>1, <2>2 DEF Promote, vars
<1>5. TypeOK'
  BY <1>1, <1>3, <1>4 DEF IInv, TypeOK
<1> QED BY <1>1, <1>2, <1>5, RunsKept

\* Every step preserves the invariant.
LEMMA StepInvariant == IInv /\ [Next]_vars => IInv'
<1> SUFFICES ASSUME IInv, [Next]_vars PROVE IInv'
  OBVIOUS
<1> QED BY StartPreserves, RunStepPreserves, ReleasePreserves, CrashPreserves,
           TablesPreserve DEF Next

-----------------------------------------------------------------------------
\* The results.

\* The inductive invariant holds of every behaviour of the workers.
THEOREM Invariant == Spec => []IInv
  BY InitInvariant, StepInvariant, PTL DEF Spec

\* The types of the runs, the flags, the locks and the refresh_meta row.
THEOREM TypeCorrect == Spec => []TypeOK
  BY Invariant, PTL DEF IInv

\* At most one run of a process is in progress, and the flag says so.
THEOREM FlagTellsRun == Spec => []FlagIsRun
  BY Invariant, PTL DEF IInv

\* Two cycles at once take a lost session, for any number of workers.
THEOREM LeadersAreUnique == Spec => []OneLeader
<1>1. IInv => OneLeader
  <2> SUFFICES ASSUME IInv, NEW r \in Runs, NEW s \in Runs,
                      InCycle(r), InCycle(s), r # s
               PROVE  held[Host[r]] = 0 \/ held[Host[s]] = 0
    BY DEF OneLeader
  <2>1. Host[r] \in Procs /\ Host[s] \in Procs
    BY HostAssumption
  <2>2. Host[r] # Host[s]
    BY <2>1 DEF IInv, FlagIsRun, InCycle
  <2> QED BY <2>1, <2>2 DEF IInv, HeldByOne
<1> QED BY <1>1, Invariant, PTL

\* The index of a pool is shared as it must be: for any number of locations and
\* workers, no more than Concurrency are in flight, none twice, and a cycle that
\* records has tried every location it listed.
THEOREM PoolIsAlwaysSound == Spec => []PoolIsSound
<1>1. IInv => PoolIsSound
  <2> SUFFICES ASSUME IInv, NEW r \in Runs, NEW pool, pool = run[r].pool
               PROVE  /\ Cardinality(InFlight(pool)) <= Concurrency
                      /\ \A v, w \in InFlight(pool) :
                           v # w => pool.workers[v].index # pool.workers[w].index
                      /\ \A w \in InFlight(pool) :
                           pool.workers[w].index \notin pool.ok \cup pool.failed
                      /\ run[r].pc \in {"recording", "unlocking"} =>
                           /\ pool.ok \cup pool.failed = 0..(pool.items - 1)
                           /\ pool.ok \cap pool.failed = {}
    BY DEF PoolIsSound
  <2>1. PoolRight(pool) /\ (run[r].pc # "pool" => PoolDone(pool))
    BY DEF IInv, PoolsAreRight, RunIsRight
  <2>2. Cardinality(InFlight(pool)) <= Concurrency
    BY <2>1, FewInFlight
  <2>3. PoolDone(pool) => pool.ok \cup pool.failed = 0..(pool.items - 1)
    BY <2>1, DoneIsTried
  <2> QED BY <2>1, <2>2, <2>3 DEF PoolRight
<1> QED BY <1>1, Invariant, PTL

-----------------------------------------------------------------------------
(***************************************************************************)
(* Health                                                                  *)
(***************************************************************************)

StaleAfterType == staleAfter = NaN \/ staleAfter \in Int

\* Times are taken from the clock, each for one record.
Timely ==
  /\ meta.attempt <= clock /\ meta.success <= clock /\ served <= clock
  /\ \A w \in writes : w.at <= clock
  /\ \A v, w \in writes : v.at = w.at => v = w

Ordered ==
  orderly =>
    /\ Orderly
    /\ meta.success <= meta.attempt
    /\ \A w \in writes : w.at > meta.attempt

Earned ==
  /\ meta.success <= served /\ probe.success <= served
  /\ \A w \in writes : w.success => w.at <= served

\* The success is recent at the time of the clock.
Recent(success) == staleAfter # NaN => clock - success <= staleAfter

TrueOnce ==
  probe.pc = "reading" =>
    /\ "count" \in probe.read /\ ~probe.any => wasOk
    /\ "meta" \in probe.read /\ probe.success # 0 /\ Recent(probe.success) => wasOk

HInv ==
  IInv /\ HealthTypeOK /\ StaleAfterType /\ Timely /\ Ordered /\ Earned /\ TrueOnce

-----------------------------------------------------------------------------
\* The numbers the invariant compares are numbers.
LEMMA Numbers ==
  ASSUME IInv, HealthTypeOK
  PROVE  /\ clock \in Nat /\ meta.attempt \in Nat /\ meta.success \in Nat
         /\ served \in Nat /\ probe.success \in Nat
         /\ \A w \in writes : w.at \in Nat /\ w.success \in BOOLEAN
  BY DEF IInv, TypeOK, HealthTypeOK, Write

\* A probe that does not read has read nothing.
LEMMA NewProbeTypes ==
  ASSUME NEW pc \in {"none", "reading"} \cup Statuses
  PROVE  /\ NewProbe(pc) \in [pc : {"none", "reading"} \cup Statuses,
                              read : SUBSET {"meta", "count"}, success : Nat, any : BOOLEAN]
         /\ NewProbe(pc).pc = pc /\ NewProbe(pc).read = {} /\ NewProbe(pc).success = 0
  BY DEF NewProbe, NoRead

\* The initial state: no run is in a cycle and nothing is recorded.
LEMMA HealthInitInvariant == HealthInit => HInv
<1> SUFFICES ASSUME HealthInit PROVE HInv
  OBVIOUS
<1>1. IInv
  BY InitInvariant DEF HealthInit
<1>2. probe.pc = "none" /\ probe.success = 0 /\ HealthTypeOK
  BY NewProbeTypes DEF HealthInit, HealthTypeOK
<1>3. StaleAfterType
  BY StaleAfterAssumption DEF HealthInit, StaleAfterType
<1>4. Timely /\ Earned
  BY <1>2 DEF HealthInit, Init, Timely, Earned
<1>5. Orderly
  BY IdleTypes DEF HealthInit, Init, Orderly, InCycle
<1>6. Ordered
  BY <1>5 DEF HealthInit, Init, Ordered
<1>7. TrueOnce
  BY <1>2 DEF TrueOnce
<1> QED BY <1>1, <1>2, <1>3, <1>4, <1>6, <1>7 DEF HInv

-----------------------------------------------------------------------------
\* What a step of the workers may do to the record: execute one, send one, or drop
\* some.
LEMMA StepKinds ==
  ASSUME Next
  PROVE  \/ \E w \in writes : Record(w)
         \/ \E r \in Runs : StartRecord(r)
         \/ meta' = meta /\ clock' = clock /\ writes' \subseteq writes
<1>1. ASSUME NEW r \in Runs, Start(r) \/ RunStep(r)
      PROVE  \/ StartRecord(r)
             \/ meta' = meta /\ clock' = clock /\ writes' \subseteq writes
  BY <1>1 DEF Start, RunStep, Lead, Skip, Expire, List, CycleFails, WorkerStep, Take,
     Leave, Fetch, Upsert, Fail, PoolStep, LeadUnanswered, Recorded, RecordFails, Unlock, UnlockFails
<1>2. ASSUME NEW p \in Procs, IdleTimeout(p) \/ LoseSession(p) \/ Crash(p)
      PROVE  meta' = meta /\ clock' = clock /\ writes' \subseteq writes
  BY <1>2 DEF IdleTimeout, LoseSession, Crash
<1>3. ASSUME NEW l \in Locations, Promote(l)
      PROVE  meta' = meta /\ clock' = clock /\ writes' \subseteq writes
  BY <1>3 DEF Promote
<1> QED BY <1>1, <1>2, <1>3 DEF Next

\* Executing a record moves its time to the row.
LEMMA RecordMoves ==
  ASSUME IInv, NEW w \in writes, Record(w)
  PROVE  /\ meta'.attempt = w.at /\ clock' = clock /\ writes' = writes \ {w}
         /\ meta'.success = IF w.success THEN w.at ELSE meta.success
  BY DEF Record

\* Sending one takes the next time.
LEMMA StartRecordMoves ==
  ASSUME IInv, NEW r \in Runs, StartRecord(r)
  PROVE  /\ meta' = meta /\ clock' = clock + 1
         /\ writes' = writes \cup {Outcome(run[r].pool)}
         /\ Outcome(run[r].pool).at = clock + 1
  BY DEF StartRecord, Outcome

\* A cycle that will record a success has refreshed a location or had none.
LEMMA SuccessServes ==
  ASSUME IInv, NEW r \in Runs, StartRecord(r), Outcome(run[r].pool).success
  PROVE  Serves(r)
<1>1. run[r].pc = "pool" /\ run'[r].pc = "recording"
  BY DEF StartRecord, IInv, TypeOK, RunRecord
<1>2. run[r].pool.failed = {} \/ run[r].pool.ok # {}
  BY DEF Outcome
<1>3. CASE run[r].pool.failed = {} /\ run[r].pool.ok = {}
  <2>1. PoolRight(run[r].pool) /\ PoolDone(run[r].pool)
    BY DEF IInv, PoolsAreRight, RunIsRight, StartRecord
  <2>2. 0..(run[r].pool.items - 1) = {} /\ run[r].pool.items \in Nat
    BY <1>3, <2>1, DoneIsTried DEF PoolRight, PoolRecord
  <2>3. run[r].pool.items = 0
    <3>1. run[r].pool.items > 0 => 0 \in 0..(run[r].pool.items - 1)
      BY <2>2
    <3> QED BY <2>2, <3>1
  <2> QED BY <1>1, <2>3 DEF Serves
<1> QED BY <1>1, <1>2, <1>3 DEF Serves

\* Time and the last refresh never go back.
LEMMA TimeGoesOn ==
  ASSUME IInv, HealthTypeOK, Timely, CycleStep
  PROVE  /\ clock' \in Nat /\ clock <= clock'
         /\ served' \in Nat /\ served <= served' /\ served' <= clock'
<1>1. clock \in Nat /\ served \in Nat /\ served <= clock
  BY Numbers DEF Timely
<1>2. clock' \in Nat /\ clock <= clock'
  BY <1>1, StepKinds, RecordMoves, StartRecordMoves DEF CycleStep
<1> QED BY <1>1, <1>2 DEF CycleStep

-----------------------------------------------------------------------------
\* The steps.

\* The workers' invariant is theirs to keep; ticks and probes do not touch it.
LEMMA WorkersPreserved ==
  ASSUME IInv, HealthNext
  PROVE  IInv'
<1>1. CASE ProbeStep
  BY <1>1, StepInvariant DEF ProbeStep
<1>2. CASE CycleStep
  BY <1>2, StepInvariant DEF CycleStep
<1>3. CASE Tick
  <2>1. TypeOK' /\ HeldByOne'
    BY <1>3 DEF Tick, IInv, TypeOK, HeldByOne
  <2> QED BY <1>3, <2>1, RunsKept DEF Tick
<1> QED BY <1>1, <1>2, <1>3 DEF HealthNext

\* Types, and the times of the records.
LEMMA TypesPreserved ==
  ASSUME HInv, HealthNext
  PROVE  HealthTypeOK' /\ StaleAfterType' /\ Timely'
<1> USE DEF HInv
<1>1. wasOk' \in BOOLEAN
  BY Zenon DEF HealthNext
<1>2. StaleAfterType'
  BY DEF HealthNext, StaleAfterType
<1>3. CASE ProbeStep
  <2>1. probe' \in [pc : {"none", "reading"} \cup Statuses,
                    read : SUBSET {"meta", "count"}, success : Nat, any : BOOLEAN]
    <3>1. probe \in [pc : {"none", "reading"} \cup Statuses,
                     read : SUBSET {"meta", "count"}, success : Nat, any : BOOLEAN]
      BY DEF HealthTypeOK
    <3>2. CASE StartProbe \/ ReadFails \/ Answer
      <4>1. Status(probe.any, probe.success, clock) \in Statuses
        BY DEF Status, Statuses
      <4> QED BY <3>2, <4>1, NewProbeTypes DEF StartProbe, ReadFails, Answer, Statuses
    <3>3. CASE ReadMeta
      <4>1. meta.success \in Nat
        BY Numbers
      <4> QED BY <3>1, <3>3, <4>1 DEF ReadMeta
    <3>4. CASE ReadCount
      <4>1. (tracked # {}) \in BOOLEAN
        OBVIOUS
      <4> QED BY <3>1, <3>4, <4>1 DEF ReadCount
    <3> QED BY <1>3, <3>2, <3>3, <3>4 DEF ProbeStep
  <2>2. UNCHANGED <<meta, writes, clock, served, orderly>>
    BY <1>3 DEF ProbeStep, vars
  <2>3. Timely'
    BY <2>2 DEF Timely
  <2> QED BY <1>1, <1>2, <2>1, <2>2, <2>3 DEF HealthTypeOK
<1>4. CASE Tick
  <2>1. UNCHANGED <<meta, writes, probe, served, orderly>> /\ clock' = clock + 1
    BY <1>4 DEF Tick
  <2>2. Timely'
    BY <2>1, Numbers DEF Timely
  <2> QED BY <1>1, <1>2, <2>1, <2>2 DEF HealthTypeOK
<1>5. CASE CycleStep
  <2>1. orderly' \in BOOLEAN /\ probe' = probe
    BY <1>5, Zenon DEF CycleStep
  <2>2. /\ clock' \in Nat /\ clock <= clock'
        /\ served' \in Nat /\ served' <= clock'
    BY <1>5, TimeGoesOn
  <2>3. HealthTypeOK'
    BY <1>1, <2>1, <2>2 DEF HealthTypeOK
  <2>4. Timely'
    <3>1. CASE \E w \in writes : Record(w)
      BY <2>2, <3>1, RecordMoves, Numbers DEF Timely
    <3>2. CASE \E r \in Runs : StartRecord(r)
      <4>1. PICK r \in Runs : StartRecord(r)
        BY <3>2
      <4>2. /\ meta' = meta /\ clock' = clock + 1
            /\ writes' = writes \cup {Outcome(run[r].pool)} /\ Outcome(run[r].pool).at = clock + 1
        BY <4>1, StartRecordMoves
      <4> QED BY <2>2, <4>2, Numbers DEF Timely
    <3>3. CASE meta' = meta /\ clock' = clock /\ writes' \subseteq writes
      BY <2>2, <3>3, Numbers DEF Timely
    <3> QED BY <1>5, <3>1, <3>2, <3>3, StepKinds DEF CycleStep
  <2> QED BY <1>2, <2>3, <2>4
<1> QED BY <1>3, <1>4, <1>5 DEF HealthNext

\* While nothing has gone astray, two records are never in flight at once.
LEMMA OneRecordInFlight ==
  ASSUME HInv, orderly, NEW v \in writes, NEW w \in writes
  PROVE  v = w
<1>1. Orderly
  BY DEF HInv, Ordered
<1>2. PICK r \in Runs : run[r].pc = "recording" /\ run[r].at = v.at
  BY <1>1 DEF Orderly
<1>3. PICK s \in Runs : run[s].pc = "recording" /\ run[s].at = w.at
  BY <1>1 DEF Orderly
<1>4. r = s
  <2>1. held[Host[r]] > 0 /\ held[Host[s]] > 0
    BY <1>1, <1>2, <1>3 DEF Orderly, InCycle
  <2>2. Host[r] \in Procs /\ Host[s] \in Procs
    BY HostAssumption
  <2>3. Host[r] = Host[s]
    <3>1. held[Host[r]] \in Nat /\ held[Host[s]] \in Nat
      BY <2>2 DEF HInv, IInv, TypeOK
    <3> QED BY <2>1, <2>2, <3>1 DEF HInv, IInv, HeldByOne
  <2> QED BY <1>2, <1>3, <2>2, <2>3 DEF HInv, IInv, FlagIsRun
<1> QED BY <1>2, <1>3, <1>4 DEF HInv, Timely

\* The order of the records survives, and the row does not go back.
LEMMA OrderPreserved ==
  ASSUME HInv, HealthNext
  PROVE  /\ Ordered'
         /\ orderly => meta'.attempt >= meta.attempt /\ meta'.success >= meta.success
<1>1. /\ clock \in Nat /\ meta.attempt \in Nat /\ meta.success \in Nat
      /\ \A w \in writes : w.at \in Nat
  BY Numbers DEF HInv
<1>2. CASE ProbeStep \/ Tick
  <2>1. UNCHANGED <<run, held, meta, writes, orderly>>
    BY <1>2 DEF ProbeStep, Tick, vars
  <2>2. Orderly' = Orderly
    BY <2>1 DEF Orderly, InCycle
  <2> QED BY <1>1, <2>1, <2>2 DEF HInv, Ordered
<1>3. CASE CycleStep
  <2>1. orderly' => orderly /\ Orderly'
    BY <1>3 DEF CycleStep
  <2>2. CASE \E w \in writes : Record(w)
    <3>1. PICK w \in writes : Record(w)
      BY <2>2
    <3>2. /\ meta'.attempt = w.at /\ writes' = writes \ {w}
          /\ meta'.success = IF w.success THEN w.at ELSE meta.success
      BY <3>1, RecordMoves DEF HInv
    <3>3. orderly => writes' = {}
      BY <3>2, OneRecordInFlight
    <3>4. orderly => w.at > meta.attempt /\ meta.success <= meta.attempt
      BY DEF HInv, Ordered
    <3> QED BY <1>1, <2>1, <3>2, <3>3, <3>4 DEF Ordered
  <2>3. CASE \E r \in Runs : StartRecord(r)
    <3>1. PICK r \in Runs : StartRecord(r)
      BY <2>3
    <3>2. /\ meta' = meta /\ writes' = writes \cup {Outcome(run[r].pool)}
          /\ Outcome(run[r].pool).at = clock + 1
      BY <3>1, StartRecordMoves DEF HInv
    <3>3. meta.attempt <= clock
      BY DEF HInv, Timely
    <3> QED BY <1>1, <2>1, <3>2, <3>3 DEF HInv, Ordered
  <2>4. CASE meta' = meta /\ clock' = clock /\ writes' \subseteq writes
    BY <1>1, <2>1, <2>4 DEF HInv, Ordered
  <2> QED BY <1>3, <2>2, <2>3, <2>4, StepKinds DEF CycleStep
<1> QED BY <1>2, <1>3 DEF HealthNext

\* Whatever says success still stands for a refresh.
LEMMA EarnedPreserved ==
  ASSUME HInv, HealthNext
  PROVE  Earned'
<1>1. /\ clock \in Nat /\ meta.success \in Nat /\ served \in Nat /\ probe.success \in Nat
      /\ \A w \in writes : w.at \in Nat /\ w.success \in BOOLEAN
  BY Numbers DEF HInv
<1>2. CASE ProbeStep
  <2>1. UNCHANGED <<meta, writes, served>>
    BY <1>2 DEF ProbeStep, vars
  <2>2. probe'.success \in {0, probe.success, meta.success}
    <3>1. probe \in [pc : {"none", "reading"} \cup Statuses,
                     read : SUBSET {"meta", "count"}, success : Nat, any : BOOLEAN]
      BY DEF HInv, HealthTypeOK
    <3>2. CASE StartProbe \/ ReadFails \/ Answer
      <4>1. \A pc : NewProbe(pc).success = 0
        BY DEF NewProbe
      <4> QED BY <3>2, <4>1 DEF StartProbe, ReadFails, Answer
    <3>3. CASE ReadMeta
      BY <3>1, <3>3 DEF ReadMeta
    <3>4. CASE ReadCount
      BY <3>1, <3>4 DEF ReadCount
    <3> QED BY <1>2, <3>2, <3>3, <3>4 DEF ProbeStep
  <2> QED BY <1>1, <2>1, <2>2 DEF HInv, Earned
<1>3. CASE Tick
  BY <1>3 DEF Tick, HInv, Earned
<1>4. CASE CycleStep
  <2>1. probe' = probe /\ served' \in Nat /\ served <= served'
    BY <1>4, TimeGoesOn DEF CycleStep, HInv
  <2>2. CASE \E w \in writes : Record(w)
    BY <1>1, <2>1, <2>2, RecordMoves DEF HInv, Earned
  <2>3. CASE \E r \in Runs : StartRecord(r)
    <3>1. PICK r \in Runs : StartRecord(r)
      BY <2>3
    <3>2. /\ meta' = meta /\ clock' = clock + 1
          /\ writes' = writes \cup {Outcome(run[r].pool)} /\ Outcome(run[r].pool).at = clock + 1
      BY <3>1, StartRecordMoves DEF HInv
    <3>3. Outcome(run[r].pool).success => served' = clock'
      BY <1>4, <3>1, SuccessServes DEF CycleStep, HInv
    <3>4. Outcome(run[r].pool).success => Outcome(run[r].pool).at <= served'
      BY <1>1, <3>2, <3>3
    <3> QED BY <1>1, <2>1, <3>2, <3>4 DEF HInv, Earned
  <2>4. CASE meta' = meta /\ clock' = clock /\ writes' \subseteq writes
    BY <1>1, <2>1, <2>4 DEF HInv, Earned
  <2> QED BY <1>4, <2>2, <2>3, <2>4, StepKinds DEF CycleStep
<1> QED BY <1>2, <1>3, <1>4 DEF HealthNext

\* An ok seen during a call is not forgotten, and what is read now is judged now.
LEMMA WasOkGrows ==
  ASSUME HealthNext, probe'.pc = "reading",
         (probe.pc = "reading" /\ wasOk) \/ StatusNow' = "ok"
  PROVE  wasOk'
  BY DEF HealthNext

\* What has been read and is still recent was enough for an ok when it was read.
LEMMA TruePreserved ==
  ASSUME HInv, HealthNext
  PROVE  TrueOnce'
<1> SUFFICES ASSUME probe'.pc = "reading"
             PROVE  /\ "count" \in probe'.read /\ ~probe'.any => wasOk'
                    /\ /\ "meta" \in probe'.read /\ probe'.success # 0
                       /\ Recent(probe.success)'
                       => wasOk'
  BY DEF TrueOnce, Recent
<1>1. probe \in [pc : {"none", "reading"} \cup Statuses,
                 read : SUBSET {"meta", "count"}, success : Nat, any : BOOLEAN]
  BY DEF HInv, HealthTypeOK
<1>2. staleAfter' = staleAfter
  BY DEF HealthNext
<1>3. CASE StartProbe \/ ReadFails \/ Answer
  <2>1. probe'.read = {}
    BY <1>3, NewProbeTypes DEF StartProbe, ReadFails, Answer, Statuses, NewProbe, NoRead
  <2> QED BY <2>1
<1>4. CASE ProbeStep /\ ReadMeta
  <2>1. /\ probe.pc = "reading"
        /\ probe'.success = meta.success /\ probe'.any = probe.any
        /\ "count" \in probe'.read => "count" \in probe.read
    BY <1>1, <1>4 DEF ReadMeta
  <2>2. UNCHANGED <<meta, tracked, clock>>
    BY <1>4 DEF ProbeStep, vars
  <2>3. probe'.success # 0 /\ Recent(probe.success)' => StatusNow' = "ok"
    BY <1>2, <2>1, <2>2, Numbers DEF StatusNow, Status, Recent, HInv, StaleAfterType
  <2> QED BY <2>1, <2>3, WasOkGrows DEF HInv, TrueOnce
<1>5. CASE ProbeStep /\ ReadCount
  <2>1. /\ probe.pc = "reading"
        /\ probe'.success = probe.success /\ probe'.any = (tracked # {})
        /\ "meta" \in probe'.read => "meta" \in probe.read
    BY <1>1, <1>5 DEF ReadCount
  <2>2. UNCHANGED <<meta, tracked, clock>>
    BY <1>5 DEF ProbeStep, vars
  <2>3. ~probe'.any => StatusNow' = "ok"
    BY <2>1, <2>2 DEF StatusNow, Status
  <2>4. Recent(probe.success)' => Recent(probe.success)
    BY <1>2, <2>1, <2>2 DEF Recent
  <2> QED BY <2>1, <2>3, <2>4, WasOkGrows DEF HInv, TrueOnce
<1>6. CASE CycleStep \/ Tick
  <2>1. probe' = probe
    BY <1>6 DEF CycleStep, Tick
  <2>2. clock \in Nat /\ clock' \in Nat /\ clock <= clock'
    BY <1>6, Numbers, TimeGoesOn DEF Tick, HInv
  <2>3. Recent(probe.success)' => Recent(probe.success)
    <3>1. CASE staleAfter = NaN
      BY <3>1 DEF Recent
    <3>2. CASE staleAfter \in Int
      <4>1. probe.success \in Nat
        BY Numbers DEF HInv
      <4> QED BY <1>2, <2>1, <2>2, <3>2, <4>1 DEF Recent
    <3> QED BY <3>1, <3>2 DEF HInv, StaleAfterType
  <2>4. wasOk => wasOk'
    BY <2>1, WasOkGrows
  <2> QED BY <2>1, <2>3, <2>4 DEF HInv, TrueOnce
<1> QED BY <1>3, <1>4, <1>5, <1>6 DEF HealthNext, ProbeStep

\* Nothing happens.
LEMMA HealthStutter ==
  ASSUME HInv, UNCHANGED allVars
  PROVE  HInv'
<1>1. IInv'
  BY StepInvariant DEF HInv, allVars
<1>2. UNCHANGED <<run, held, meta, writes, clock, staleAfter, probe, wasOk, served, orderly>>
  BY DEF allVars, vars, healthVars
<1>3. HealthTypeOK' /\ StaleAfterType' /\ Timely' /\ Earned'
  BY <1>2 DEF HInv, HealthTypeOK, StaleAfterType, Timely, Earned
<1>4. Ordered' /\ TrueOnce'
  <2>1. Orderly' = Orderly
    BY <1>2 DEF Orderly, InCycle
  <2> QED BY <1>2, <2>1 DEF HInv, Ordered, TrueOnce, Recent
<1> QED BY <1>1, <1>3, <1>4 DEF HInv

\* Every step preserves the invariant.
LEMMA HealthStepInvariant == HInv /\ [HealthNext]_allVars => HInv'
<1> SUFFICES ASSUME HInv, [HealthNext]_allVars PROVE HInv'
  OBVIOUS
<1>1. CASE HealthNext
  <2>1. IInv'
    BY <1>1, WorkersPreserved DEF HInv
  <2> QED BY <1>1, <2>1, TypesPreserved, OrderPreserved, EarnedPreserved, TruePreserved
          DEF HInv
<1>2. CASE UNCHANGED allVars
  BY <1>2, HealthStutter
<1> QED BY <1>1, <1>2

-----------------------------------------------------------------------------
\* The results.

\* The invariant holds of every behaviour of the workers and the probe.
THEOREM HealthInvariant == HealthSpec => []HInv
  BY HealthInitInvariant, HealthStepInvariant, PTL DEF HealthSpec

\* The types of the probe and the history.
THEOREM HealthTypeCorrect == HealthSpec => []HealthTypeOK
  BY HealthInvariant, PTL DEF HInv

\* The records of any number of workers come in order while nothing has gone astray.
THEOREM RecordsAreOrdered == HealthSpec => MetaNeverGoesBack
<1>1. HInv /\ [HealthNext]_allVars =>
        [orderly => meta'.attempt >= meta.attempt /\ meta'.success >= meta.success]_allVars
  BY OrderPreserved
<1> QED BY <1>1, HealthInvariant, PTL DEF HealthSpec, MetaNeverGoesBack

\* Only an answer of getHealth() says ok, and what it says then.
LEMMA OkAnswer ==
  ASSUME HInv, HealthNext, Answers("ok")
  PROVE  /\ probe.read = {"meta", "count"}
         /\ Status(probe.any, probe.success, clock) = "ok"
<1>1. probe.pc = "reading" /\ probe'.pc = "ok"
  BY DEF Answers
<1>2. probe \in [pc : {"none", "reading"} \cup Statuses,
                 read : SUBSET {"meta", "count"}, success : Nat, any : BOOLEAN]
  BY DEF HInv, HealthTypeOK
<1>3. ~CycleStep /\ ~Tick
  BY <1>1 DEF CycleStep, Tick
<1>4. ~ReadMeta /\ ~ReadCount
  BY <1>1, <1>2 DEF ReadMeta, ReadCount
<1>5. ~StartProbe /\ ~ReadFails
  BY <1>1 DEF StartProbe, ReadFails, NewProbe
<1>6. Answer
  BY <1>3, <1>4, <1>5 DEF HealthNext, ProbeStep
<1> QED BY <1>1, <1>6 DEF Answer, NewProbe

\* An ok of a service that tracks locations stands for a refresh that is recent,
\* for any number of workers and any faults.
THEOREM OksAreEarned == HealthSpec => OkIsEarned
<1>1. ASSUME HInv, [HealthNext]_allVars
      PROVE  [Answers("ok") /\ probe.any =>
                /\ served # 0
                /\ staleAfter # NaN => clock - served <= staleAfter]_allVars
  <2> SUFFICES ASSUME HealthNext, Answers("ok"), probe.any
               PROVE  served # 0 /\ (staleAfter # NaN => clock - served <= staleAfter)
    BY <1>1
  <2>1. probe.success # 0 /\ (staleAfter # NaN => ~(clock - probe.success > staleAfter))
    BY <1>1, OkAnswer DEF Status
  <2>2. probe.success <= served
    BY <1>1 DEF HInv, Earned
  <2> QED BY <1>1, <2>1, <2>2, Numbers DEF HInv, StaleAfterType
<1> QED BY <1>1, HealthInvariant, PTL DEF HealthSpec, OkIsEarned

\* An ok was the true status at some time of the call.
THEOREM OksWereTrue == HealthSpec => OkWasTrue
<1>1. ASSUME HInv, [HealthNext]_allVars
      PROVE  [Answers("ok") => wasOk]_allVars
  <2> SUFFICES ASSUME HealthNext, Answers("ok")
               PROVE  wasOk
    BY <1>1
  <2>1. /\ probe.read = {"meta", "count"}
        /\ Status(probe.any, probe.success, clock) = "ok"
    BY <1>1, OkAnswer
  <2>2. probe.pc = "reading" /\ TrueOnce
    BY <1>1 DEF Answers, HInv
  <2>3. probe.any => probe.success # 0 /\ Recent(probe.success)
    BY <1>1, <2>1, Numbers DEF Status, Recent, HInv, StaleAfterType
  <2> QED BY <2>1, <2>2, <2>3 DEF TrueOnce
<1> QED BY <1>1, HealthInvariant, PTL DEF HealthSpec, OkWasTrue
=============================================================================
